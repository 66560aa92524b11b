-------------------------- MODULE MCProjectSession --------------------------
EXTENDS ProjectSession, TLC

ProjectSymmetry == Permutations(Projects)

Calm  == {}
LateShare == {"shareLink"}
Stormy == AllDisturbances
=============================================================================
