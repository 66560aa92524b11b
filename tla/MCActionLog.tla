---------------------------- MODULE MCActionLog ----------------------------
EXTENDS ActionLog, TLC

Symmetry == Permutations(Lines)
=============================================================================
