---------------------------- MODULE MCAgentTurn ----------------------------
EXTENDS AgentTurn, TLC

Symmetry == Permutations(Tool)
=============================================================================
