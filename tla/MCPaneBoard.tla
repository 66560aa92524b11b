----------------------------- MODULE MCPaneBoard -----------------------------
(* Instances of PaneBoard for TLC. *)
EXTENDS PaneBoard

FileSymmetry == Permutations(Files)

=============================================================================
