---------------------------- MODULE MCSplitLayout ----------------------------
(* Instances of SplitLayout for TLC. *)
EXTENDS SplitLayout
=============================================================================
