------------------------- MODULE MCRemoteChannel -------------------------
(* Instances of RemoteChannel for TLC. *)
EXTENDS RemoteChannel

SendsOne       == [s \in Sides |-> 1]
SendsFewFromZed == [s \in Sides |-> IF s = Client THEN 1 ELSE 2]
=============================================================================
