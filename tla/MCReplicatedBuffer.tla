------------------------ MODULE MCReplicatedBuffer ------------------------
(* Small instances of ReplicatedBuffer. *)
EXTENDS ReplicatedBuffer

TwoReplicas == {0, 1}        \* ReplicaId::LOCAL and ReplicaId::REMOTE_SERVER
ThreeReplicas == {0, 8, 9}   \* a host and two guests
NoneOrOne == {0, 1}
One == {1}
=============================================================================
