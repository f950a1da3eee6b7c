---------------------------- MODULE MCReplicaStore ----------------------------
(* TLC instance of ReplicaStore. *)
EXTENDS ReplicaStore
=============================================================================
