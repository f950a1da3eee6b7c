----------------------------- MODULE MCPeerGuard -----------------------------
(* TLC instance of PeerGuard: callers are interchangeable, so are the keys. *)
EXTENDS PeerGuard, TLC

Symmetry == Permutations(Callers) \cup Permutations(Keys)
=============================================================================
