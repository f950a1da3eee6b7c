-------------------------- MODULE MCMembershipChange --------------------------
(* TLC instance of MembershipChange. *)
EXTENDS MembershipChange

CONSTANTS n1, n2, n3, n4
=============================================================================
