----------------------------- MODULE MCLeaseClock -----------------------------
EXTENDS LeaseClock, TLC
CONSTANTS p1, p2

Start == [interval |-> 1, ttl |-> 9]
Changes ==
  {[interval |-> 2, ttl |-> Keep], [interval |-> Keep, ttl |-> 2], [interval |-> 0, ttl |-> Keep]}
Sym == Permutations(Patchers)
=============================================================================
