----------------------------- MODULE MCKvService -----------------------------
EXTENDS KvService, TLC
CONSTANTS c1, c2, n1, n2

Symmetry == Permutations(Client) \cup Permutations(Ctrl)
=============================================================================
