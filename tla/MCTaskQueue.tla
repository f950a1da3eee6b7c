----------------------------- MODULE MCTaskQueue -----------------------------
(* TaskQueue for TLC.                                                      *)
EXTENDS TaskQueue, TLC

\* Task and node names only meet in equality tests.
Symmetry == Permutations(Task) \cup Permutations(Node)

=============================================================================
