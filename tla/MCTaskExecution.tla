--------------------------- MODULE MCTaskExecution ---------------------------
(* TaskExecution for TLC: one task, of one of the two kinds, two workers.  *)
EXTENDS TaskExecution
=============================================================================
