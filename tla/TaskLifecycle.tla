---------------------------- MODULE TaskLifecycle ----------------------------
(***************************************************************************)
(* What the replicated task domain promises about one task, whatever the   *)
(* order in which clients, schedulers, workers and operators propose       *)
(* commands: an abstract life cycle in which                               *)
(*                                                                         *)
(*   - a "sealed" task (its worker declared the point of no return) is     *)
(*     never handed out again: it can only be closed, then forgotten;      *)
(*   - a "closed" task stays closed until it is forgotten;                 *)
(*   - only a "dead" task (failed before any commit point) is revived.     *)
(*                                                                         *)
(* Tasks move independently, except that one vacuum may forget several.    *)
(* TaskQueue implements this specification (Lifecycle there is the         *)
(* refinement mapping).                                                    *)
(***************************************************************************)

CONSTANT Task

VARIABLE phase

Phase == {"absent", "waiting", "held", "sealed", "closed", "dead"}

Move(from, to) ==
  \E t \in Task : phase[t] = from /\ phase' = [phase EXCEPT ![t] = to]

Init == phase = [t \in Task |-> "absent"]

Submit   == Move("absent", "waiting")
HandOut  == Move("waiting", "held")
TakeBack == Move("held", "waiting")
Seal     == Move("held", "sealed")
Finish   == Move("held", "closed") \/ Move("held", "dead")
Settle   == Move("sealed", "closed")
Revive   == Move("dead", "waiting")

Forget ==
  \E S \in SUBSET {t \in Task : phase[t] \in {"closed", "dead"}} :
     phase' = [t \in Task |-> IF t \in S THEN "absent" ELSE phase[t]]

Next ==
  Submit \/ HandOut \/ TakeBack \/ Seal \/ Finish \/ Settle \/ Revive \/ Forget

Spec == Init /\ [][Next]_phase

=============================================================================
