----------------------------- MODULE LeaderWorks -----------------------------
(***************************************************************************)
(* The leader controller of one control node (leader_controller.rs): per   *)
(* raft group it starts works, the membership guard and for the tasks      *)
(* group the scheduler, when this node becomes leader, and stops them when *)
(* it no longer is, when the node shuts down, or when raft's metrics end.  *)
(* The node ends with the controller (ShutdownHandler, signal.rs) and is   *)
(* started again.                                                          *)
(*                                                                         *)
(* raft is external: it publishes a role in a watch channel, which keeps   *)
(* the last value and whether the receiver has seen it, and it answers a   *)
(* write only while it is in contact with a quorum, or once it has failed. *)
(***************************************************************************)
EXTENDS Naturals, Sequences, SequencesExt

CONSTANTS
  Groups,
  WorksOf,     \* leader_works_for_group: the works of each group, in order
  Ailing,      \* groups in which a member is dead past its timeout
  Slots,       \* where instances of a work live: more than the code needs
  MaxFaults    \* bound: panics and raft failures

ASSUME WorksAssumption ==
  /\ DOMAIN WorksOf = Groups /\ Ailing \subseteq Groups /\ MaxFaults \in Nat
  /\ \A g \in Groups : WorksOf[g] \in Seq({"guard", "scheduler"}) /\ IsInjective(WorksOf[g])

Works(g) == ToSet(WorksOf[g])

VARIABLES
  role,      \* whether this node leads the group
  unseen,    \* the role was published again since the controller looked
  closed,    \* the metrics channel of the group is closed: its raft has failed
  contact,   \* the group's raft is in contact with a quorum
  ctl,       \* the controller task of each group: where it is, why it stops, errors
  running,   \* its Vec<RunningLeaderWork>: <<work, slot>> pairs
  inst,      \* the spawned tasks: state and whether their stop channel fired
  heal,      \* membership changes spawned by guards
  fence,     \* GroupHandle::membership_fence is held
  service,   \* run_leader_controller
  shutdown,  \* the node's shutdown signal
  faults

groupVars == <<role, unseen, closed, contact>>
healVars  == <<heal, fence>>
worksVars == <<groupVars, ctl, running, inst, healVars, service, shutdown, faults>>

Off == [state |-> "off", stop |-> FALSE]

(* A process that has just started; its role is what raft says.            *)
Fresh ==
  /\ unseen' = [g \in Groups |-> FALSE] /\ closed' = [g \in Groups |-> FALSE]
  /\ ctl' = [g \in Groups |-> [pc |-> "start", why |-> "none", err |-> FALSE]]
  /\ running' = [g \in Groups |-> <<>>]
  /\ inst' = [g \in Groups |-> [w \in Works(g) |-> [s \in Slots |-> Off]]]
  /\ heal' = [g \in Groups |-> 0] /\ fence' = [g \in Groups |-> FALSE]
  /\ service' = "running" /\ shutdown' = FALSE

Init ==
  /\ role \in [Groups -> BOOLEAN] /\ contact = [g \in Groups |-> TRUE]
  /\ unseen = [g \in Groups |-> FALSE] /\ closed = [g \in Groups |-> FALSE]
  /\ ctl = [g \in Groups |-> [pc |-> "start", why |-> "none", err |-> FALSE]]
  /\ running = [g \in Groups |-> <<>>]
  /\ inst = [g \in Groups |-> [w \in Works(g) |-> [s \in Slots |-> Off]]]
  /\ heal = [g \in Groups |-> 0] /\ fence = [g \in Groups |-> FALSE]
  /\ service = "running" /\ shutdown = FALSE
  /\ faults = 0

-----------------------------------------------------------------------------
(* raft, which wins an election only in contact with a quorum              *)
PublishRole(g) ==
  /\ ~closed[g] /\ (role[g] \/ contact[g])
  /\ role' = [role EXCEPT ![g] = ~@] /\ unseen' = [unseen EXCEPT ![g] = TRUE]
  /\ UNCHANGED <<closed, contact, ctl, running, inst, healVars, service, shutdown, faults>>

CloseMetrics(g) ==
  /\ ~closed[g] /\ faults < MaxFaults /\ faults' = faults + 1
  /\ closed' = [closed EXCEPT ![g] = TRUE] /\ role' = [role EXCEPT ![g] = FALSE]
  /\ UNCHANGED <<unseen, contact, ctl, running, inst, healVars, service, shutdown>>

(* Of the works only the scheduler waits for raft.                         *)
LoseContact(g) ==
  /\ contact[g] /\ "scheduler" \in Works(g)
  /\ contact' = [contact EXCEPT ![g] = FALSE]
  /\ UNCHANGED <<role, unseen, closed, ctl, running, inst, healVars, service, shutdown, faults>>

RegainContact(g) ==
  /\ ~contact[g] /\ contact' = [contact EXCEPT ![g] = TRUE]
  /\ UNCHANGED <<role, unseen, closed, ctl, running, inst, healVars, service, shutdown, faults>>

-----------------------------------------------------------------------------
(* run_group_leader_controller                                             *)
Free(g, w) == {s \in Slots : inst[g][w][s].state = "off"}

(* RunningLeaderWork::start for each work, with the fence of the group.    *)
StartWorks(g) ==
  LET slot == [w \in Works(g) |-> CHOOSE s \in Slots : s \in Free(g, w)] IN
  /\ \A w \in Works(g) : Free(g, w) # {}
  /\ running' = [running EXCEPT ![g] =
       [i \in DOMAIN WorksOf[g] |-> <<WorksOf[g][i], slot[WorksOf[g][i]]>>]]
  /\ inst' = [inst EXCEPT ![g] =
       [w \in Works(g) |-> [@[w] EXCEPT ![slot[w]] = [state |-> "idle", stop |-> FALSE]]]]
  /\ UNCHANGED healVars

\* MUTANT: the handle is awaited but the stop is not sent.
Signalled_not(stopped, rest) == stopped

(* stop_tx.send to the work that is next to stop.                          *)
Signalled(stopped, rest) ==
  IF rest = <<>> THEN stopped ELSE [stopped EXCEPT ![Head(rest)[1]][Head(rest)[2]].stop = TRUE]

(* Back to the watch, or the group's task returns.                         *)
AllStopped(why, err) ==
  IF why = "role" /\ ~err THEN [pc |-> "watch", why |-> "none", err |-> FALSE]
  ELSE [pc |-> "exited", why |-> why, err |-> err \/ why = "closed"]

(* stop_running_works, one work after the other: send, await, next.        *)
Stopping(g, why) ==
  /\ ctl' = [ctl EXCEPT ![g] = IF running[g] = <<>> THEN AllStopped(why, FALSE)
                               ELSE [pc |-> "stopping", why |-> why, err |-> FALSE]]
  /\ inst' = [inst EXCEPT ![g] = Signalled(@, running[g])]

\* MUTANT: the work is told to stop but not awaited.
AwaitStopped_not(g) ==
  /\ ctl[g].pc = "stopping"
  /\ LET rest == Tail(running[g]) IN
     /\ ctl' = [ctl EXCEPT ![g] = IF rest = <<>> THEN AllStopped(@.why, @.err) ELSE @]
     /\ inst' = [inst EXCEPT ![g] = Signalled(@, rest)]
     /\ running' = [running EXCEPT ![g] = rest]
  /\ UNCHANGED <<groupVars, healVars, service, shutdown, faults>>

\* MUTANT: what was published while the works stopped counts as seen.
AwaitStopped_forgets(g) ==
  /\ ctl[g].pc = "stopping"
  /\ LET w == Head(running[g])[1]  s == Head(running[g])[2]  rest == Tail(running[g])
         err == ctl[g].err \/ inst[g][w][s].state = "dead" IN
     /\ inst[g][w][s].state \in {"over", "dead"}
     /\ ctl' = [ctl EXCEPT ![g] = IF rest = <<>> THEN AllStopped(@.why, err)
                                  ELSE [@ EXCEPT !.err = err]]
     /\ inst' = [inst EXCEPT ![g] = Signalled([@ EXCEPT ![w][s] = Off], rest)]
     /\ running' = [running EXCEPT ![g] = rest]
  /\ unseen' = [unseen EXCEPT ![g] = FALSE]
  /\ UNCHANGED <<role, closed, contact, healVars, service, shutdown, faults>>

AwaitStopped(g) ==
  /\ ctl[g].pc = "stopping"
  /\ LET w == Head(running[g])[1]  s == Head(running[g])[2]  rest == Tail(running[g])
         err == ctl[g].err \/ inst[g][w][s].state = "dead" IN
     /\ inst[g][w][s].state \in {"over", "dead"}
     /\ ctl' = [ctl EXCEPT ![g] = IF rest = <<>> THEN AllStopped(@.why, err)
                                  ELSE [@ EXCEPT !.err = err]]
     /\ inst' = [inst EXCEPT ![g] = Signalled([@ EXCEPT ![w][s] = Off], rest)]
     /\ running' = [running EXCEPT ![g] = rest]
  /\ UNCHANGED <<groupVars, healVars, service, shutdown, faults>>

(* apply_group_role                                                        *)
ApplyRole(g) ==
  \/ /\ role[g] /\ running[g] = <<>>
     /\ StartWorks(g) /\ ctl' = [ctl EXCEPT ![g].pc = "watch"]
  \/ /\ ~role[g] /\ running[g] # <<>>
     /\ Stopping(g, "role") /\ UNCHANGED <<running, healVars>>
  \/ /\ role[g] <=> running[g] # <<>>
     /\ ctl' = [ctl EXCEPT ![g].pc = "watch"] /\ UNCHANGED <<running, inst, healVars>>

FirstRole(g) ==
  /\ ctl[g].pc = "start" /\ ApplyRole(g)
  /\ UNCHANGED <<groupVars, service, shutdown, faults>>

SeeRole(g) ==
  /\ ctl[g].pc = "watch" /\ unseen[g] /\ ~closed[g]
  /\ unseen' = [unseen EXCEPT ![g] = FALSE]
  /\ ApplyRole(g)
  /\ UNCHANGED <<role, closed, contact, service, shutdown, faults>>

SeeEnd(g) ==
  /\ ctl[g].pc = "watch"
  /\ \/ shutdown /\ Stopping(g, "shutdown")
     \/ closed[g] /\ Stopping(g, "closed")
  /\ UNCHANGED <<groupVars, running, healVars, service, shutdown, faults>>

-----------------------------------------------------------------------------
(* run_leader_controller                                                   *)
SeeShutdown ==
  /\ service = "running" /\ shutdown /\ service' = "draining"
  /\ UNCHANGED <<groupVars, ctl, running, inst, healVars, shutdown, faults>>

(* join_next yields g's result.  Returning the error drops the JoinSet,    *)
(* which only asks for the other groups' tasks to be aborted.              *)
JoinGroup(g) ==
  /\ service \in {"running", "draining", "failing"} /\ ctl[g].pc = "exited"
  /\ service' = IF ~ctl[g].err THEN service
                ELSE IF service = "running" THEN "error" ELSE "failing"
  /\ ctl' = [ctl EXCEPT ![g].pc = "gone"]
  /\ UNCHANGED <<groupVars, running, inst, healVars, shutdown, faults>>

(* The runtime drops an aborted task, some of its steps later: the stop    *)
(* channels it holds are closed, which stops its works too.                *)
Cancelled(g) ==
  /\ service = "error" /\ ctl[g].pc # "gone"
  /\ ctl' = [ctl EXCEPT ![g].pc = "gone"]
  /\ running' = [running EXCEPT ![g] = <<>>]
  /\ inst' = [inst EXCEPT ![g] = [w \in Works(g) |-> [s \in Slots |->
       IF <<w, s>> \in ToSet(running[g]) THEN [@[w][s] EXCEPT !.stop = TRUE] ELSE @[w][s]]]]
  /\ UNCHANGED <<groupVars, healVars, service, shutdown, faults>>

\* MUTANT: the controller reports as soon as it sees the signal.
ServiceEnds_early ==
  /\ service \in {"running", "draining", "failing"} /\ shutdown
  /\ service' = IF service = "failing" THEN "error" ELSE "ok"
  /\ UNCHANGED <<groupVars, ctl, running, inst, healVars, shutdown, faults>>

(* join_next yields None: all groups are joined.                           *)
ServiceEnds ==
  /\ service \in {"running", "draining", "failing"}
  /\ \A g \in Groups : ctl[g].pc = "gone"
  /\ service' = IF service = "failing" THEN "error" ELSE "ok"
  /\ UNCHANGED <<groupVars, ctl, running, inst, healVars, shutdown, faults>>

(* ShutdownHandler: a signal, or the end of any service, shuts the node    *)
(* down; once the controller has reported the process ends and is started  *)
(* again.                                                                  *)
Signal ==
  /\ ~shutdown /\ service \notin {"ok", "error"} /\ shutdown' = TRUE
  /\ UNCHANGED <<groupVars, ctl, running, inst, healVars, service, faults>>

EarlyExit ==
  /\ ~shutdown /\ service \in {"ok", "error"} /\ shutdown' = TRUE
  /\ UNCHANGED <<groupVars, ctl, running, inst, healVars, service, faults>>

ProcessEnds ==
  /\ service \in {"ok", "error"} /\ shutdown
  /\ Fresh /\ UNCHANGED <<contact, faults>>
  /\ role' \in [Groups -> BOOLEAN] /\ \A g \in Groups : role'[g] => contact[g]

-----------------------------------------------------------------------------
(* The works: run_membership_guard and run_task_scheduler.                 *)
SetInst(g, w, s, state) == inst' = [inst EXCEPT ![g][w][s].state = state]

(* The loop's timer or an apply event wins the select.  A pass of the      *)
(* scheduler that has nothing to write waits for nobody and is left out.   *)
BeginPass(g, w, s) ==
  /\ inst[g][w][s].state = "idle" /\ SetInst(g, w, s, "busy")
  /\ UNCHANGED <<groupVars, ctl, running, healVars, service, shutdown, faults>>

(* The scheduler's client_write has no timeout: its pass ends once raft    *)
(* has answered, also with an error.                                       *)
EndPass(g, w, s) ==
  /\ inst[g][w][s].state = "busy" /\ SetInst(g, w, s, "idle")
  /\ w = "scheduler" => contact[g] \/ closed[g]
  /\ UNCHANGED <<groupVars, ctl, running, healVars, service, shutdown, faults>>

(* The guard ends its tick by spawning a change that owns the fence.       *)
SpawnHeal(g, s) ==
  /\ g \in Ailing /\ "guard" \in Works(g) /\ inst[g]["guard"][s].state = "busy" /\ ~fence[g]
  /\ fence' = [fence EXCEPT ![g] = TRUE] /\ heal' = [heal EXCEPT ![g] = @ + 1]
  /\ SetInst(g, "guard", s, "idle")
  /\ UNCHANGED <<groupVars, ctl, running, service, shutdown, faults>>

HealEnds(g) ==
  /\ heal[g] > 0 /\ heal' = [heal EXCEPT ![g] = @ - 1] /\ fence' = [fence EXCEPT ![g] = FALSE]
  /\ UNCHANGED <<groupVars, ctl, running, inst, service, shutdown, faults>>

(* The stop branch of the select.  An aborted controller awaits nobody.    *)
SeeStop(g, w, s) ==
  /\ inst[g][w][s].state = "idle" /\ inst[g][w][s].stop
  /\ IF <<w, s>> \in ToSet(running[g]) THEN SetInst(g, w, s, "over")
     ELSE inst' = [inst EXCEPT ![g][w][s] = Off]
  /\ UNCHANGED <<groupVars, ctl, running, healVars, service, shutdown, faults>>

(* A pass panics; its JoinHandle reports it when it is awaited.            *)
Panic(g, w, s) ==
  /\ inst[g][w][s].state = "busy" /\ faults < MaxFaults /\ faults' = faults + 1
  /\ IF <<w, s>> \in ToSet(running[g]) THEN SetInst(g, w, s, "dead")
     ELSE inst' = [inst EXCEPT ![g][w][s] = Off]
  /\ UNCHANGED <<groupVars, ctl, running, healVars, service, shutdown>>

-----------------------------------------------------------------------------
Controller(g) ==
  \/ FirstRole(g) \/ SeeRole(g) \/ AwaitStopped(g) \/ JoinGroup(g) \/ Cancelled(g)

Main == SeeShutdown \/ ServiceEnds \/ EarlyExit \/ ProcessEnds

Next ==
  \/ Main \/ Signal
  \/ \E g \in Groups :
       \/ PublishRole(g) \/ CloseMetrics(g) \/ LoseContact(g) \/ RegainContact(g)
       \/ Controller(g) \/ SeeEnd(g) \/ HealEnds(g)
       \/ \E s \in Slots :
            \/ SpawnHeal(g, s)
            \/ \E w \in Works(g) :
                 BeginPass(g, w, s) \/ EndPass(g, w, s) \/ SeeStop(g, w, s) \/ Panic(g, w, s)

WorksSpec == Init /\ [][Next]_worksVars

(* Tasks that can run do: a pass ends unless it waits for raft, and raft   *)
(* answers while it stays in contact.  select! takes a branch that is      *)
(* ready again and again, since it picks at random among the ready ones.   *)
FairWorksSpec ==
  /\ WorksSpec
  /\ WF_worksVars(Main)
  /\ \A g \in Groups :
       /\ WF_worksVars(Controller(g)) /\ SF_worksVars(SeeEnd(g))
       /\ \A w \in Works(g) :
            /\ WF_worksVars(\E s \in Slots : EndPass(g, w, s))
            /\ SF_worksVars(\E s \in Slots : SeeStop(g, w, s))

(* A more obliging raft: it answers if it is in contact again and again.   *)
ObligingWorksSpec ==
  /\ FairWorksSpec
  /\ \A g \in Groups : \A w \in Works(g) : SF_worksVars(\E s \in Slots : EndPass(g, w, s))

-----------------------------------------------------------------------------
(* Properties                                                              *)
Live(g, w) == {s \in Slots : inst[g][w][s].state \in {"idle", "busy"}}
Dead(g, w) == {s \in Slots : inst[g][w][s].state = "dead"}

(* However quickly the role flips, a work never has two instances in this  *)
(* process, and no change spawned by an earlier guard overlaps another: it *)
(* outlives its guard, but so does the fence it holds.                     *)
OneOfEach ==
  \A g \in Groups : heal[g] <= 1 /\ \A w \in Works(g) :
    \A s, r \in Live(g, w) : s = r

(* No work is left running with nobody to stop it: after a clean report    *)
(* none is left, and those of a group whose task is gone, joined or        *)
(* aborted at any point, have their stop signal.                           *)
ReportIsTrue ==
  \A g \in Groups : \A w \in Works(g) : \A s \in Live(g, w) :
    service # "ok" /\ (ctl[g].pc = "gone" => inst[g][w][s].stop)

(* On a node that keeps the lead and its contact, stays up and sees no     *)
(* panic, all works of the group run in the end, whatever flips were       *)
(* coalesced before; on a node that lost the lead for good, and is in      *)
(* contact, none is left.                                                  *)
WorksFollowRole ==
  \A g \in Groups :
    /\ <>[](/\ role[g] /\ contact[g] /\ service = "running" /\ ~shutdown
            /\ \A w \in Works(g) : Dead(g, w) = {})
         => <>[](\A w \in Works(g) : Live(g, w) # {})
    /\ <>[](~role[g] /\ contact[g]) => <>[](\A w \in Works(g) : Live(g, w) = {})

(* While raft stays in contact a shutdown completes: stopping the works    *)
(* one by one, and then the groups, hangs on none.                         *)
ShutdownCompletes == (\A g \in Groups : <>[]contact[g]) => (shutdown ~> ~shutdown)

(* README.org of a graceful stop: it "waits for the node to leave          *)
(* kademlia, stop the libp2p swarm, and shut down its openraft groups      *)
(* cleanly".  Without a quorum the scheduler waits in client_write, the    *)
(* controller for the scheduler and the node for the controller; raft is   *)
(* shut down only after them.                                              *)
GracefulStopEnds == shutdown ~> ~shutdown

-----------------------------------------------------------------------------
(* Why the first two hold: the inductive invariant.                        *)

Controllers ==
  [pc  : {"start", "watch", "stopping", "exited", "gone"},
   why : {"none", "role", "shutdown", "closed"}, err : BOOLEAN]
Instances   == [state : {"off", "idle", "busy", "over", "dead"}, stop : BOOLEAN]

CtlTyped ==
  /\ ctl \in [Groups -> Controllers] /\ DOMAIN running = Groups
  /\ \A g \in Groups : running[g] \in Seq(Works(g) \X Slots)

InstTyped ==
  /\ DOMAIN inst = Groups
  /\ \A g \in Groups : inst[g] \in [Works(g) -> [Slots -> Instances]]

(* A guard's change holds the fence, and the fence is held by one.         *)
FenceCounts ==
  /\ heal \in [Groups -> Nat] /\ fence \in [Groups -> BOOLEAN]
  /\ \A g \in Groups : heal[g] = IF fence[g] THEN 1 ELSE 0

Used(g, w) == {s \in Slots : inst[g][w][s].state # "off"}

SingleUse == \A g \in Groups : \A w \in Works(g) : \A s, r \in Used(g, w) : s = r

(* A group's task knows every instance that is not gone, ended or not; an  *)
(* aborted one leaves behind only what has its signal.                     *)
Tracked ==
  \A g \in Groups : \A w \in Works(g) : \A s \in Used(g, w) :
    \/ <<w, s>> \in ToSet(running[g])
    \/ service = "error" /\ ctl[g].pc = "gone" /\ (s \in Live(g, w) => inst[g][w][s].stop)

(* Where a group's task is tells whether it has works.                     *)
PcFits ==
  \A g \in Groups :
    /\ ctl[g].pc \in {"start", "exited", "gone"} => running[g] = <<>>
    /\ ctl[g].pc = "stopping" => running[g] # <<>>
    /\ service = "ok" => ctl[g].pc = "gone"

WorksInv ==
  /\ service \in {"running", "draining", "failing", "ok", "error"}
  /\ CtlTyped /\ InstTyped /\ FenceCounts /\ SingleUse /\ Tracked /\ PcFits
=============================================================================
