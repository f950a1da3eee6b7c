---------------------------- MODULE TaskExecution ----------------------------
(***************************************************************************)
(* Executing tasks: the leader's scheduler (tasks/scheduler.rs), the       *)
(* worker loops (tasks/worker.rs), the payload handlers (tasks/handlers.rs)*)
(* and the clients (tasks/api.rs) around the replicated task domain of     *)
(* TaskQueue, with the failures they must survive: worker crashes, lost    *)
(* wakes, submissions whose reply is lost or whose command is applied      *)
(* late or twice, expired leases and premature requeues.                   *)
(*                                                                         *)
(* A submission (claim, commit mark, ack) is applied and answered in one   *)
(* step.  A copy the worker no longer waits for, made by a retry against   *)
(* another control node or by a lost reply, is a member of `ghosts` and is *)
(* applied whenever it likes.  Time is abstracted: what a deadline decides *)
(* is a nondeterministic choice, and the choices that need the clock to    *)
(* misbehave are counted in `faults` so that liveness can be stated.       *)
(***************************************************************************)
EXTENDS TaskQueue, FiniteSets

CONSTANTS
  Irreversible,   \* tasks whose handler uses the commit mark (email, webhook)
  MaxAttempts,    \* MAX_TASK_ATTEMPTS
  MaxConcurrent,  \* WORKER_MAX_CONCURRENT_TASKS
  MaxEpoch,       \* bound: lease epochs are 1..MaxEpoch, then repeat MaxEpoch
  MaxMinted,      \* bound on the tasks ever enqueued
  MaxFaults       \* bound on crashes, duplicates, lost replies, bad timeouts

ASSUME TaskExecutionAssumption ==
  /\ Irreversible \subseteq Task
  /\ MaxAttempts \in Nat \ {0}
  /\ MaxConcurrent \in Nat \ {0}
  /\ MaxEpoch \in Nat \ {0}
  /\ Epoch = 1..MaxEpoch
  /\ MaxMinted \in Nat
  /\ MaxFaults \in Nat

VARIABLES
  exec,     \* exec[n][t]: the execution of t that node n has in flight
  up,       \* nodes whose worker process runs
  renewed,  \* renewed[n]: the last lease epoch n submitted
  fresh,    \* nodes whose lease the scheduler considers fresh
  wakes,    \* directed wake-ups under way
  ghosts,   \* copies of submitted commands nobody waits for
  minted,   \* task ids ever generated
  effects,  \* effects[t]: how often the irreversible effect of t happened
  faults

execVars == <<exec, up, renewed, fresh, wakes, ghosts, minted, effects, faults>>
vars == <<taskVars, execVars>>

Pc == {"idle", "waiting", "claiming", "running", "marking", "effect", "acking"}
Submitting == {"claiming", "marking", "acking"}

Slot == [pc : Pc, epoch : Epoch \cup {NoEpoch}, attempts : 0..AttemptCap,
         ok : BOOLEAN]
IdleSlot == [pc |-> "idle", epoch |-> NoEpoch, attempts |-> 0, ok |-> FALSE]

Command == [op : {"claim", "mark", "done", "fail"}, task : Task, node : Node,
            epoch : Epoch, attempts : 0..AttemptCap]

-----------------------------------------------------------------------------
(* Commands                                                                *)

\* The command the execution of t on n is submitting.
CommandOf(n, t) ==
  LET x == exec[n][t] IN
  [op |-> CASE x.pc = "claiming" -> "claim"
            [] x.pc = "marking" -> "mark"
            [] OTHER -> IF x.ok THEN "done" ELSE "fail",
   task |-> t, node |-> n, epoch |-> x.epoch, attempts |-> x.attempts]

Accepts(c) ==
  IF c.op = "claim" THEN ClaimMatches(c.task, c.node, c.epoch)
                    ELSE AckMatches(c.task, c.node, c.epoch)

\* MUTANT: a failure is always retried.
RetryAt_always(a) == Time

\* The last attempt asks for permanent failure, the others for a retry.
RetryAt(a) == IF a >= MaxAttempts THEN {0} ELSE Time

Apply(c) ==
  \E now \in Time :
    \/ c.op = "claim" /\ apply_claim(c.task, c.node, c.epoch, now)
    \/ c.op = "mark" /\ apply_mark_committed(c.task, c.node, c.epoch, now)
    \/ c.op = "done" /\ apply_done(c.task, c.node, c.epoch, c.attempts, now)
    \/ c.op = "fail" /\ \E r \in RetryAt(c.attempts) :
         apply_fail(c.task, c.node, c.epoch, c.attempts, r, now)

Fault == faults < MaxFaults /\ faults' = faults + 1

-----------------------------------------------------------------------------
(* Clients and operators                                                   *)

\* Every enqueue mints an id (uuid v7); a deduplicated one writes nothing.
Enqueue(t) ==
  /\ t \notin minted /\ Cardinality(minted) < MaxMinted
  /\ minted' = minted \cup {t}
  /\ \E now, runAt \in Time, k \in IdemKey \cup {NoKey} :
       \/ runAt >= now /\ apply_enqueue(t, runAt, k, now)
       \/ Deduplicated(t, k) /\ UNCHANGED taskVars
  /\ UNCHANGED <<exec, up, renewed, fresh, wakes, ghosts, effects, faults>>

Replay(t) ==
  /\ \E now \in Time : apply_replay(t, now)
  /\ UNCHANGED execVars

\* Retention cleanup; the retention deadline is abstracted.
Vacuum ==
  /\ \E ids \in SUBSET Task : apply_vacuum(ids)
  /\ UNCHANGED execVars

-----------------------------------------------------------------------------
(* The scheduler on the task group's leader                                *)

\* The lease read at the start of a pass may have been renewed since, so any
\* epoch the worker ever submitted can be the one assigned.
Assign(t, n) ==
  /\ n \in fresh
  /\ \E now \in Time, e \in 1..renewed[n] :
       /\ apply_assign(t, n, e, now)
       /\ wakes' = wakes \cup {<<n, t, e>>}
  /\ UNCHANGED <<exec, up, renewed, fresh, ghosts, minted, effects, faults>>

\* In-flight work of a worker that is neither connected nor leased.
RequeueInactive(t) ==
  /\ HasStatus(t, InFlight) /\ rec[t].node \notin fresh
  /\ apply_requeue(t)
  /\ UNCHANGED execVars

\* The worker that owns the running task t is past its claim of it.
Held(t) == exec[rec[t].node][t].pc \notin {"idle", "waiting", "claiming"}

\* Running without progress past task_stuck_requeue_secs: nobody executes it.
RequeueStuck(t) ==
  /\ HasStatus(t, {"Running"}) /\ ~Held(t)
  /\ apply_requeue(t)
  /\ UNCHANGED execVars

\* The same timeout fires although the worker is still at it, or has not come
\* to claim the task yet (it waits for a permit, its polls are late, its clock
\* is off, the timeout was configured low).
RequeueEarly(t) ==
  /\ Fault
  /\ apply_requeue(t)
  /\ UNCHANGED <<exec, up, renewed, fresh, wakes, ghosts, minted, effects>>

-----------------------------------------------------------------------------
(* Worker process                                                          *)

\* Spawns an execution of each task in `todo`, a function from task to lease
\* epoch, unless one is in flight already: then the newer epoch is dropped.
Spawn(n, todo) ==
  exec' = [exec EXCEPT ![n] = [t \in Task |->
     IF t \in DOMAIN todo /\ exec[n][t].pc = "idle"
     THEN [IdleSlot EXCEPT !.pc = "waiting", !.epoch = todo[t]]
     ELSE exec[n][t]]]

WakeUp(n, t) ==
  /\ \E e \in Epoch :
       /\ <<n, t, e>> \in wakes
       /\ wakes' = wakes \ {<<n, t, e>>}
       /\ IF n \in up THEN Spawn(n, [x \in {t} |-> e]) ELSE UNCHANGED exec
  /\ UNCHANGED <<taskVars, up, renewed, fresh, ghosts, minted, effects, faults>>

\* The wake RPC failed or the wake channel lagged.
LoseWake(n, t) ==
  /\ \E e \in Epoch :
       <<n, t, e>> \in wakes /\ wakes' = wakes \ {<<n, t, e>>}
  /\ UNCHANGED <<taskVars, exec, up, renewed, fresh, ghosts, minted, effects,
                 faults>>

\* The tasks list_assigned names for n, with their epochs.
Listed(n) ==
  [t \in {u \in Task : assigned[n][u] # NoEpoch} |-> assigned[n][t]]

\* Fallback reconciliation.
Drain(n) ==
  /\ n \in up
  /\ \E t \in DOMAIN Listed(n) : exec[n][t].pc = "idle"
  /\ Spawn(n, Listed(n))
  /\ UNCHANGED <<taskVars, up, renewed, fresh, wakes, ghosts, minted, effects,
                 faults>>

RenewLease(n) ==
  /\ n \in up
  /\ renewed' = [renewed EXCEPT ![n] = IF @ < MaxEpoch THEN @ + 1 ELSE @]
  /\ fresh' = fresh \cup {n}
  /\ \E x \in Time : apply_worker_lease(n, renewed'[n], x)
  /\ UNCHANGED <<exec, up, wakes, ghosts, minted, effects, faults>>

\* The lease of a dead worker runs out.
ExpireLease(n) ==
  /\ n \in fresh \ up
  /\ fresh' = fresh \ {n}
  /\ UNCHANGED <<taskVars, exec, up, renewed, wakes, ghosts, minted, effects,
                 faults>>

\* A live worker's renewals do not get through, or the leader lost sight of
\* it for longer than the disconnect grace.
SuspectWorker(n) ==
  /\ Fault
  /\ n \in fresh \cap up
  /\ fresh' = fresh \ {n}
  /\ UNCHANGED <<taskVars, exec, up, renewed, wakes, ghosts, minted, effects>>

\* In-flight executions are abandoned: nothing of them is persisted.
Crash(n) ==
  /\ Fault
  /\ n \in up
  /\ up' = up \ {n}
  /\ exec' = [exec EXCEPT ![n] = [t \in Task |-> IdleSlot]]
  /\ UNCHANGED <<taskVars, renewed, fresh, wakes, ghosts, minted, effects>>

Restart(n) ==
  /\ n \notin up
  /\ up' = up \cup {n}
  /\ UNCHANGED <<taskVars, exec, renewed, fresh, wakes, ghosts, minted, effects,
                 faults>>

-----------------------------------------------------------------------------
(* One execution: claim, run, mark, effect, ack                            *)

Goto(n, t, pc) == exec' = [exec EXCEPT ![n][t] = [@ EXCEPT !.pc = pc]]
Outcome(n, t, ok) ==
  exec' = [exec EXCEPT ![n][t] = [@ EXCEPT !.pc = "acking", !.ok = ok]]
Finish(n, t) == exec' = [exec EXCEPT ![n][t] = IdleSlot]

AtWork(n) == {t \in Task : exec[n][t].pc \notin {"idle", "waiting"}}

AcquirePermit(n, t) ==
  /\ exec[n][t].pc = "waiting"
  /\ Cardinality(AtWork(n)) < MaxConcurrent
  /\ Goto(n, t, "claiming")
  /\ UNCHANGED <<taskVars, up, renewed, fresh, wakes, ghosts, minted, effects,
                 faults>>

\* MUTANT: the execution keeps the attempt count it had before the claim.
ClaimAccepted_staleAttempts(n, t) ==
  /\ exec[n][t].pc = "claiming"
  /\ Apply(CommandOf(n, t))
  /\ Goto(n, t, "running")
  /\ UNCHANGED <<up, renewed, fresh, wakes, ghosts, minted, effects, faults>>

\* The claim answers with the record it wrote.
ClaimAccepted(n, t) ==
  /\ exec[n][t].pc = "claiming"
  /\ Apply(CommandOf(n, t))
  /\ exec' = [exec EXCEPT ![n][t] =
                [@ EXCEPT !.pc = "running", !.attempts = rec'[t].attempts]]
  /\ UNCHANGED <<up, renewed, fresh, wakes, ghosts, minted, effects, faults>>

ClaimRejected(n, t) ==
  /\ exec[n][t].pc = "claiming"
  /\ ~Accepts(CommandOf(n, t))
  /\ Finish(n, t)
  /\ UNCHANGED <<taskVars, up, renewed, fresh, wakes, ghosts, minted, effects,
                 faults>>

\* A handler error or the execution timeout before any commit mark.
HandlerFails(n, t) ==
  /\ exec[n][t].pc = "running"
  /\ Outcome(n, t, FALSE)
  /\ UNCHANGED <<taskVars, up, renewed, fresh, wakes, ghosts, minted, effects,
                 faults>>

\* Digest, kv_set, sleep and wasm payloads run without a commit mark.
HandlerCompletes(n, t) ==
  /\ exec[n][t].pc = "running"
  /\ t \notin Irreversible
  /\ Outcome(n, t, TRUE)
  /\ UNCHANGED <<taskVars, up, renewed, fresh, wakes, ghosts, minted, effects,
                 faults>>

\* MUTANT: the handler of an irreversible task skips the commit mark.
mark_committed_skipped(n, t) ==
  /\ exec[n][t].pc = "running"
  /\ t \in Irreversible
  /\ Goto(n, t, "effect")
  /\ UNCHANGED <<taskVars, up, renewed, fresh, wakes, ghosts, minted, effects,
                 faults>>

mark_committed(n, t) ==
  /\ exec[n][t].pc = "running"
  /\ t \in Irreversible
  /\ Goto(n, t, "marking")
  /\ UNCHANGED <<taskVars, up, renewed, fresh, wakes, ghosts, minted, effects,
                 faults>>

MarkAccepted(n, t) ==
  /\ exec[n][t].pc = "marking"
  /\ Apply(CommandOf(n, t))
  /\ Goto(n, t, "effect")
  /\ UNCHANGED <<up, renewed, fresh, wakes, ghosts, minted, effects, faults>>

MarkRejected(n, t) ==
  /\ exec[n][t].pc = "marking"
  /\ ~Accepts(CommandOf(n, t))
  /\ Outcome(n, t, FALSE)
  /\ UNCHANGED <<taskVars, up, renewed, fresh, wakes, ghosts, minted, effects,
                 faults>>

\* The email is sent, the webhook posted; the answer may still be an error.
PerformEffect(n, t) ==
  /\ exec[n][t].pc = "effect"
  /\ effects' = [effects EXCEPT ![t] = @ + 1]
  /\ \E ok \in BOOLEAN : Outcome(n, t, ok)
  /\ UNCHANGED <<taskVars, up, renewed, fresh, wakes, ghosts, minted, faults>>

\* MUTANT: a timed out handler is acked as done.
TimeOut_asSuccess(n, t) ==
  /\ exec[n][t].pc \in {"marking", "effect"}
  /\ Outcome(n, t, TRUE)
  /\ UNCHANGED <<taskVars, up, renewed, fresh, wakes, ghosts, minted, effects,
                 faults>>

\* The execution timeout drops the handler between its mark and its effect.
TimeOut(n, t) ==
  /\ exec[n][t].pc \in {"marking", "effect"}
  /\ Outcome(n, t, FALSE)
  /\ UNCHANGED <<taskVars, up, renewed, fresh, wakes, ghosts, minted, effects,
                 faults>>

AckAccepted(n, t) ==
  /\ exec[n][t].pc = "acking"
  /\ Apply(CommandOf(n, t))
  /\ Finish(n, t)
  /\ UNCHANGED <<up, renewed, fresh, wakes, ghosts, minted, effects, faults>>

AckRejected(n, t) ==
  /\ exec[n][t].pc = "acking"
  /\ ~Accepts(CommandOf(n, t))
  /\ Finish(n, t)
  /\ UNCHANGED <<taskVars, up, renewed, fresh, wakes, ghosts, minted, effects,
                 faults>>

\* No control node answers: a claim or an ack ends the round, a mark fails
\* the handler.
GiveUp(n, t) ==
  /\ Fault
  /\ exec[n][t].pc \in Submitting
  /\ IF exec[n][t].pc = "marking" THEN Outcome(n, t, FALSE) ELSE Finish(n, t)
  /\ UNCHANGED <<taskVars, up, renewed, fresh, wakes, ghosts, minted, effects>>

\* One more copy of the submitted command is under way.
Duplicate(n, t) ==
  /\ Fault
  /\ exec[n][t].pc \in Submitting
  /\ ghosts' = ghosts \cup {CommandOf(n, t)}
  /\ UNCHANGED <<taskVars, exec, up, renewed, fresh, wakes, minted, effects>>

ApplyGhost(c) ==
  /\ c \in ghosts
  /\ ghosts' = ghosts \ {c}
  /\ Apply(c) \/ (~Accepts(c) /\ UNCHANGED taskVars)
  /\ UNCHANGED <<exec, up, renewed, fresh, wakes, minted, effects, faults>>

-----------------------------------------------------------------------------
ExecInit ==
  /\ Init
  /\ exec = [n \in Node |-> [t \in Task |-> IdleSlot]]
  /\ up = Node
  /\ renewed = [n \in Node |-> 0]
  /\ fresh = {}
  /\ wakes = {}
  /\ ghosts = {}
  /\ minted = {}
  /\ effects = [t \in Task |-> 0]
  /\ faults = 0

SchedulerStep(t) ==
  \/ \E n \in Node : Assign(t, n)
  \/ RequeueInactive(t)
  \/ RequeueStuck(t)

ExecutionStep(n, t) ==
  \/ ClaimAccepted(n, t) \/ ClaimRejected(n, t)
  \/ HandlerFails(n, t) \/ HandlerCompletes(n, t)
  \/ mark_committed(n, t) \/ MarkAccepted(n, t) \/ MarkRejected(n, t)
  \/ PerformEffect(n, t) \/ TimeOut(n, t)
  \/ AckAccepted(n, t) \/ AckRejected(n, t)

ExecNext ==
  \/ \E t \in Task : \/ Enqueue(t) \/ Replay(t)
                     \/ SchedulerStep(t) \/ RequeueEarly(t)
  \/ Vacuum
  \/ \E n \in Node : \/ Drain(n) \/ RenewLease(n) \/ ExpireLease(n)
                     \/ SuspectWorker(n) \/ Crash(n) \/ Restart(n)
  \/ \E n \in Node, t \in Task :
       \/ WakeUp(n, t) \/ LoseWake(n, t) \/ AcquirePermit(n, t)
       \/ ExecutionStep(n, t) \/ GiveUp(n, t) \/ Duplicate(n, t)
  \/ \E c \in ghosts : ApplyGhost(c)

ExecSpec == ExecInit /\ [][ExecNext]_vars

\* Scheduler passes, lease renewals, fallback polls, replies and timers all
\* recur; the permit semaphore is first come, first served.
Fairness ==
  /\ \A t \in Task : WF_vars(SchedulerStep(t))
  /\ \A n \in Node : /\ WF_vars(Drain(n))
                     /\ WF_vars(RenewLease(n))
                     /\ WF_vars(ExpireLease(n))
                     /\ WF_vars(Restart(n))
  /\ \A n \in Node, t \in Task : /\ SF_vars(AcquirePermit(n, t))
                                 /\ WF_vars(ExecutionStep(n, t))

FairExecSpec == ExecSpec /\ Fairness

-----------------------------------------------------------------------------
(* Properties                                                              *)

\* A slot in use has an epoch; past its claim it has an attempt number.
SlotOK(x) ==
  /\ x.pc # "idle" => x.epoch \in Epoch
  /\ x.pc \notin {"idle", "waiting", "claiming"} => x.attempts > 0

SlotsTypeOK ==
  /\ exec \in [Node -> [Task -> Slot]]
  /\ \A n \in Node, t \in Task : SlotOK(exec[n][t])

RestTypeOK ==
  /\ up \subseteq Node
  /\ renewed \in [Node -> 0..MaxEpoch]
  /\ fresh \subseteq Node
  /\ wakes \subseteq Node \X Task \X Epoch
  /\ ghosts \subseteq Command
  /\ \A c \in ghosts : c.op \in {"done", "fail"} => c.attempts > 0
  /\ minted \subseteq Task
  /\ effects \in [Task -> Nat]
  /\ faults \in 0..MaxFaults

\* Slots, wakes, leftover commands and leases are well typed: an execution
\* past its claim carries the attempt number the claim answered.
ExecTypeOK == SlotsTypeOK /\ RestTypeOK

\* The irreversible effect of a task happens at most once, whatever crashes,
\* is duplicated, is applied late or is requeued too early, and whichever
\* workers the task is handed to: the promise of the commit mark.
AtMostOnce == \A t \in Task : effects[t] <= 1

\* A task recorded as done had its irreversible effect: no ack of another
\* round, another worker or an aborted handler can close it.
DoneMeansPerformed ==
  \A t \in Irreversible : HasStatus(t, {"Done"}) => effects[t] = 1

\* Past its commit point: marked, or already vacuumed.
Past(t) == t \in minted /\ (Exists(t) => rec[t].committed)

\* Why AtMostOnce holds.  Each conjunct is disturbed by some step that only
\* the others keep harmless.
EffectsArePast == \A t \in Task : effects[t] > 0 => Past(t)

\* The execution about to perform the effect is the first, and while the
\* task runs it is the one the record names.
EffectIsOwned ==
  \A n \in Node, t \in Task : exec[n][t].pc = "effect" =>
    /\ effects[t] = 0
    /\ Past(t)
    /\ HasStatus(t, {"Running"}) => AckMatches(t, n, exec[n][t].epoch)

\* No two workers are about to perform the effect of one task.
EffectIsUnique ==
  \A n, m \in Node, t \in Task :
    exec[n][t].pc = "effect" /\ exec[m][t].pc = "effect" => n = m

\* An execution whose mark would still be accepted comes before any effect.
MarkableIsFirst ==
  \A n \in Node, t \in Task :
    /\ exec[n][t].pc \in {"running", "marking"}
    /\ AckMatches(t, n, exec[n][t].epoch)
    => effects[t] = 0

RecordsAreMinted == \A t \in Task : Exists(t) => t \in minted

EffectInv ==
  /\ EffectsArePast /\ EffectIsOwned /\ EffectIsUnique /\ MarkableIsFirst
  /\ RecordsAreMinted /\ AtMostOnce

\* Why DoneMeansPerformed holds: every claim of success about an irreversible
\* task, in a worker's slot, in a leftover copy or in the record, comes after
\* its effect.
SuccessIsEarned ==
  \A t \in Irreversible :
    /\ \A n \in Node : exec[n][t].pc = "acking" /\ exec[n][t].ok => effects[t] > 0
    /\ \A c \in ghosts : c.task = t /\ c.op = "done" => effects[t] > 0
    /\ HasStatus(t, {"Done"}) => effects[t] > 0

\* A queued task is eventually done, failed or vacuumed: no crash, lost wake,
\* lost reply or dropped newer wake strands it in flight for ever.
EventuallySettled ==
  \A t \in Task :
    HasStatus(t, {"Queued"}) ~> (~Exists(t) \/ HasStatus(t, Terminal))

=============================================================================
