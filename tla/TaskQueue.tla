------------------------------ MODULE TaskQueue ------------------------------
(***************************************************************************)
(* The replicated task domain: the deterministic transitions that          *)
(* tasks/apply.rs runs for every committed task command.                   *)
(*                                                                         *)
(* One action per command.  An action is the ACCEPTED branch of the        *)
(* command; a rejected or deduplicated command writes no key, so it is a   *)
(* stuttering step.  The conditions that decide between the two are        *)
(* operators of their own (ClaimMatches, AckMatches, ...), because the     *)
(* proposer sees which branch was taken: TaskExecution uses them.          *)
(*                                                                         *)
(* The six key spaces of tasks/keys.rs are six variables.  All mutations   *)
(* of one command go into one write batch, so a command is one step.       *)
(* Payload, error text and result are opaque to every transition and are   *)
(* left out.  Timestamps are proposer supplied: any time may come with any *)
(* command.                                                                *)
(***************************************************************************)
EXTENDS Integers

CONSTANTS
  Task,        \* task ids
  Node,        \* worker node ids
  Epoch,       \* lease epochs (apply only compares them)
  IdemKey,     \* idempotency keys
  Time,        \* unix seconds a proposer may stamp
  AttemptCap,  \* u32::MAX: attempts saturate here
  NoRec, NoTask, NoNode, NoEpoch, NoKey, NoLease   \* absent values

Status   == {"Queued", "Assigned", "Running", "Done", "Failed"}
InFlight == {"Assigned", "Running"}
Terminal == {"Done", "Failed"}

TaskRecord ==
  [status       : Status,
   attempts     : 0..AttemptCap,
   run_at       : Time,
   idem_key     : IdemKey \cup {NoKey},
   node         : Node \cup {NoNode},
   epoch        : Epoch \cup {NoEpoch},
   committed    : BOOLEAN,
   updated_at   : Time,
   created_at   : Time,
   completed_at : Time \cup {0}]

WorkerLeaseRecord == [lease_epoch : Epoch, expires_at : Time]

ASSUME TaskQueueAssumption ==
  /\ Time \subseteq Nat \ {0}
  /\ AttemptCap \in Nat \ {0}
  /\ NoRec \notin TaskRecord
  /\ NoTask \notin Task
  /\ NoNode \notin Node
  /\ NoEpoch \notin Epoch
  /\ NoKey \notin IdemKey
  /\ NoLease \notin WorkerLeaseRecord

VARIABLES
  rec,       \* task:rec:{id}                          -> TaskRecord
  queued,    \* task:idx:queued:{run_at}:{id}
  assigned,  \* task:idx:assigned:{node}:{id}          -> lease epoch
  terminal,  \* task:idx:terminal:{completed_at}:{id}
  idem,      \* task:idem:{key}                        -> id
  leases     \* task:worker:{node}                     -> WorkerLeaseRecord

taskVars == <<rec, queued, assigned, terminal, idem, leases>>

-----------------------------------------------------------------------------
(* Reading the state                                                       *)

Exists(t) == rec[t] # NoRec

HasStatus(t, S) == Exists(t) /\ rec[t].status \in S

\* MUTANT: the attempt counter does not saturate.
saturating_inc_unbounded(a) == a + 1

saturating_inc(a) == IF a < AttemptCap THEN a + 1 ELSE AttemptCap

Later(a, b) == IF a < b THEN b ELSE a

\* apply_claim accepts only the assignment it was made for.
ClaimMatches(t, n, e) ==
  HasStatus(t, {"Assigned"}) /\ rec[t].node = n /\ rec[t].epoch = e

\* The fence of acks and of the commit mark.
AckMatches(t, n, e) ==
  HasStatus(t, {"Running"}) /\ rec[t].node = n /\ rec[t].epoch = e

\* MUTANT: only the id is looked up, not the key.
Deduplicated_byIdOnly(t, k) == Exists(t)

\* A key of the idempotency table that already names a task wins.
Deduplicated(t, k) == (k # NoKey /\ idem[k] # NoTask) \/ Exists(t)

\* MUTANT: a commit mark does not stop a retry.
Retries_committed(t, retryAt) == retryAt > 0

\* retryAt = 0 asks for permanent failure; a committed task gets it always.
Retries(t, retryAt) == retryAt > 0 /\ ~rec[t].committed

\* MUTANT: any dead letter may be replayed.
Replayable_committed(t) == HasStatus(t, {"Failed"})

\* Only a task that failed before its commit point may be replayed.
Replayable(t) == HasStatus(t, {"Failed"}) /\ ~rec[t].committed

\* MUTANT: the vacuum trusts the proposer's scan.
Vacuumable_unchecked(ids) == {t \in ids : Exists(t)}

\* Ids that are missing or not terminal are skipped: the proposer's scan may
\* be stale.
Vacuumable(ids) == {t \in ids : HasStatus(t, Terminal)}

-----------------------------------------------------------------------------
(* The commands                                                            *)

apply_enqueue(t, runAt, k, createdAt) ==
  /\ ~Deduplicated(t, k)
  /\ rec' = [rec EXCEPT ![t] =
       [status |-> "Queued", attempts |-> 0, run_at |-> runAt, idem_key |-> k,
        node |-> NoNode, epoch |-> NoEpoch, committed |-> FALSE,
        updated_at |-> runAt, created_at |-> createdAt, completed_at |-> 0]]
  /\ queued' = queued \cup {<<runAt, t>>}
  /\ idem' = [x \in IdemKey |-> IF x = k THEN t ELSE idem[x]]
  /\ UNCHANGED <<assigned, terminal, leases>>

apply_assign(t, n, e, now) ==
  /\ HasStatus(t, {"Queued"})
  /\ rec' = [rec EXCEPT ![t] = [@ EXCEPT !.status = "Assigned", !.node = n,
                                         !.epoch = e, !.updated_at = now]]
  /\ queued' = queued \ {<<rec[t].run_at, t>>}
  /\ assigned' = [assigned EXCEPT ![n][t] = e]
  /\ UNCHANGED <<terminal, idem, leases>>

apply_claim(t, n, e, now) ==
  /\ ClaimMatches(t, n, e)
  /\ rec' = [rec EXCEPT ![t] = [@ EXCEPT !.status = "Running",
       !.attempts = saturating_inc(rec[t].attempts), !.updated_at = now]]
  /\ UNCHANGED <<queued, assigned, terminal, idem, leases>>

\* Re-marking by the fenced owner is accepted and writes nothing.
apply_mark_committed(t, n, e, now) ==
  /\ AckMatches(t, n, e)
  /\ rec' = IF rec[t].committed THEN rec
            ELSE [rec EXCEPT ![t] = [@ EXCEPT !.committed = TRUE,
                                              !.updated_at = now]]
  /\ UNCHANGED <<queued, assigned, terminal, idem, leases>>

\* A Done record keeps its owner; only the assigned index forgets it.
apply_done(t, n, e, attempts, now) ==
  /\ AckMatches(t, n, e)
  /\ rec' = [rec EXCEPT ![t] =
       [@ EXCEPT !.status = "Done", !.attempts = attempts,
                 !.updated_at = now, !.completed_at = now]]
  /\ assigned' = [assigned EXCEPT ![n][t] = NoEpoch]
  /\ terminal' = terminal \cup {<<now, t>>}
  /\ UNCHANGED <<queued, idem, leases>>

apply_fail(t, n, e, attempts, retryAt, now) ==
  LET retry    == Retries(t, retryAt)
      released == [rec[t] EXCEPT !.attempts = attempts, !.node = NoNode,
                                 !.epoch = NoEpoch, !.updated_at = now]
  IN
  /\ AckMatches(t, n, e)
  /\ rec' = [rec EXCEPT ![t] =
       IF retry
       THEN [released EXCEPT !.status = "Queued", !.run_at = retryAt]
       ELSE [released EXCEPT !.status = "Failed", !.completed_at = now]]
  /\ assigned' = [assigned EXCEPT ![n][t] = NoEpoch]
  /\ queued'   = IF retry THEN queued \cup {<<retryAt, t>>} ELSE queued
  /\ terminal' = IF retry THEN terminal ELSE terminal \cup {<<now, t>>}
  /\ UNCHANGED <<idem, leases>>

\* Not fenced: whatever worker holds the task loses it.  A committed task is
\* failed terminally instead, stamped with times already in the record.
apply_requeue(t) ==
  LET stamp    == Later(rec[t].updated_at, rec[t].created_at)
      released == [rec[t] EXCEPT !.node = NoNode, !.epoch = NoEpoch]
  IN
  /\ HasStatus(t, InFlight)
  /\ rec' = [rec EXCEPT ![t] =
       IF rec[t].committed
       THEN [released EXCEPT !.status = "Failed", !.completed_at = stamp]
       ELSE [released EXCEPT !.status = "Queued"]]
  /\ assigned' = IF rec[t].node = NoNode THEN assigned
                 ELSE [assigned EXCEPT ![rec[t].node][t] = NoEpoch]
  /\ queued'   = IF rec[t].committed THEN queued
                 ELSE queued \cup {<<rec[t].run_at, t>>}
  /\ terminal' = IF rec[t].committed THEN terminal \cup {<<stamp, t>>}
                 ELSE terminal
  /\ UNCHANGED <<idem, leases>>

\* Operator driven dead-letter replay.
apply_replay(t, now) ==
  /\ Replayable(t)
  /\ rec' = [rec EXCEPT ![t] =
       [@ EXCEPT !.status = "Queued", !.attempts = 0, !.run_at = now,
                 !.updated_at = now, !.completed_at = 0]]
  /\ terminal' = terminal \ {<<rec[t].completed_at, t>>}
  /\ queued' = queued \cup {<<now, t>>}
  /\ UNCHANGED <<assigned, idem, leases>>

apply_vacuum(ids) ==
  LET gone == Vacuumable(ids) IN
  /\ gone # {}
  /\ rec' = [t \in Task |-> IF t \in gone THEN NoRec ELSE rec[t]]
  /\ terminal' = terminal \ {<<rec[t].completed_at, t>> : t \in gone}
  /\ idem' = [k \in IdemKey |->
       IF \E t \in gone : rec[t].idem_key = k THEN NoTask ELSE idem[k]]
  /\ UNCHANGED <<queued, assigned, leases>>

\* Unconditional overwrite: an old renewal applied late moves a lease back.
apply_worker_lease(n, e, expiresAt) ==
  /\ leases' = [leases EXCEPT ![n] =
                  [lease_epoch |-> e, expires_at |-> expiresAt]]
  /\ UNCHANGED <<rec, queued, assigned, terminal, idem>>

-----------------------------------------------------------------------------
Init ==
  /\ rec      = [t \in Task |-> NoRec]
  /\ queued   = {}
  /\ assigned = [n \in Node |-> [t \in Task |-> NoEpoch]]
  /\ terminal = {}
  /\ idem     = [k \in IdemKey |-> NoTask]
  /\ leases   = [n \in Node |-> NoLease]

\* Claims answer with the incremented counter, so an ack carries 1 or more.
apply_task_command ==
  \/ \E t \in Task, runAt, createdAt \in Time, k \in IdemKey \cup {NoKey} :
        apply_enqueue(t, runAt, k, createdAt)
  \/ \E t \in Task, n \in Node, e \in Epoch, now \in Time :
        \/ apply_assign(t, n, e, now)
        \/ apply_claim(t, n, e, now)
        \/ apply_mark_committed(t, n, e, now)
        \/ \E a \in 1..AttemptCap :
              \/ apply_done(t, n, e, a, now)
              \/ \E retryAt \in Time \cup {0} :
                    apply_fail(t, n, e, a, retryAt, now)
  \/ \E t \in Task : apply_requeue(t)
  \/ \E t \in Task, now \in Time : apply_replay(t, now)
  \/ \E ids \in SUBSET Task : apply_vacuum(ids)
  \/ \E n \in Node, e \in Epoch, x \in Time : apply_worker_lease(n, e, x)

Spec == Init /\ [][apply_task_command]_taskVars

-----------------------------------------------------------------------------
(* Properties                                                              *)

\* The records, the index keys and the leases have the shapes records.rs and
\* keys.rs give them; in particular attempts never wraps.
TypeOK ==
  /\ rec \in [Task -> TaskRecord \cup {NoRec}]
  /\ queued \subseteq Time \X Task
  /\ assigned \in [Node -> [Task -> Epoch \cup {NoEpoch}]]
  /\ terminal \subseteq Time \X Task
  /\ idem \in [IdemKey -> Task \cup {NoTask}]
  /\ leases \in [Node -> WorkerLeaseRecord \cup {NoLease}]

\* The queued index is exactly the queued records, each under the run_at its
\* record carries: the scheduler finds every queued task and nothing else.
QueuedIndexExact ==
  \A x \in Time, t \in Task :
    <<x, t>> \in queued <=> HasStatus(t, {"Queued"}) /\ rec[t].run_at = x

\* The terminal index is exactly the done and failed records, each under the
\* completed_at its record carries, so the vacuum scan misses none.
TerminalIndexExact ==
  \A x \in Time, t \in Task :
    <<x, t>> \in terminal <=> HasStatus(t, Terminal) /\ rec[t].completed_at = x

\* The assigned index holds a task under a node with an epoch if and only if
\* the record is in flight on that node with that epoch: what list_assigned
\* tells a worker to claim, and what the scheduler scans for lost work.
AssignedIndexExact ==
  \A n \in Node, t \in Task, e \in Epoch :
    assigned[n][t] = e <=>
      HasStatus(t, InFlight) /\ rec[t].node = n /\ rec[t].epoch = e

\* An in-flight record always names an owner; a queued or failed one never.
OwnerShape ==
  \A t \in Task : Exists(t) =>
    /\ rec[t].status \in InFlight =>
         rec[t].node # NoNode /\ rec[t].epoch # NoEpoch
    /\ rec[t].status \in {"Queued", "Failed"} =>
         rec[t].node = NoNode /\ rec[t].epoch = NoEpoch

\* The three secondary indexes never drift from the records, although every
\* command edits them by hand, through whichever path a task travels.
IndexesExact == QueuedIndexExact /\ TerminalIndexExact /\ AssignedIndexExact

\* The idempotency table and the records name each other: a key leads to the
\* live task that was enqueued with it, and no two live tasks share a key.
\* Were an entry to outlive its record, the key could never be used again;
\* were a record to outlive its entry, the key would admit a second task.
IdemExact ==
  \A k \in IdemKey, t \in Task :
    idem[k] = t <=> (Exists(t) /\ rec[t].idem_key = k)

\* A task past its commit point is running or terminal, never waiting to be
\* handed to another worker.
CommittedNeverWaits ==
  \A t \in Task : Exists(t) /\ rec[t].committed =>
    rec[t].status \in {"Running", "Done", "Failed"}

\* What the inductive proof of the four properties above needs.
IndexInv ==
  TypeOK /\ OwnerShape /\ IndexesExact /\ IdemExact /\ CommittedNeverWaits

\* One step keeps the commit of t: the record stays committed, keeps its
\* owner while it runs, and leaves the table only when it is terminal.
CommitKept(t) ==
  Exists(t) /\ rec[t].committed =>
    \/ rec'[t] = NoRec /\ rec[t].status \in Terminal
    \/ /\ rec'[t] # NoRec
       /\ rec'[t].committed
       /\ rec'[t].status = "Running" =>
            /\ rec[t].status = "Running"
            /\ rec'[t].node = rec[t].node
            /\ rec'[t].epoch = rec[t].epoch

\* The commit mark is a point of no return: no command (a requeue, a replay,
\* a late ack, a second claim) reopens a task marked committed or hands its
\* execution to another assignment.
CommitIsFinal == [][\A t \in Task : CommitKept(t)]_taskVars

-----------------------------------------------------------------------------
(* Refinement: the abstract phase of a record                              *)

PhaseOf(r) ==
  CASE r = NoRec                                          -> "absent"
    [] r # NoRec /\ r.status = "Queued"                   -> "waiting"
    [] r # NoRec /\ r.status \in InFlight /\ ~r.committed -> "held"
    [] r # NoRec /\ r.status \in InFlight /\ r.committed  -> "sealed"
    [] r # NoRec /\ r.status = "Failed" /\ ~r.committed   -> "dead"
    [] OTHER                                              -> "closed"

phase == [t \in Task |-> PhaseOf(rec[t])]

Lifecycle == INSTANCE TaskLifecycle

\* Every sequence of task commands implements the abstract life cycle.
LifecycleSpec == Lifecycle!Spec

=============================================================================
