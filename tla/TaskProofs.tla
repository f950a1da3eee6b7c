----------------------------- MODULE TaskProofs -----------------------------
(***************************************************************************)
(* Proofs about the replicated task domain and the workers that run its    *)
(* tasks, for every set of tasks, nodes, epochs, keys and times and every  *)
(* number of faults.                                                       *)
(*                                                                         *)
(* First TaskQueue.  IndexInv is inductive: each command rewrites one      *)
(* record (the vacuum several) and edits the indexes by hand; LocalStep    *)
(* reduces the preservation of IndexInv to what the command does at that   *)
(* one task.  Then TaskExecution, which EXTENDS it: it implements the task *)
(* domain, irreversible effects happen at most once, and a task that is    *)
(* done was performed.                                                     *)
(***************************************************************************)
EXTENDS TaskExecution, TLAPS

\* An existing record is a TaskRecord.
LEMMA ExistingRecord ==
  ASSUME TypeOK, NEW t \in Task, Exists(t) PROVE rec[t] \in TaskRecord
  BY DEF TypeOK, Exists

\* The stamp apply_requeue computes is a time of the record.
LEMMA LaterIsTime ==
  ASSUME NEW a \in Time, NEW b \in Time PROVE Later(a, b) \in Time
  BY DEF Later

\* Every single-record command replaces the record of one task.
Rewrites(t, r) ==
  /\ r \in TaskRecord
  /\ rec' = [rec EXCEPT ![t] = r]

\* The indexes after the step file t where r says, and move no other task.
FiledAs(t, r) ==
  /\ \A x \in Time, u \in Task :
       <<x, u>> \in queued' <=>
         IF u = t THEN r.status = "Queued" /\ r.run_at = x
                  ELSE <<x, u>> \in queued
  /\ \A x \in Time, u \in Task :
       <<x, u>> \in terminal' <=>
         IF u = t THEN r.status \in Terminal /\ r.completed_at = x
                  ELSE <<x, u>> \in terminal
  /\ \A n \in Node, u \in Task, e \in Epoch :
       assigned'[n][u] = e <=>
         IF u = t THEN r.status \in InFlight /\ r.node = n /\ r.epoch = e
                  ELSE assigned[n][u] = e

\* What OwnerShape and CommittedNeverWaits say of one record.
WellFormed(r) ==
  /\ r.status \in InFlight => r.node # NoNode /\ r.epoch # NoEpoch
  /\ r.status \in {"Queued", "Failed"} => r.node = NoNode /\ r.epoch = NoEpoch
  /\ r.committed => r.status \in {"Running", "Done", "Failed"}

IndexTypes ==
  /\ queued \subseteq Time \X Task
  /\ assigned \in [Node -> [Task -> Epoch \cup {NoEpoch}]]
  /\ terminal \subseteq Time \X Task
  /\ idem \in [IdemKey -> Task \cup {NoTask}]
  /\ leases \in [Node -> WorkerLeaseRecord \cup {NoLease}]

\* A command that rewrites one existing record, files it in the indexes as
\* the new record says and leaves its key alone preserves IndexInv.
LEMMA LocalStep ==
  ASSUME IndexInv, NEW t \in Task, NEW r, Exists(t),
         Rewrites(t, r), FiledAs(t, r), WellFormed(r), IndexTypes',
         r.idem_key = rec[t].idem_key, idem' = idem
  PROVE  IndexInv'
  <1>1. /\ TypeOK /\ r # NoRec /\ rec[t] # NoRec
        /\ rec'[t] = r /\ \A u \in Task \ {t} : rec'[u] = rec[u]
    BY TaskQueueAssumption DEF IndexInv, TypeOK, Rewrites, Exists
  <1>2. TypeOK'
    BY DEF IndexInv, TypeOK, Rewrites, IndexTypes
  <1>3. OwnerShape'
    BY <1>1 DEF IndexInv, OwnerShape, WellFormed, Exists
  <1>4. QueuedIndexExact'
    <2> SUFFICES ASSUME NEW x \in Time, NEW u \in Task
                 PROVE  <<x, u>> \in queued' <=>
                          (HasStatus(u, {"Queued"}) /\ rec[u].run_at = x)'
      BY DEF QueuedIndexExact
    <2>1. CASE u = t
      BY <1>1, <2>1 DEF FiledAs, HasStatus, Exists
    <2>2. CASE u # t
      BY <1>1, <2>2 DEF FiledAs, HasStatus, Exists, IndexInv, IndexesExact,
                        QueuedIndexExact
    <2> QED
      BY <2>1, <2>2
  <1>5. TerminalIndexExact'
    <2> SUFFICES ASSUME NEW x \in Time, NEW u \in Task
                 PROVE  <<x, u>> \in terminal' <=>
                          (HasStatus(u, Terminal) /\ rec[u].completed_at = x)'
      BY DEF TerminalIndexExact
    <2>1. CASE u = t
      BY <1>1, <2>1 DEF FiledAs, HasStatus, Exists
    <2>2. CASE u # t
      BY <1>1, <2>2 DEF FiledAs, HasStatus, Exists, IndexInv, IndexesExact,
                        TerminalIndexExact
    <2> QED
      BY <2>1, <2>2
  <1>6. AssignedIndexExact'
    BY <1>1 DEF IndexInv, IndexesExact, AssignedIndexExact, FiledAs, HasStatus,
                Exists
  <1>7. IdemExact'
    BY <1>1 DEF IndexInv, IdemExact, Exists
  <1>8. CommittedNeverWaits'
    BY <1>1 DEF IndexInv, CommittedNeverWaits, WellFormed, Exists
  <1> QED
    BY <1>2, <1>3, <1>4, <1>5, <1>6, <1>7, <1>8 DEF IndexInv, IndexesExact

\* What IndexInv says about the place of one existing task in the indexes.
LEMMA Filed ==
  ASSUME IndexInv, NEW t \in Task, Exists(t)
  PROVE  /\ TypeOK /\ IndexTypes /\ rec[t] \in TaskRecord
         /\ WellFormed(rec[t])
         /\ \A x \in Time : <<x, t>> \in queued <=>
              rec[t].status = "Queued" /\ rec[t].run_at = x
         /\ \A x \in Time : <<x, t>> \in terminal <=>
              rec[t].status \in Terminal /\ rec[t].completed_at = x
         /\ \A n \in Node, e \in Epoch : assigned[n][t] = e <=>
              rec[t].status \in InFlight /\ rec[t].node = n /\ rec[t].epoch = e
  <1>1. TypeOK /\ IndexTypes /\ rec[t] \in TaskRecord
    BY ExistingRecord DEF IndexInv, TypeOK, IndexTypes
  <1>2. WellFormed(rec[t])
    BY DEF IndexInv, OwnerShape, CommittedNeverWaits, WellFormed
  <1> QED
    BY <1>1, <1>2 DEF IndexInv, IndexesExact, QueuedIndexExact,
       TerminalIndexExact, AssignedIndexExact, HasStatus, Exists

-----------------------------------------------------------------------------
(* One lemma per command                                                   *)

\* apply_assign keeps IndexInv.
LEMMA AssignStep ==
  ASSUME IndexInv, NEW t \in Task, NEW n \in Node, NEW e \in Epoch,
         NEW now \in Time, apply_assign(t, n, e, now)
  PROVE  IndexInv'
  <1> DEFINE r == [rec[t] EXCEPT !.status = "Assigned", !.node = n,
                                 !.epoch = e, !.updated_at = now]
  <1>1. Exists(t) /\ rec[t] \in TaskRecord /\ rec[t].status = "Queued"
    BY Filed DEF apply_assign, HasStatus
  <1>2. /\ r \in TaskRecord
        /\ r.status = "Assigned" /\ r.node = n /\ r.epoch = e
        /\ r.committed = rec[t].committed /\ r.idem_key = rec[t].idem_key
    BY <1>1 DEF TaskRecord, Status
  <1>3. Rewrites(t, r)
    BY <1>2 DEF apply_assign, Rewrites
  <1> HIDE DEF r
  <1>4. WellFormed(r)
    BY <1>1, <1>2, Filed, TaskQueueAssumption DEF WellFormed, InFlight
  <1>5. FiledAs(t, r) /\ IndexTypes'
    BY <1>1, <1>2, Filed, TaskQueueAssumption
    DEF FiledAs, IndexTypes, InFlight, Terminal, apply_assign, WellFormed
  <1> QED
    BY <1>1, <1>2, <1>3, <1>4, <1>5, LocalStep DEF apply_assign

\* apply_claim keeps IndexInv.
LEMMA ClaimStep ==
  ASSUME IndexInv, NEW t \in Task, NEW n \in Node, NEW e \in Epoch,
         NEW now \in Time, apply_claim(t, n, e, now)
  PROVE  IndexInv'
  <1> DEFINE a == saturating_inc(rec[t].attempts)
             r == [rec[t] EXCEPT !.status = "Running", !.attempts = a,
                                 !.updated_at = now]
  <1>1. Exists(t) /\ rec[t] \in TaskRecord /\ rec[t].status = "Assigned"
    BY Filed DEF apply_claim, ClaimMatches, HasStatus
  <1>2. a \in 0..AttemptCap
    BY <1>1, TaskQueueAssumption DEF TaskRecord, saturating_inc
  <1> HIDE DEF a
  <1>3. /\ r \in TaskRecord /\ r.status = "Running"
        /\ r.node = rec[t].node /\ r.epoch = rec[t].epoch
        /\ r.idem_key = rec[t].idem_key
    BY <1>1, <1>2 DEF TaskRecord, Status
  <1>4. Rewrites(t, r)
    BY <1>3 DEF apply_claim, Rewrites, a
  <1> HIDE DEF r
  <1>5. WellFormed(r)
    BY <1>1, <1>3, Filed DEF WellFormed, InFlight
  <1>6. FiledAs(t, r) /\ IndexTypes'
    BY <1>1, <1>3, Filed
    DEF FiledAs, IndexTypes, InFlight, Terminal, apply_claim
  <1> QED
    BY <1>1, <1>3, <1>4, <1>5, <1>6, LocalStep DEF apply_claim

\* apply_mark_committed keeps IndexInv.
LEMMA MarkStep ==
  ASSUME IndexInv, NEW t \in Task, NEW n \in Node, NEW e \in Epoch,
         NEW now \in Time, apply_mark_committed(t, n, e, now)
  PROVE  IndexInv'
  <1> DEFINE r == IF rec[t].committed THEN rec[t]
                  ELSE [rec[t] EXCEPT !.committed = TRUE, !.updated_at = now]
  <1>1. Exists(t) /\ rec[t] \in TaskRecord /\ rec[t].status = "Running"
    BY Filed DEF apply_mark_committed, AckMatches, HasStatus
  <1>2. /\ r \in TaskRecord /\ r.status = "Running"
        /\ r.node = rec[t].node /\ r.epoch = rec[t].epoch
        /\ r.idem_key = rec[t].idem_key
    BY <1>1 DEF TaskRecord, Status
  <1>3. rec' = [rec EXCEPT ![t] = r]
    <2>1. CASE rec[t].committed
      BY <2>1, Filed, <1>1 DEF apply_mark_committed, TypeOK
    <2>2. CASE ~rec[t].committed
      BY <2>2 DEF apply_mark_committed
    <2> QED
      BY <2>1, <2>2
  <1> HIDE DEF r
  <1>4. Rewrites(t, r)
    BY <1>2, <1>3 DEF Rewrites
  <1>5. WellFormed(r)
    BY <1>1, <1>2, Filed DEF WellFormed, InFlight
  <1>6. FiledAs(t, r) /\ IndexTypes'
    BY <1>1, <1>2, Filed
    DEF FiledAs, IndexTypes, InFlight, Terminal, apply_mark_committed
  <1> QED
    BY <1>1, <1>2, <1>4, <1>5, <1>6, LocalStep DEF apply_mark_committed

\* apply_done keeps IndexInv.
LEMMA DoneStep ==
  ASSUME IndexInv, NEW t \in Task, NEW n \in Node, NEW e \in Epoch,
         NEW a \in 0..AttemptCap, NEW now \in Time,
         apply_done(t, n, e, a, now)
  PROVE  IndexInv'
  <1> DEFINE r == [rec[t] EXCEPT !.status = "Done", !.attempts = a,
                                 !.updated_at = now, !.completed_at = now]
  <1>1. /\ Exists(t) /\ rec[t] \in TaskRecord /\ rec[t].status = "Running"
        /\ rec[t].node = n /\ rec[t].epoch = e
    BY Filed DEF apply_done, AckMatches, HasStatus
  <1>2. /\ r \in TaskRecord /\ r.status = "Done" /\ r.completed_at = now
        /\ r.idem_key = rec[t].idem_key
    BY <1>1 DEF TaskRecord, Status
  <1>3. Rewrites(t, r)
    BY <1>2 DEF apply_done, Rewrites
  <1> HIDE DEF r
  <1>4. WellFormed(r)
    BY <1>2 DEF WellFormed, InFlight
  <1>5. FiledAs(t, r) /\ IndexTypes'
    BY <1>1, <1>2, Filed, TaskQueueAssumption
    DEF FiledAs, IndexTypes, InFlight, Terminal, apply_done
  <1> QED
    BY <1>1, <1>2, <1>3, <1>4, <1>5, LocalStep DEF apply_done

\* apply_fail, retrying or not, keeps IndexInv.
LEMMA FailStep ==
  ASSUME IndexInv, NEW t \in Task, NEW n \in Node, NEW e \in Epoch,
         NEW a \in 0..AttemptCap, NEW retryAt \in Time \cup {0},
         NEW now \in Time, apply_fail(t, n, e, a, retryAt, now)
  PROVE  IndexInv'
  <1> DEFINE retry == Retries(t, retryAt)
             q == [rec[t] EXCEPT !.attempts = a, !.node = NoNode,
                                 !.epoch = NoEpoch, !.updated_at = now]
             r == IF retry
                  THEN [q EXCEPT !.status = "Queued", !.run_at = retryAt]
                  ELSE [q EXCEPT !.status = "Failed", !.completed_at = now]
  <1>1. /\ Exists(t) /\ rec[t] \in TaskRecord /\ rec[t].status = "Running"
        /\ rec[t].node = n /\ rec[t].epoch = e
    BY Filed DEF apply_fail, AckMatches, HasStatus
  <1>2. /\ q \in TaskRecord /\ q.node = NoNode /\ q.epoch = NoEpoch
        /\ q.committed = rec[t].committed /\ q.idem_key = rec[t].idem_key
    BY <1>1 DEF TaskRecord, Status
  <1>3. rec' = [rec EXCEPT ![t] = r]
    BY DEF apply_fail
  <1>3a. /\ retry => retryAt \in Time /\ ~rec[t].committed
         /\ retryAt > 0 /\ ~rec[t].committed => retry
    BY TaskQueueAssumption DEF Retries
  <1> HIDE DEF q
  <1>4. /\ r \in TaskRecord /\ r.node = NoNode /\ r.epoch = NoEpoch
        /\ r.committed = rec[t].committed /\ r.idem_key = rec[t].idem_key
        /\ retry => r.status = "Queued" /\ r.run_at = retryAt
        /\ ~retry => r.status = "Failed" /\ r.completed_at = now
    BY <1>2, <1>3a DEF TaskRecord, Status
  <1> HIDE DEF r
  <1>5. Rewrites(t, r)
    BY <1>3, <1>4 DEF Rewrites
  <1>6. WellFormed(r)
    BY <1>3a, <1>4, TaskQueueAssumption DEF WellFormed, InFlight
  <1>7. CASE retry
    <2>1. FiledAs(t, r) /\ IndexTypes'
      BY <1>1, <1>3a, <1>4, <1>7, Filed, TaskQueueAssumption
      DEF FiledAs, IndexTypes, InFlight, Terminal, apply_fail
    <2> QED
      BY <1>1, <1>4, <1>5, <1>6, <2>1, LocalStep DEF apply_fail
  <1>8. CASE ~retry
    <2>1. FiledAs(t, r) /\ IndexTypes'
      BY <1>1, <1>4, <1>8, Filed, TaskQueueAssumption
      DEF FiledAs, IndexTypes, InFlight, Terminal, apply_fail
    <2> QED
      BY <1>1, <1>4, <1>5, <1>6, <2>1, LocalStep DEF apply_fail
  <1> QED
    BY <1>7, <1>8

\* apply_requeue, requeueing or closing, keeps IndexInv.
LEMMA RequeueStep ==
  ASSUME IndexInv, NEW t \in Task, apply_requeue(t)
  PROVE  IndexInv'
  <1> DEFINE c == rec[t].committed
             stamp == Later(rec[t].updated_at, rec[t].created_at)
             q == [rec[t] EXCEPT !.node = NoNode, !.epoch = NoEpoch]
             r == IF c THEN [q EXCEPT !.status = "Failed",
                                      !.completed_at = stamp]
                       ELSE [q EXCEPT !.status = "Queued"]
  <1>1. /\ Exists(t) /\ rec[t] \in TaskRecord /\ rec[t].status \in InFlight
        /\ rec[t].node \in Node /\ rec[t].epoch \in Epoch
        /\ rec[t].run_at \in Time
    <2>1. Exists(t) /\ rec[t].status \in InFlight
      BY DEF apply_requeue, HasStatus
    <2>2. rec[t] \in TaskRecord /\ WellFormed(rec[t])
      BY <2>1, Filed
    <2> QED
      BY <2>1, <2>2 DEF TaskRecord, WellFormed
  <1>2. stamp \in Time
    BY <1>1, LaterIsTime DEF TaskRecord
  <1>3. /\ q \in TaskRecord /\ q.node = NoNode /\ q.epoch = NoEpoch
        /\ q.committed = c /\ q.idem_key = rec[t].idem_key
        /\ q.run_at = rec[t].run_at
    BY <1>1 DEF TaskRecord, Status
  <1>4. rec' = [rec EXCEPT ![t] = r]
    BY DEF apply_requeue
  <1>5. /\ assigned' = [assigned EXCEPT ![rec[t].node][t] = NoEpoch]
        /\ c => queued' = queued /\ terminal' = terminal \cup {<<stamp, t>>}
        /\ ~c => /\ queued' = queued \cup {<<rec[t].run_at, t>>}
                 /\ terminal' = terminal
        /\ idem' = idem /\ leases' = leases
    BY <1>1, TaskQueueAssumption DEF apply_requeue
  <1> HIDE DEF q, stamp
  <1>6. /\ r \in TaskRecord /\ r.node = NoNode /\ r.epoch = NoEpoch
        /\ r.committed = c /\ r.idem_key = rec[t].idem_key
        /\ c => r.status = "Failed" /\ r.completed_at = stamp
        /\ ~c => r.status = "Queued" /\ r.run_at = rec[t].run_at
    BY <1>2, <1>3 DEF TaskRecord, Status
  <1> HIDE DEF r
  <1>7. Rewrites(t, r)
    BY <1>4, <1>6 DEF Rewrites
  <1>8. WellFormed(r)
    BY <1>6 DEF WellFormed, InFlight
  <1>9. CASE c
    <2>1. FiledAs(t, r) /\ IndexTypes'
      BY <1>1, <1>2, <1>5, <1>6, <1>9, Filed, TaskQueueAssumption
      DEF FiledAs, IndexTypes, InFlight, Terminal
    <2> QED
      BY <1>1, <1>5, <1>6, <1>7, <1>8, <2>1, LocalStep
  <1>10. CASE ~c
    <2>1. FiledAs(t, r) /\ IndexTypes'
      BY <1>1, <1>5, <1>6, <1>10, Filed, TaskQueueAssumption
      DEF FiledAs, IndexTypes, InFlight, Terminal
    <2> QED
      BY <1>1, <1>5, <1>6, <1>7, <1>8, <2>1, LocalStep
  <1> QED
    BY <1>9, <1>10

\* apply_replay keeps IndexInv.
LEMMA ReplayStep ==
  ASSUME IndexInv, NEW t \in Task, NEW now \in Time, apply_replay(t, now)
  PROVE  IndexInv'
  <1> DEFINE r == [rec[t] EXCEPT !.status = "Queued", !.attempts = 0,
                                 !.run_at = now, !.updated_at = now,
                                 !.completed_at = 0]
  <1>1. /\ Exists(t) /\ rec[t] \in TaskRecord /\ rec[t].status = "Failed"
        /\ ~rec[t].committed
    BY Filed DEF apply_replay, Replayable, HasStatus
  <1>2. /\ r \in TaskRecord /\ r.status = "Queued" /\ r.run_at = now
        /\ r.node = rec[t].node /\ r.epoch = rec[t].epoch
        /\ r.committed = rec[t].committed /\ r.idem_key = rec[t].idem_key
    <2>1. 0 \in 0..AttemptCap
      BY TaskQueueAssumption
    <2> QED
      BY <1>1, <2>1 DEF TaskRecord, Status
  <1>3. Rewrites(t, r)
    BY <1>2 DEF apply_replay, Rewrites
  <1> HIDE DEF r
  <1>4. WellFormed(r)
    BY <1>1, <1>2, Filed DEF WellFormed, InFlight
  <1>5. FiledAs(t, r) /\ IndexTypes'
    BY <1>1, <1>2, Filed
    DEF FiledAs, IndexTypes, InFlight, Terminal, apply_replay
  <1> QED
    BY <1>1, <1>2, <1>3, <1>4, <1>5, LocalStep DEF apply_replay

\* Enqueue creates the record and the table entry of its key together.
LEMMA EnqueueStep ==
  ASSUME IndexInv, NEW t \in Task, NEW runAt \in Time, NEW createdAt \in Time,
         NEW k \in IdemKey \cup {NoKey}, apply_enqueue(t, runAt, k, createdAt)
  PROVE  IndexInv'
  <1> DEFINE r == [status |-> "Queued", attempts |-> 0, run_at |-> runAt,
                   idem_key |-> k, node |-> NoNode, epoch |-> NoEpoch,
                   committed |-> FALSE, updated_at |-> runAt,
                   created_at |-> createdAt, completed_at |-> 0]
  <1>1. /\ r \in TaskRecord /\ r.status = "Queued" /\ r.run_at = runAt
        /\ r.idem_key = k /\ r.node = NoNode /\ r.epoch = NoEpoch
        /\ r.committed = FALSE
    BY TaskQueueAssumption DEF TaskRecord, Status
  <1>2. rec' = [rec EXCEPT ![t] = r]
    BY DEF apply_enqueue
  <1> HIDE DEF r
  <1>3. /\ TypeOK /\ r # NoRec /\ rec[t] = NoRec /\ rec'[t] = r
        /\ \A u \in Task \ {t} : rec'[u] = rec[u]
        /\ k \in IdemKey => idem[k] = NoTask
    BY <1>1, <1>2, TaskQueueAssumption
    DEF IndexInv, TypeOK, apply_enqueue, Deduplicated, Exists
  <1>4. /\ queued' = queued \cup {<<runAt, t>>}
        /\ idem' = [x \in IdemKey |-> IF x = k THEN t ELSE idem[x]]
        /\ assigned' = assigned /\ terminal' = terminal /\ leases' = leases
    BY DEF apply_enqueue
  <1>5. TypeOK'
    BY <1>1, <1>2, <1>4 DEF IndexInv, TypeOK
  <1>6. OwnerShape' /\ CommittedNeverWaits'
    BY <1>1, <1>3
    DEF IndexInv, OwnerShape, CommittedNeverWaits, Exists, InFlight
  <1>7. QueuedIndexExact'
    <2> SUFFICES ASSUME NEW x \in Time, NEW u \in Task
                 PROVE  <<x, u>> \in queued' <=>
                          (HasStatus(u, {"Queued"}) /\ rec[u].run_at = x)'
      BY DEF QueuedIndexExact
    <2>1. <<x, u>> \in queued <=>
            HasStatus(u, {"Queued"}) /\ rec[u].run_at = x
      BY DEF IndexInv, IndexesExact, QueuedIndexExact
    <2>2. CASE u = t
      BY <1>1, <1>3, <1>4, <2>1, <2>2 DEF HasStatus, Exists
    <2>3. CASE u # t
      BY <1>3, <1>4, <2>1, <2>3 DEF HasStatus, Exists
    <2> QED
      BY <2>2, <2>3
  <1>8. TerminalIndexExact'
    <2> SUFFICES ASSUME NEW x \in Time, NEW u \in Task
                 PROVE  <<x, u>> \in terminal' <=>
                          (HasStatus(u, Terminal) /\ rec[u].completed_at = x)'
      BY DEF TerminalIndexExact
    <2>1. <<x, u>> \in terminal <=>
            HasStatus(u, Terminal) /\ rec[u].completed_at = x
      BY DEF IndexInv, IndexesExact, TerminalIndexExact
    <2>2. CASE u = t
      BY <1>1, <1>3, <1>4, <2>1, <2>2 DEF HasStatus, Exists, Terminal
    <2>3. CASE u # t
      BY <1>3, <1>4, <2>1, <2>3 DEF HasStatus, Exists
    <2> QED
      BY <2>2, <2>3
  <1>9. AssignedIndexExact'
    BY <1>1, <1>3, <1>4 DEF IndexInv, IndexesExact, AssignedIndexExact,
       HasStatus, Exists, InFlight
  <1>10. IdemExact'
    <2> SUFFICES ASSUME NEW x \in IdemKey, NEW u \in Task
                 PROVE  idem'[x] = u <=> (rec'[u] # NoRec /\ rec'[u].idem_key = x)
      BY DEF IdemExact, Exists
    <2>1. idem[x] = u <=> (rec[u] # NoRec /\ rec[u].idem_key = x)
      BY DEF IndexInv, IdemExact, Exists
    <2>2. idem'[x] = IF x = k THEN t ELSE idem[x]
      BY <1>4
    <2>3. CASE u = t
      BY <1>1, <1>3, <2>1, <2>2, <2>3
    <2>4. CASE u # t
      BY <1>3, <2>1, <2>2, <2>4, TaskQueueAssumption
    <2> QED
      BY <2>3, <2>4
  <1> QED
    BY <1>5, <1>6, <1>7, <1>8, <1>9, <1>10 DEF IndexInv, IndexesExact

\* The vacuum forgets several terminal tasks with their keys and entries.
LEMMA VacuumStep ==
  ASSUME IndexInv, NEW ids \in SUBSET Task, apply_vacuum(ids)
  PROVE  IndexInv'
  <1> DEFINE gone == Vacuumable(ids)
  <1>1. /\ TypeOK /\ gone \subseteq Task
        /\ \A u \in gone : rec[u] # NoRec /\ rec[u].status \in Terminal
    BY DEF Vacuumable, HasStatus, Exists, IndexInv
  <1>2. /\ \A u \in gone : rec'[u] = NoRec
        /\ \A u \in Task \ gone : rec'[u] = rec[u]
        /\ queued' = queued /\ assigned' = assigned /\ leases' = leases
        /\ rec' \in [Task -> TaskRecord \cup {NoRec}]
    BY <1>1 DEF apply_vacuum, TypeOK
  <1>3. terminal' = terminal \ {<<rec[u].completed_at, u>> : u \in gone}
    BY DEF apply_vacuum
  <1>4. \A k \in IdemKey : idem'[k] = IF \E u \in gone : rec[u].idem_key = k
                                      THEN NoTask ELSE idem[k]
    BY DEF apply_vacuum
  <1>5. idem' \in [IdemKey -> Task \cup {NoTask}]
    BY <1>1 DEF apply_vacuum, TypeOK
  <1> HIDE DEF gone
  <1>6. TypeOK'
    BY <1>1, <1>2, <1>3, <1>5 DEF TypeOK
  <1>7. OwnerShape' /\ CommittedNeverWaits'
    BY <1>2 DEF IndexInv, OwnerShape, CommittedNeverWaits, Exists
  <1>8. QueuedIndexExact'
    BY <1>1, <1>2 DEF IndexInv, IndexesExact, QueuedIndexExact, HasStatus,
                      Exists, Terminal
  <1>9. TerminalIndexExact'
    <2> SUFFICES ASSUME NEW x \in Time, NEW u \in Task
                 PROVE  <<x, u>> \in terminal' <=>
                          (HasStatus(u, Terminal) /\ rec[u].completed_at = x)'
      BY DEF TerminalIndexExact
    <2>1. <<x, u>> \in terminal <=>
            HasStatus(u, Terminal) /\ rec[u].completed_at = x
      BY DEF IndexInv, IndexesExact, TerminalIndexExact
    <2>2. CASE u \in gone
      BY <1>2, <1>3, <2>1, <2>2 DEF HasStatus, Exists
    <2>3. CASE u \notin gone
      BY <1>2, <1>3, <2>1, <2>3 DEF HasStatus, Exists
    <2> QED
      BY <2>2, <2>3
  <1>10. AssignedIndexExact'
    BY <1>1, <1>2 DEF IndexInv, IndexesExact, AssignedIndexExact, HasStatus,
                      Exists, Terminal, InFlight
  <1>11. IdemExact'
    <2> SUFFICES ASSUME NEW x \in IdemKey, NEW u \in Task
                 PROVE  idem'[x] = u <=> (rec'[u] # NoRec /\ rec'[u].idem_key = x)
      BY DEF IdemExact, Exists
    <2>1. \A v \in Task : idem[x] = v <=> (rec[v] # NoRec /\ rec[v].idem_key = x)
      BY DEF IndexInv, IdemExact, Exists
    <2>2. CASE u \in gone
      BY <1>1, <1>2, <1>4, <2>1, <2>2, TaskQueueAssumption
    <2>3. CASE u \notin gone
      BY <1>1, <1>2, <1>4, <2>1, <2>3, TaskQueueAssumption
    <2> QED
      BY <2>2, <2>3
  <1> QED
    BY <1>6, <1>7, <1>8, <1>9, <1>10, <1>11 DEF IndexInv, IndexesExact

\* apply_worker_lease keeps IndexInv.
LEMMA LeaseStep ==
  ASSUME IndexInv, NEW n \in Node, NEW e \in Epoch, NEW x \in Time,
         apply_worker_lease(n, e, x)
  PROVE  IndexInv'
  <1>1. [lease_epoch |-> e, expires_at |-> x] \in WorkerLeaseRecord
    BY DEF WorkerLeaseRecord
  <1>2. TypeOK'
    BY <1>1 DEF IndexInv, TypeOK, apply_worker_lease
  <1> QED
    BY <1>2 DEF IndexInv, OwnerShape, IndexesExact, QueuedIndexExact,
       TerminalIndexExact, AssignedIndexExact, IdemExact, CommittedNeverWaits,
       HasStatus, Exists, apply_worker_lease

-----------------------------------------------------------------------------
(* The theorems                                                            *)

\* The empty task domain satisfies IndexInv.
LEMMA InitInv == Init => IndexInv
  BY TaskQueueAssumption
  DEF Init, IndexInv, TypeOK, OwnerShape, IndexesExact, QueuedIndexExact,
      TerminalIndexExact, AssignedIndexExact, IdemExact, CommittedNeverWaits,
      HasStatus, Exists

\* Every task command keeps IndexInv.
LEMMA StepInv ==
  ASSUME IndexInv, [apply_task_command]_taskVars PROVE IndexInv'
  <1>1. CASE UNCHANGED taskVars
    BY <1>1 DEF taskVars, IndexInv, TypeOK, OwnerShape, IndexesExact,
       QueuedIndexExact, TerminalIndexExact, AssignedIndexExact, IdemExact,
       CommittedNeverWaits, HasStatus, Exists
  <1>2. CASE \E t \in Task, runAt, createdAt \in Time,
                k \in IdemKey \cup {NoKey} : apply_enqueue(t, runAt, k, createdAt)
    BY <1>2, EnqueueStep
  <1>3. ASSUME NEW t \in Task, NEW n \in Node, NEW e \in Epoch, NEW now \in Time,
               \/ apply_assign(t, n, e, now)
               \/ apply_claim(t, n, e, now)
               \/ apply_mark_committed(t, n, e, now)
               \/ \E a \in 1..AttemptCap :
                    \/ apply_done(t, n, e, a, now)
                    \/ \E retryAt \in Time \cup {0} :
                          apply_fail(t, n, e, a, retryAt, now)
        PROVE  IndexInv'
    <2>1. \A a \in 1..AttemptCap : a \in 0..AttemptCap
      OBVIOUS
    <2> QED
      BY <1>3, <2>1, AssignStep, ClaimStep, MarkStep, DoneStep, FailStep
  <1>4. CASE \E t \in Task : apply_requeue(t)
    BY <1>4, RequeueStep
  <1>5. CASE \E t \in Task, now \in Time : apply_replay(t, now)
    BY <1>5, ReplayStep
  <1>6. CASE \E ids \in SUBSET Task : apply_vacuum(ids)
    BY <1>6, VacuumStep
  <1>7. CASE \E n \in Node, e \in Epoch, x \in Time : apply_worker_lease(n, e, x)
    BY <1>7, LeaseStep
  <1> QED
    BY <1>1, <1>2, <1>3, <1>4, <1>5, <1>6, <1>7 DEF apply_task_command

\* IndexInv is an inductive invariant of the task domain: whatever the order
\* of commands, the types, the three indexes, the idempotency table and the
\* shape of committed and owned records agree with each other.
THEOREM IndexInvariant == Spec => []IndexInv
  <1>1. IndexInv /\ [apply_task_command]_taskVars => IndexInv'
    BY StepInv
  <1> QED
    BY InitInv, <1>1, PTL DEF Spec

\* Every index entry apply.rs maintains by hand is backed by a record in the
\* matching status under the matching time, node or epoch, and conversely.
THEOREM IndexesStayExact == Spec => []IndexesExact
  <1>1. IndexInv => IndexesExact
    BY DEF IndexInv
  <1> QED
    BY IndexInvariant, <1>1, PTL

\* The idempotency table names exactly the live tasks enqueued with a key.
THEOREM IdempotencyStaysExact == Spec => []IdemExact
  <1>1. IndexInv => IdemExact
    BY DEF IndexInv
  <1> QED
    BY IndexInvariant, <1>1, PTL

\* A committed task is never queued or assigned.
THEOREM CommittedTasksNeverWait == Spec => []CommittedNeverWaits
  <1>1. IndexInv => CommittedNeverWaits
    BY DEF IndexInv
  <1> QED
    BY IndexInvariant, <1>1, PTL

\* The state keeps the types of the records and keys the code stores.
THEOREM TypeCorrect == Spec => []TypeOK
  <1>1. IndexInv => TypeOK
    BY DEF IndexInv
  <1> QED
    BY IndexInvariant, <1>1, PTL

-----------------------------------------------------------------------------
(* The commit mark is final, and the life cycle is implemented             *)

\* What a command may turn one existing record into.
Legal(old, r) ==
  \/ /\ r.committed = old.committed
     /\ \/ old.status = "Queued" /\ r.status = "Assigned"
        \/ /\ old.status = "Assigned" /\ r.status = "Running"
           /\ r.node = old.node /\ r.epoch = old.epoch
        \/ old.status = "Running" /\ r.status \in Terminal
        \/ old.status \in InFlight /\ r.status = "Failed" /\ r.committed
        \/ old.status \in InFlight /\ r.status = "Queued" /\ ~r.committed
        \/ old.status = "Failed" /\ r.status = "Queued" /\ ~r.committed
  \/ /\ old.status = "Running" /\ r.status = "Running" /\ r.committed
     /\ r.node = old.node /\ r.epoch = old.epoch

\* What one command may do to the records.
RecordStep ==
  \/ \E t \in Task, r \in TaskRecord :
        /\ rec' = [rec EXCEPT ![t] = r]
        /\ \/ ~Exists(t) /\ r.status = "Queued"
           \/ Exists(t) /\ Legal(rec[t], r)
  \/ \E gone \in SUBSET Task :
        /\ \A t \in gone : HasStatus(t, Terminal)
        /\ rec' = [t \in Task |-> IF t \in gone THEN NoRec ELSE rec[t]]
  \/ rec' = rec

\* Commands of the fenced owner and of the scheduler.
LEMMA FencedRecordStep ==
  ASSUME IndexInv, NEW t \in Task, NEW n \in Node, NEW e \in Epoch,
         NEW now \in Time, NEW a \in 0..AttemptCap,
         NEW retryAt \in Time \cup {0},
         \/ apply_assign(t, n, e, now)
         \/ apply_claim(t, n, e, now)
         \/ apply_mark_committed(t, n, e, now)
         \/ apply_done(t, n, e, a, now)
         \/ apply_fail(t, n, e, a, retryAt, now)
  PROVE  RecordStep
  <1>1. Exists(t) /\ rec[t] \in TaskRecord
    BY Filed DEF apply_assign, apply_claim, apply_mark_committed, apply_done,
                 apply_fail, ClaimMatches, AckMatches, HasStatus
  <1>2. CASE apply_assign(t, n, e, now)
    <2> DEFINE r == [rec[t] EXCEPT !.status = "Assigned", !.node = n,
                                   !.epoch = e, !.updated_at = now]
    <2>1. r \in TaskRecord /\ Legal(rec[t], r)
      BY <1>1, <1>2 DEF apply_assign, HasStatus, Legal, TaskRecord, Status
    <2>2. rec' = [rec EXCEPT ![t] = r]
      BY <1>2 DEF apply_assign
    <2> QED
      BY <1>1, <2>1, <2>2 DEF RecordStep
  <1>3. CASE apply_claim(t, n, e, now)
    <2> DEFINE b == saturating_inc(rec[t].attempts)
               r == [rec[t] EXCEPT !.status = "Running", !.attempts = b,
                                   !.updated_at = now]
    <2>1. b \in 0..AttemptCap
      BY <1>1, TaskQueueAssumption DEF TaskRecord, saturating_inc
    <2>2. rec' = [rec EXCEPT ![t] = r]
      BY <1>3 DEF apply_claim
    <2> HIDE DEF b
    <2>3. r \in TaskRecord /\ Legal(rec[t], r)
      BY <1>1, <1>3, <2>1
      DEF apply_claim, ClaimMatches, HasStatus, Legal, TaskRecord, Status
    <2> QED
      BY <1>1, <2>2, <2>3 DEF RecordStep
  <1>4. CASE apply_mark_committed(t, n, e, now)
    <2> DEFINE r == [rec[t] EXCEPT !.committed = TRUE, !.updated_at = now]
    <2>1. r \in TaskRecord /\ Legal(rec[t], r)
      BY <1>1, <1>4
      DEF apply_mark_committed, AckMatches, HasStatus, Legal, TaskRecord, Status
    <2>2. rec' = rec \/ rec' = [rec EXCEPT ![t] = r]
      BY <1>4 DEF apply_mark_committed
    <2> QED
      BY <1>1, <2>1, <2>2 DEF RecordStep
  <1>5. CASE apply_done(t, n, e, a, now)
    <2> DEFINE r == [rec[t] EXCEPT !.status = "Done", !.attempts = a,
                                   !.updated_at = now, !.completed_at = now]
    <2>1. r \in TaskRecord /\ Legal(rec[t], r)
      BY <1>1, <1>5 DEF apply_done, AckMatches, HasStatus, Legal, TaskRecord,
                        Status, Terminal
    <2>2. rec' = [rec EXCEPT ![t] = r]
      BY <1>5 DEF apply_done
    <2> QED
      BY <1>1, <2>1, <2>2 DEF RecordStep
  <1>6. CASE apply_fail(t, n, e, a, retryAt, now)
    <2> DEFINE retry == Retries(t, retryAt)
               q == [rec[t] EXCEPT !.attempts = a, !.node = NoNode,
                                   !.epoch = NoEpoch, !.updated_at = now]
               r == IF retry
                    THEN [q EXCEPT !.status = "Queued", !.run_at = retryAt]
                    ELSE [q EXCEPT !.status = "Failed", !.completed_at = now]
    <2>1. q \in TaskRecord /\ q.committed = rec[t].committed
      BY <1>1 DEF TaskRecord, Status
    <2>2. rec' = [rec EXCEPT ![t] = r]
      BY <1>6 DEF apply_fail
    <2>3. retry => retryAt \in Time /\ ~rec[t].committed
      BY TaskQueueAssumption DEF Retries
    <2>4. rec[t].status = "Running"
      BY <1>6 DEF apply_fail, AckMatches, HasStatus
    <2> HIDE DEF q
    <2>5. r \in TaskRecord /\ Legal(rec[t], r)
      BY <2>1, <2>3, <2>4 DEF Legal, TaskRecord, Status, Terminal, InFlight
    <2> QED
      BY <1>1, <2>2, <2>5 DEF RecordStep
  <1> QED
    BY <1>2, <1>3, <1>4, <1>5, <1>6

\* What apply_requeue makes of the record.
LEMMA RequeueRecordStep ==
  ASSUME IndexInv, NEW t \in Task, apply_requeue(t)
  PROVE  RecordStep
  <1> DEFINE stamp == Later(rec[t].updated_at, rec[t].created_at)
             q == [rec[t] EXCEPT !.node = NoNode, !.epoch = NoEpoch]
             r == IF rec[t].committed
                  THEN [q EXCEPT !.status = "Failed", !.completed_at = stamp]
                  ELSE [q EXCEPT !.status = "Queued"]
  <1>1. Exists(t) /\ rec[t] \in TaskRecord /\ rec[t].status \in InFlight
    BY Filed DEF apply_requeue, HasStatus
  <1>2. stamp \in Time
    BY <1>1, LaterIsTime DEF TaskRecord
  <1>3. q \in TaskRecord /\ q.committed = rec[t].committed
    BY <1>1 DEF TaskRecord, Status
  <1>4. rec' = [rec EXCEPT ![t] = r]
    BY DEF apply_requeue
  <1> HIDE DEF q, stamp
  <1>5. r \in TaskRecord /\ Legal(rec[t], r)
    BY <1>1, <1>2, <1>3 DEF Legal, TaskRecord, Status
  <1> QED
    BY <1>1, <1>4, <1>5 DEF RecordStep

\* What apply_replay makes of the record.
LEMMA ReplayRecordStep ==
  ASSUME IndexInv, NEW t \in Task, NEW now \in Time, apply_replay(t, now)
  PROVE  RecordStep
  <1> DEFINE r == [rec[t] EXCEPT !.status = "Queued", !.attempts = 0,
                                 !.run_at = now, !.updated_at = now,
                                 !.completed_at = 0]
  <1>1. /\ Exists(t) /\ rec[t] \in TaskRecord /\ rec[t].status = "Failed"
        /\ ~rec[t].committed
    BY Filed DEF apply_replay, Replayable, HasStatus
  <1>2. 0 \in 0..AttemptCap
    BY TaskQueueAssumption
  <1>3. r \in TaskRecord /\ Legal(rec[t], r)
    BY <1>1, <1>2 DEF Legal, TaskRecord, Status
  <1>4. rec' = [rec EXCEPT ![t] = r]
    BY DEF apply_replay
  <1> QED
    BY <1>1, <1>3, <1>4 DEF RecordStep

\* What apply_enqueue makes of the record.
LEMMA EnqueueRecordStep ==
  ASSUME IndexInv, NEW t \in Task, NEW runAt \in Time, NEW createdAt \in Time,
         NEW k \in IdemKey \cup {NoKey}, apply_enqueue(t, runAt, k, createdAt)
  PROVE  RecordStep
  <1> DEFINE r == [status |-> "Queued", attempts |-> 0, run_at |-> runAt,
                   idem_key |-> k, node |-> NoNode, epoch |-> NoEpoch,
                   committed |-> FALSE, updated_at |-> runAt,
                   created_at |-> createdAt, completed_at |-> 0]
  <1>1. 0 \in 0..AttemptCap
    BY TaskQueueAssumption
  <1>2. r \in TaskRecord /\ r.status = "Queued"
    BY <1>1 DEF TaskRecord, Status
  <1>3. rec' = [rec EXCEPT ![t] = r] /\ ~Exists(t)
    BY DEF apply_enqueue, Deduplicated
  <1> HIDE DEF r
  <1> QED
    BY <1>2, <1>3 DEF RecordStep

\* What any task command makes of the records.
LEMMA RecordSteps ==
  ASSUME IndexInv, [apply_task_command]_taskVars PROVE RecordStep
  <1>1. CASE UNCHANGED taskVars
    BY <1>1 DEF taskVars, RecordStep
  <1>2. CASE \E t \in Task, runAt, createdAt \in Time,
                k \in IdemKey \cup {NoKey} : apply_enqueue(t, runAt, k, createdAt)
    BY <1>2, EnqueueRecordStep
  <1>3. ASSUME NEW t \in Task, NEW n \in Node, NEW e \in Epoch, NEW now \in Time,
               \/ apply_assign(t, n, e, now)
               \/ apply_claim(t, n, e, now)
               \/ apply_mark_committed(t, n, e, now)
               \/ \E a \in 1..AttemptCap :
                    \/ apply_done(t, n, e, a, now)
                    \/ \E retryAt \in Time \cup {0} :
                          apply_fail(t, n, e, a, retryAt, now)
        PROVE  RecordStep
    <2>1. 1 \in 0..AttemptCap /\ \A a \in 1..AttemptCap : a \in 0..AttemptCap
      BY TaskQueueAssumption
    <2> QED
      BY <1>3, <2>1, FencedRecordStep
  <1>4. CASE \E t \in Task : apply_requeue(t)
    BY <1>4, RequeueRecordStep
  <1>5. CASE \E t \in Task, now \in Time : apply_replay(t, now)
    BY <1>5, ReplayRecordStep
  <1>6. CASE \E ids \in SUBSET Task : apply_vacuum(ids)
    <2> PICK ids \in SUBSET Task : apply_vacuum(ids)
      BY <1>6
    <2>1. Vacuumable(ids) \in SUBSET Task
      BY DEF Vacuumable
    <2>2. \A t \in Vacuumable(ids) : HasStatus(t, Terminal)
      BY DEF Vacuumable
    <2> QED
      BY <2>1, <2>2 DEF apply_vacuum, RecordStep
  <1>7. CASE \E n \in Node, e \in Epoch, x \in Time : apply_worker_lease(n, e, x)
    BY <1>7 DEF apply_worker_lease, RecordStep
  <1> QED
    BY <1>1, <1>2, <1>3, <1>4, <1>5, <1>6, <1>7 DEF apply_task_command

\* Whatever a step does to the records keeps every commit.
LEMMA CommitKeptByStep ==
  ASSUME IndexInv, RecordStep PROVE \A u \in Task : CommitKept(u)
  <1> SUFFICES ASSUME NEW u \in Task, Exists(u), rec[u].committed
               PROVE  CommitKept(u)
    BY DEF CommitKept
  <1>1. rec[u].status \in {"Running", "Done", "Failed"}
    BY DEF IndexInv, CommittedNeverWaits
  <1>2. ASSUME NEW t \in Task, NEW r \in TaskRecord,
               rec' = [rec EXCEPT ![t] = r],
               \/ ~Exists(t) /\ r.status = "Queued"
               \/ Exists(t) /\ Legal(rec[t], r)
        PROVE  CommitKept(u)
    <2>1. r # NoRec /\ rec'[t] = r /\ (u # t => rec'[u] = rec[u])
      BY <1>2, TaskQueueAssumption DEF IndexInv, TypeOK
    <2>2. CASE u = t
      BY <1>1, <1>2, <2>1, <2>2 DEF CommitKept, Legal, Terminal, InFlight
    <2>3. CASE u # t
      BY <2>1, <2>3 DEF CommitKept, Exists
    <2> QED
      BY <2>2, <2>3
  <1>3. ASSUME NEW gone \in SUBSET Task, \A t \in gone : HasStatus(t, Terminal),
               rec' = [t \in Task |-> IF t \in gone THEN NoRec ELSE rec[t]]
        PROVE  CommitKept(u)
    BY <1>3 DEF CommitKept, HasStatus, Exists
  <1>4. CASE rec' = rec
    BY <1>4 DEF CommitKept, Exists
  <1> QED
    BY <1>2, <1>3, <1>4 DEF RecordStep

\* No command reopens a task past its commit point or moves its execution to
\* another assignment.
THEOREM CommitStaysFinal == Spec => CommitIsFinal
  <1>1. IndexInv /\ [apply_task_command]_taskVars
          => [\A t \in Task : CommitKept(t)]_taskVars
    BY RecordSteps, CommitKeptByStep
  <1> QED
    BY IndexInvariant, <1>1, PTL DEF Spec, CommitIsFinal

\* The phase of an existing record, without CASE.
LEMMA PhaseOfRecord ==
  ASSUME NEW r \in TaskRecord
  PROVE  /\ r.status = "Queued" => PhaseOf(r) = "waiting"
         /\ r.status \in InFlight /\ ~r.committed => PhaseOf(r) = "held"
         /\ r.status \in InFlight /\ r.committed => PhaseOf(r) = "sealed"
         /\ r.status = "Failed" /\ ~r.committed => PhaseOf(r) = "dead"
         /\ r.status = "Failed" /\ r.committed => PhaseOf(r) = "closed"
         /\ r.status = "Done" => PhaseOf(r) = "closed"
         /\ PhaseOf(NoRec) = "absent"
  BY TaskQueueAssumption DEF PhaseOf, InFlight

\* Rewriting one record moves one phase.
LEMMA PhaseMove ==
  ASSUME TypeOK, NEW t \in Task, NEW r, rec' = [rec EXCEPT ![t] = r]
  PROVE  /\ phase' = [phase EXCEPT ![t] = PhaseOf(r)]
         /\ phase[t] = PhaseOf(rec[t])
  <1>1. rec'[t] = r /\ \A u \in Task \ {t} : rec'[u] = rec[u]
    BY DEF TypeOK
  <1>2. phase' = [u \in Task |-> PhaseOf(rec'[u])]
    BY DEF phase, PhaseOf
  <1>3. \A u \in Task : phase'[u] = IF u = t THEN PhaseOf(r) ELSE phase[u]
    BY <1>1, <1>2 DEF phase
  <1> QED
    BY <1>2, <1>3 DEF phase

\* The phases follow the abstract life cycle, step by step.
LEMMA LifecycleStep ==
  ASSUME IndexInv, RecordStep PROVE [Lifecycle!Next]_phase
  <1>1. ASSUME NEW t \in Task, NEW r \in TaskRecord,
               rec' = [rec EXCEPT ![t] = r],
               \/ ~Exists(t) /\ r.status = "Queued"
               \/ Exists(t) /\ Legal(rec[t], r)
        PROVE  [Lifecycle!Next]_phase
    <2>1. /\ phase' = [phase EXCEPT ![t] = PhaseOf(r)]
          /\ phase[t] = PhaseOf(rec[t]) /\ TypeOK
      BY <1>1, PhaseMove DEF IndexInv
    <2>2. CASE ~Exists(t) /\ r.status = "Queued"
      <3>1. phase[t] = "absent" /\ PhaseOf(r) = "waiting"
        BY <2>1, <2>2, PhaseOfRecord DEF Exists
      <3> QED
        BY <2>1, <3>1 DEF Lifecycle!Next, Lifecycle!Submit, Lifecycle!Move
    <2>3. CASE Exists(t) /\ Legal(rec[t], r)
      <3>1. rec[t] \in TaskRecord
        BY <2>1, <2>3, ExistingRecord
      <3>2. rec[t].committed => rec[t].status \in {"Running", "Done", "Failed"}
        BY <2>3 DEF IndexInv, CommittedNeverWaits
      <3>3. \/ phase[t] = "waiting" /\ PhaseOf(r) = "held"
            \/ phase[t] = "held" /\ PhaseOf(r) \in {"closed", "dead"}
            \/ phase[t] = "sealed" /\ PhaseOf(r) = "closed"
            \/ phase[t] = "held" /\ PhaseOf(r) = "waiting"
            \/ phase[t] = "held" /\ PhaseOf(r) = "sealed"
            \/ phase[t] = "dead" /\ PhaseOf(r) = "waiting"
            \/ phase[t] = PhaseOf(r)
        BY <2>1, <2>3, <3>1, <3>2, PhaseOfRecord
        DEF Legal, Terminal, InFlight, TaskRecord
      <3>4. CASE phase[t] = PhaseOf(r)
        <4>1. phase' = phase
          BY <2>1, <3>4 DEF phase
        <4> QED
          BY <4>1
      <3> QED
        BY <2>1, <3>3, <3>4
        DEF Lifecycle!Next, Lifecycle!HandOut, Lifecycle!TakeBack,
            Lifecycle!Seal, Lifecycle!Finish, Lifecycle!Settle,
            Lifecycle!Revive, Lifecycle!Move
    <2> QED
      BY <1>1, <2>2, <2>3
  <1>2. ASSUME NEW gone \in SUBSET Task, \A t \in gone : HasStatus(t, Terminal),
               rec' = [t \in Task |-> IF t \in gone THEN NoRec ELSE rec[t]]
        PROVE  [Lifecycle!Next]_phase
    <2>1. \A t \in gone : phase[t] \in {"closed", "dead"}
      <3> SUFFICES ASSUME NEW t \in gone PROVE phase[t] \in {"closed", "dead"}
        OBVIOUS
      <3>1. /\ t \in Task /\ Exists(t) /\ rec[t] \in TaskRecord
            /\ rec[t].status \in Terminal /\ phase[t] = PhaseOf(rec[t])
        BY <1>2, ExistingRecord DEF HasStatus, IndexInv, phase
      <3> QED
        BY <3>1, PhaseOfRecord DEF Terminal, TaskRecord
    <2>2. phase' = [t \in Task |-> IF t \in gone THEN "absent" ELSE phase[t]]
      <3>1. PhaseOf(NoRec) = "absent"
        BY DEF PhaseOf
      <3> QED
        BY <1>2, <3>1 DEF phase
    <2>3. gone \in SUBSET {t \in Task : phase[t] \in {"closed", "dead"}}
      BY <2>1
    <2> QED
      BY <2>2, <2>3 DEF Lifecycle!Next, Lifecycle!Forget
  <1>3. CASE rec' = rec
    BY <1>3 DEF phase
  <1> QED
    BY <1>1, <1>2, <1>3 DEF RecordStep

\* The empty task domain maps to the initial phases.
LEMMA LifecycleInit == Init => Lifecycle!Init
  BY DEF Init, phase, PhaseOf, Lifecycle!Init

\* The command log implements the abstract life cycle: every sequence of task
\* commands is seen by an observer of the phases as a run of TaskLifecycle.
THEOREM LifecycleImplemented == Spec => LifecycleSpec
  <1>1. IndexInv /\ [apply_task_command]_taskVars => [Lifecycle!Next]_phase
    BY RecordSteps, LifecycleStep
  <1> QED
    BY IndexInvariant, LifecycleInit, <1>1, PTL
    DEF Spec, LifecycleSpec, Lifecycle!Spec

-----------------------------------------------------------------------------
(* TaskExecution                                                           *)

\* What a worker submits is a well formed command.
LEMMA CommandTyped ==
  ASSUME ExecTypeOK, NEW n \in Node, NEW t \in Task,
         exec[n][t].pc \in Submitting
  PROVE  /\ CommandOf(n, t) \in Command
         /\ CommandOf(n, t).op \in {"done", "fail"} =>
              CommandOf(n, t).attempts > 0
         /\ CommandOf(n, t).task = t /\ CommandOf(n, t).node = n
         /\ CommandOf(n, t).epoch = exec[n][t].epoch
         /\ CommandOf(n, t).op = "claim" <=> exec[n][t].pc = "claiming"
         /\ CommandOf(n, t).op = "mark" <=> exec[n][t].pc = "marking"
  <1> DEFINE x == exec[n][t]
  <1>1. /\ x \in Slot /\ x.epoch \in Epoch /\ x.attempts \in 0..AttemptCap
        /\ x.pc \in Submitting /\ (x.pc = "acking" => x.attempts > 0)
    BY DEF ExecTypeOK, SlotsTypeOK, RestTypeOK, Slot, SlotOK, Submitting
  <1>2. CASE x.pc = "claiming"
    BY <1>1, <1>2 DEF CommandOf, Command
  <1>3. CASE x.pc = "marking"
    BY <1>1, <1>3 DEF CommandOf, Command
  <1>4. CASE x.pc = "acking" /\ x.ok
    BY <1>1, <1>4 DEF CommandOf, Command
  <1>5. CASE x.pc = "acking" /\ ~x.ok
    BY <1>1, <1>5 DEF CommandOf, Command
  <1> QED
    BY <1>1, <1>2, <1>3, <1>4, <1>5 DEF Submitting

\* The retry time a worker asks for is one apply_fail accepts.
LEMMA RetryIsTime ==
  ASSUME NEW a, NEW r \in RetryAt(a) PROVE r \in Time \cup {0}
  BY DEF RetryAt

\* Applying a well formed command is a step of the replicated task domain.
LEMMA ApplyIsCommand ==
  ASSUME NEW c \in Command, c.op \in {"done", "fail"} => c.attempts > 0,
         Apply(c)
  PROVE  apply_task_command
  <1>1. /\ c.task \in Task /\ c.node \in Node /\ c.epoch \in Epoch
        /\ c.op \in {"done", "fail"} => c.attempts \in 1..AttemptCap
    BY TaskQueueAssumption DEF Command
  <1>2. PICK now \in Time :
          \/ apply_claim(c.task, c.node, c.epoch, now)
          \/ apply_mark_committed(c.task, c.node, c.epoch, now)
          \/ /\ c.attempts \in 1..AttemptCap
             /\ apply_done(c.task, c.node, c.epoch, c.attempts, now)
          \/ /\ c.attempts \in 1..AttemptCap
             /\ \E r \in Time \cup {0} :
                  apply_fail(c.task, c.node, c.epoch, c.attempts, r, now)
    BY <1>1, RetryIsTime DEF Apply
  <1> QED
    BY <1>1, <1>2 DEF apply_task_command

\* Every step is a task command or leaves the replicated state alone.
LEMMA LogStep ==
  ASSUME ExecTypeOK, [ExecNext]_vars
  PROVE  [apply_task_command]_taskVars
  <1>1. ASSUME NEW t \in Task,
               Enqueue(t) \/ Replay(t) \/ SchedulerStep(t) \/ RequeueEarly(t)
        PROVE  [apply_task_command]_taskVars
    <2>1. CASE Enqueue(t)
      BY <2>1 DEF Enqueue, apply_task_command
    <2>2. CASE Replay(t)
      BY <2>2 DEF Replay, apply_task_command
    <2>3. CASE RequeueEarly(t) \/ RequeueInactive(t) \/ RequeueStuck(t)
      BY <2>3 DEF RequeueEarly, RequeueInactive, RequeueStuck,
                  apply_task_command
    <2>4. ASSUME NEW n \in Node, Assign(t, n) PROVE apply_task_command
      <3>1. PICK now \in Time, e \in 1..renewed[n] : apply_assign(t, n, e, now)
        BY <2>4 DEF Assign
      <3>2. e \in Epoch
        BY TaskExecutionAssumption DEF ExecTypeOK, SlotsTypeOK, RestTypeOK
      <3> QED
        BY <3>1, <3>2 DEF apply_task_command
    <2> QED
      BY <1>1, <2>1, <2>2, <2>3, <2>4 DEF SchedulerStep
  <1>2. CASE Vacuum
    BY <1>2 DEF Vacuum, apply_task_command
  <1>3. ASSUME NEW n \in Node,
               \/ Drain(n) \/ RenewLease(n) \/ ExpireLease(n)
               \/ SuspectWorker(n) \/ Crash(n) \/ Restart(n)
        PROVE  [apply_task_command]_taskVars
    <2>1. CASE RenewLease(n)
      <3>1. renewed'[n] \in Epoch
        BY <2>1, TaskExecutionAssumption DEF RenewLease, ExecTypeOK, RestTypeOK
      <3> QED
        BY <2>1, <3>1 DEF RenewLease, apply_task_command
    <2> QED
      BY <1>3, <2>1
      DEF Drain, ExpireLease, SuspectWorker, Crash, Restart
  <1>4. ASSUME NEW n \in Node, NEW t \in Task,
               \/ WakeUp(n, t) \/ LoseWake(n, t) \/ AcquirePermit(n, t)
               \/ ExecutionStep(n, t) \/ GiveUp(n, t) \/ Duplicate(n, t)
        PROVE  [apply_task_command]_taskVars
    <2>1. CASE ClaimAccepted(n, t) \/ MarkAccepted(n, t) \/ AckAccepted(n, t)
      <3>1. exec[n][t].pc \in Submitting /\ Apply(CommandOf(n, t))
        BY <2>1 DEF ClaimAccepted, MarkAccepted, AckAccepted, Submitting
      <3> QED
        BY <3>1, CommandTyped, ApplyIsCommand
    <2> QED
      BY <1>4, <2>1
      DEF WakeUp, LoseWake, AcquirePermit, ExecutionStep, GiveUp, Duplicate,
          ClaimRejected, HandlerFails, HandlerCompletes, mark_committed,
          MarkRejected, PerformEffect, TimeOut, AckRejected
  <1>5. ASSUME NEW c \in ghosts, ApplyGhost(c)
        PROVE  [apply_task_command]_taskVars
    BY <1>5, ApplyIsCommand DEF ApplyGhost, ExecTypeOK, RestTypeOK
  <1>6. CASE UNCHANGED vars
    BY <1>6 DEF vars
  <1> QED
    BY <1>1, <1>2, <1>3, <1>4, <1>5, <1>6 DEF ExecNext

-----------------------------------------------------------------------------
(* Type correctness                                                        *)


\* An idle slot has the type of a slot.
LEMMA IdleIsSlot ==
  IdleSlot \in Slot /\ SlotOK(IdleSlot) /\ IdleSlot.pc = "idle"
  <1>1. 0 \in 0..AttemptCap
    BY TaskQueueAssumption
  <1> QED
    BY <1>1 DEF IdleSlot, Slot, SlotOK, Pc

\* What the executions look like after one slot was rewritten.
LEMMA SlotRewritten ==
  ASSUME ExecTypeOK, NEW n \in Node, NEW t \in Task, NEW y \in Slot, SlotOK(y),
         exec' = [exec EXCEPT ![n][t] = y]
  PROVE  /\ exec' \in [Node -> [Task -> Slot]]
         /\ \A m \in Node, u \in Task : SlotOK(exec'[m][u])
         /\ \A m \in Node, u \in Task :
              exec'[m][u] = IF m = n /\ u = t THEN y ELSE exec[m][u]
  <1>1. exec \in [Node -> [Task -> Slot]]
    BY DEF ExecTypeOK, SlotsTypeOK, RestTypeOK
  <1>2. \A m \in Node, u \in Task :
          exec'[m][u] = IF m = n /\ u = t THEN y ELSE exec[m][u]
    BY <1>1
  <1> QED
    BY <1>1, <1>2 DEF ExecTypeOK, SlotsTypeOK, RestTypeOK

\* A spawn fills idle slots of one node.
LEMMA Spawned ==
  ASSUME ExecTypeOK, NEW n \in Node, NEW todo, Spawn(n, todo),
         \A t \in DOMAIN todo : todo[t] \in Epoch
  PROVE  /\ exec' \in [Node -> [Task -> Slot]]
         /\ \A m \in Node, u \in Task : SlotOK(exec'[m][u])
         /\ \A m \in Node, u \in Task :
              exec'[m][u] = exec[m][u] \/ exec'[m][u].pc = "waiting"
  <1> DEFINE y(u) == [IdleSlot EXCEPT !.pc = "waiting", !.epoch = todo[u]]
  <1>1. exec \in [Node -> [Task -> Slot]]
    BY DEF ExecTypeOK, SlotsTypeOK, RestTypeOK
  <1>2. \A u \in DOMAIN todo :
          y(u) \in Slot /\ SlotOK(y(u)) /\ y(u).pc = "waiting"
    BY IdleIsSlot DEF Slot, SlotOK, Pc
  <1>3. exec' = [exec EXCEPT ![n] = [u \in Task |->
           IF u \in DOMAIN todo /\ exec[n][u].pc = "idle" THEN y(u)
           ELSE exec[n][u]]]
    BY DEF Spawn
  <1> HIDE DEF y
  <1>4. \A m \in Node, u \in Task :
          exec'[m][u] = IF m = n /\ u \in DOMAIN todo /\ exec[n][u].pc = "idle"
                        THEN y(u) ELSE exec[m][u]
    BY <1>1, <1>3
  <1>5. exec' \in [Node -> [Task -> Slot]]
    BY <1>1, <1>2, <1>3
  <1> QED
    BY <1>2, <1>4, <1>5 DEF ExecTypeOK, SlotsTypeOK, RestTypeOK

\* A step of one execution that only moves on, without a claim or an ack.
Moves(n, t) ==
  \/ \E pc \in {"claiming", "marking", "effect"} :
       /\ Goto(n, t, pc)
       /\ exec[n][t].pc \in Pc \ {"idle"}
       /\ pc # "claiming" => exec[n][t].pc \in {"running", "marking"}
  \/ /\ \E ok \in BOOLEAN : Outcome(n, t, ok)
     /\ exec[n][t].pc \in {"running", "marking", "effect"}
  \/ Finish(n, t)

\* Moving one execution to another program point keeps the slots typed.
LEMMA MoveTyped ==
  ASSUME ExecTypeOK, NEW n \in Node, NEW t \in Task, Moves(n, t)
  PROVE  /\ exec' \in [Node -> [Task -> Slot]]
         /\ \A m \in Node, u \in Task : SlotOK(exec'[m][u])
  <1>1. /\ exec[n][t] \in Slot /\ SlotOK(exec[n][t])
        /\ exec \in [Node -> [Task -> Slot]]
    BY DEF ExecTypeOK, SlotsTypeOK, RestTypeOK
  <1>2. ASSUME NEW pc \in {"claiming", "marking", "effect"}, Goto(n, t, pc),
               exec[n][t].pc \in Pc \ {"idle"},
               pc # "claiming" => exec[n][t].pc \in {"running", "marking"}
        PROVE  \E y \in Slot : SlotOK(y) /\ exec' = [exec EXCEPT ![n][t] = y]
    <2> DEFINE y == [exec[n][t] EXCEPT !.pc = pc]
    <2>1. y \in Slot /\ SlotOK(y)
      BY <1>1, <1>2 DEF Slot, SlotOK, Pc
    <2>2. exec' = [exec EXCEPT ![n][t] = y]
      BY <1>1, <1>2 DEF Goto
    <2> QED
      BY <2>1, <2>2
  <1>3. ASSUME NEW ok \in BOOLEAN, Outcome(n, t, ok),
               exec[n][t].pc \in {"running", "marking", "effect"}
        PROVE  \E y \in Slot : SlotOK(y) /\ exec' = [exec EXCEPT ![n][t] = y]
    <2> DEFINE y == [exec[n][t] EXCEPT !.pc = "acking", !.ok = ok]
    <2>1. y \in Slot /\ SlotOK(y)
      BY <1>1, <1>3 DEF Slot, SlotOK, Pc
    <2>2. exec' = [exec EXCEPT ![n][t] = y]
      BY <1>1, <1>3 DEF Outcome
    <2> QED
      BY <2>1, <2>2
  <1>4. CASE Finish(n, t)
    BY <1>4, IdleIsSlot, SlotRewritten DEF Finish
  <1> QED
    BY <1>2, <1>3, <1>4, SlotRewritten DEF Moves

\* An accepted claim hands the worker the record it wrote.
LEMMA ClaimTyped ==
  ASSUME ExecTypeOK, IndexInv, NEW n \in Node, NEW t \in Task,
         ClaimAccepted(n, t)
  PROVE  /\ exec' \in [Node -> [Task -> Slot]]
         /\ \A m \in Node, u \in Task : SlotOK(exec'[m][u])
         /\ \A m \in Node, u \in Task : exec'[m][u] # exec[m][u] =>
              m = n /\ u = t /\ exec'[m][u].pc = "running"
         /\ ClaimMatches(t, n, exec[n][t].epoch)
  <1> DEFINE a == rec'[t].attempts
             y == [exec[n][t] EXCEPT !.pc = "running", !.attempts = a]
  <1>1. /\ exec[n][t] \in Slot /\ SlotOK(exec[n][t])
        /\ exec[n][t].pc = "claiming"
        /\ exec \in [Node -> [Task -> Slot]]
    BY DEF ExecTypeOK, SlotsTypeOK, RestTypeOK, ClaimAccepted
  <1>2. PICK now \in Time : apply_claim(t, n, exec[n][t].epoch, now)
    <2>1. /\ CommandOf(n, t).op = "claim" /\ CommandOf(n, t).task = t
          /\ CommandOf(n, t).node = n
          /\ CommandOf(n, t).epoch = exec[n][t].epoch
      BY <1>1, CommandTyped DEF Submitting
    <2> QED
      BY <2>1 DEF ClaimAccepted, Apply
  <1>3. ClaimMatches(t, n, exec[n][t].epoch)
    BY <1>2 DEF apply_claim
  <1>4. rec[t] \in TaskRecord /\ rec \in [Task -> TaskRecord \cup {NoRec}]
    BY <1>3, Filed DEF ClaimMatches, HasStatus, TypeOK
  <1>5. rec'[t].attempts = saturating_inc(rec[t].attempts)
    BY <1>2, <1>4 DEF apply_claim, TaskRecord
  <1>6. a \in 0..AttemptCap /\ a > 0
    BY <1>4, <1>5, TaskQueueAssumption DEF TaskRecord, saturating_inc
  <1>7. exec' = [exec EXCEPT ![n][t] = y]
    BY <1>1 DEF ClaimAccepted
  <1> HIDE DEF a
  <1>8. y \in Slot /\ SlotOK(y) /\ y.pc = "running"
    BY <1>1, <1>6 DEF Slot, SlotOK, Pc
  <1> HIDE DEF y
  <1> QED
    BY <1>3, <1>7, <1>8, SlotRewritten

\* Clients and the scheduler leave the slots alone.
LEMMA TaskActionsTyped ==
  ASSUME ExecTypeOK, NEW t \in Task,
         Enqueue(t) \/ Replay(t) \/ SchedulerStep(t) \/ RequeueEarly(t)
  PROVE  ExecTypeOK' /\ exec' = exec
  <1> USE DEF ExecTypeOK
  <1>1. exec' = exec
    BY DEF Enqueue, Replay, SchedulerStep, Assign, RequeueInactive,
           RequeueStuck, RequeueEarly, execVars
  <1>2. SlotsTypeOK'
    BY <1>1 DEF SlotsTypeOK
  <1>3. ASSUME NEW n \in Node, Assign(t, n) PROVE RestTypeOK'
    <2>1. \A e \in 1..renewed[n] : e \in Epoch
      BY TaskExecutionAssumption DEF RestTypeOK
    <2> QED
      BY <1>3, <2>1 DEF Assign, RestTypeOK
  <1>4. CASE ~(\E n \in Node : Assign(t, n))
    <2>1. CASE Enqueue(t)
      BY <1>1, <1>2, <2>1 DEF Enqueue, RestTypeOK
    <2>2. CASE RequeueEarly(t)
      <3>1. faults' \in 0..MaxFaults
        BY <2>2, TaskExecutionAssumption DEF RequeueEarly, RestTypeOK, Fault
      <3> QED
        BY <1>1, <1>2, <2>2, <3>1 DEF RequeueEarly, RestTypeOK
    <2>3. CASE Replay(t) \/ RequeueInactive(t) \/ RequeueStuck(t)
      BY <1>1, <1>2, <2>3
      DEF Replay, RequeueInactive, RequeueStuck, execVars, RestTypeOK
    <2> QED
      BY <1>4, <2>1, <2>2, <2>3 DEF SchedulerStep
  <1> QED
    BY <1>1, <1>2, <1>3, <1>4

\* The actions of one worker process keep the types.
LEMMA NodeActionsTyped ==
  ASSUME ExecTypeOK, TypeOK, NEW n \in Node,
         \/ Drain(n) \/ RenewLease(n) \/ ExpireLease(n)
         \/ SuspectWorker(n) \/ Crash(n) \/ Restart(n)
  PROVE  /\ ExecTypeOK'
         /\ \A m \in Node, u \in Task :
              exec'[m][u] = exec[m][u] \/ exec'[m][u].pc \in {"idle", "waiting"}
  <1> USE DEF ExecTypeOK
  <1>1. RestTypeOK'
    BY TaskExecutionAssumption
    DEF RestTypeOK, Drain, RenewLease, ExpireLease, SuspectWorker, Crash,
        Restart, Fault
  <1>2. CASE Drain(n)
    <2>1. \A t \in DOMAIN Listed(n) : Listed(n)[t] \in Epoch
      BY DEF Listed, TypeOK
    <2> QED
      BY <1>1, <1>2, <2>1, Spawned DEF Drain, SlotsTypeOK
  <1>3. CASE Crash(n)
    <2>1. exec \in [Node -> [Task -> Slot]]
      BY DEF SlotsTypeOK
    <2>2. \A m \in Node, u \in Task :
            exec'[m][u] = IF m = n THEN IdleSlot ELSE exec[m][u]
      BY <1>3, <2>1 DEF Crash
    <2>3. exec' \in [Node -> [Task -> Slot]]
      BY <1>3, <2>1, IdleIsSlot DEF Crash
    <2> QED
      BY <1>1, <2>2, <2>3, IdleIsSlot DEF SlotsTypeOK
  <1>4. CASE ~Drain(n) /\ ~Crash(n)
    <2>1. exec' = exec
      BY <1>4 DEF RenewLease, ExpireLease, SuspectWorker, Restart
    <2> QED
      BY <1>1, <2>1 DEF SlotsTypeOK
  <1> QED
    BY <1>2, <1>3, <1>4

\* The steps of one execution that neither claim nor spawn.
LEMMA MovingActions ==
  ASSUME ExecTypeOK, NEW n \in Node, NEW t \in Task,
         AcquirePermit(n, t) \/ ExecutionStep(n, t) \/ GiveUp(n, t),
         ~ClaimAccepted(n, t)
  PROVE  Moves(n, t)
  <1> USE DEF ExecTypeOK
  <1>1. exec[n][t].pc \in Pc
    BY DEF SlotsTypeOK, Slot
  <1>2. CASE AcquirePermit(n, t)
    BY <1>1, <1>2 DEF AcquirePermit, Moves
  <1>3. CASE mark_committed(n, t) \/ MarkAccepted(n, t)
    BY <1>1, <1>3 DEF mark_committed, MarkAccepted, Moves
  <1>4. CASE \/ HandlerFails(n, t) \/ HandlerCompletes(n, t)
             \/ MarkRejected(n, t) \/ PerformEffect(n, t) \/ TimeOut(n, t)
    BY <1>4 DEF HandlerFails, HandlerCompletes, MarkRejected, PerformEffect,
                TimeOut, Moves
  <1>5. CASE ClaimRejected(n, t) \/ AckAccepted(n, t) \/ AckRejected(n, t)
    BY <1>5 DEF ClaimRejected, AckAccepted, AckRejected, Moves
  <1>6. CASE GiveUp(n, t)
    BY <1>6 DEF GiveUp, Moves
  <1> QED
    BY <1>2, <1>3, <1>4, <1>5, <1>6 DEF ExecutionStep

\* The actions of one execution keep the types.
LEMMA SlotActionsTyped ==
  ASSUME ExecTypeOK, IndexInv, NEW n \in Node, NEW t \in Task,
         \/ WakeUp(n, t) \/ LoseWake(n, t) \/ AcquirePermit(n, t)
         \/ ExecutionStep(n, t) \/ GiveUp(n, t) \/ Duplicate(n, t)
  PROVE  ExecTypeOK'
  <1> USE DEF ExecTypeOK
  <1>1. CASE WakeUp(n, t)
    <2>1. PICK e \in Epoch :
            /\ wakes' = wakes \ {<<n, t, e>>}
            /\ IF n \in up THEN Spawn(n, [x \in {t} |-> e]) ELSE UNCHANGED exec
      BY <1>1 DEF WakeUp
    <2>2. \A u \in DOMAIN [x \in {t} |-> e] : [x \in {t} |-> e][u] \in Epoch
      OBVIOUS
    <2>3. SlotsTypeOK'
      <3>1. CASE n \in up
        BY <2>1, <2>2, <3>1, Spawned DEF SlotsTypeOK
      <3>2. CASE n \notin up
        BY <2>1, <3>2 DEF SlotsTypeOK
      <3> QED
        BY <3>1, <3>2
    <2> QED
      BY <1>1, <2>1, <2>3 DEF WakeUp, RestTypeOK
  <1>2. CASE LoseWake(n, t) \/ Duplicate(n, t)
    <2>1. SlotsTypeOK'
      BY <1>2 DEF LoseWake, Duplicate, SlotsTypeOK
    <2>2. CASE LoseWake(n, t)
      BY <2>1, <2>2 DEF LoseWake, RestTypeOK
    <2>3. CASE Duplicate(n, t)
      <3>1. /\ CommandOf(n, t) \in Command
            /\ CommandOf(n, t).op \in {"done", "fail"} =>
                 CommandOf(n, t).attempts > 0
        BY <2>3, CommandTyped DEF Duplicate
      <3> QED
        BY <2>1, <2>3, <3>1, TaskExecutionAssumption
        DEF Duplicate, RestTypeOK, Fault
    <2> QED
      BY <1>2, <2>2, <2>3
  <1>3. CASE AcquirePermit(n, t) \/ ExecutionStep(n, t) \/ GiveUp(n, t)
    <2>1. SlotsTypeOK'
      BY <1>3, MovingActions, MoveTyped, ClaimTyped DEF SlotsTypeOK
    <2>2. RestTypeOK'
      <3>1. CASE GiveUp(n, t)
        <4>1. faults' \in 0..MaxFaults
          BY <3>1, TaskExecutionAssumption DEF GiveUp, RestTypeOK, Fault
        <4> QED
          BY <3>1, <4>1 DEF GiveUp, RestTypeOK
      <3>2. CASE PerformEffect(n, t)
        BY <3>2 DEF PerformEffect, RestTypeOK
      <3>3. CASE ~GiveUp(n, t) /\ ~PerformEffect(n, t)
        <4>1. UNCHANGED <<up, renewed, fresh, wakes, ghosts, minted, effects,
                          faults>>
          BY <1>3, <3>3
          DEF AcquirePermit, ExecutionStep, ClaimAccepted, ClaimRejected,
              HandlerFails, HandlerCompletes, mark_committed, MarkAccepted,
              MarkRejected, TimeOut, AckAccepted, AckRejected
        <4> QED
          BY <4>1 DEF RestTypeOK
      <3> QED
        BY <3>1, <3>2, <3>3
    <2> QED
      BY <2>1, <2>2
  <1> QED
    BY <1>1, <1>2, <1>3

\* Every step of scheduler, workers and clients keeps the types.
LEMMA ExecTypeStep ==
  ASSUME ExecTypeOK, IndexInv, [ExecNext]_vars PROVE ExecTypeOK'
  <1> USE DEF ExecTypeOK
  <1>1. CASE UNCHANGED vars
    BY <1>1 DEF vars, execVars, SlotsTypeOK, RestTypeOK
  <1>2. CASE Vacuum
    BY <1>2 DEF Vacuum, execVars, SlotsTypeOK, RestTypeOK
  <1>3. ASSUME NEW c \in ghosts, ApplyGhost(c) PROVE ExecTypeOK'
    BY <1>3 DEF ApplyGhost, SlotsTypeOK, RestTypeOK
  <1> QED
    BY <1>1, <1>2, <1>3, TaskActionsTyped, NodeActionsTyped, SlotActionsTyped
    DEF ExecNext, IndexInv

\* The initial state is typed and its indexes are exact.
LEMMA ExecInitTyped == ExecInit => ExecTypeOK /\ IndexInv
  <1> USE DEF ExecTypeOK
  <1> SUFFICES ASSUME ExecInit PROVE ExecTypeOK /\ IndexInv
    OBVIOUS
  <1>1. IndexInv
    BY InitInv DEF ExecInit
  <1>2. SlotsTypeOK
    BY IdleIsSlot DEF ExecInit, SlotsTypeOK
  <1>3. RestTypeOK
    BY TaskExecutionAssumption DEF ExecInit, RestTypeOK
  <1> QED
    BY <1>1, <1>2, <1>3

\* The workers, the scheduler and the clients keep the task domain's indexes
\* exact and their own state well typed.
THEOREM ExecInvariant == ExecSpec => [](ExecTypeOK /\ IndexInv)
  <1>1. /\ ExecTypeOK /\ IndexInv
        /\ [ExecNext]_vars
        => (ExecTypeOK /\ IndexInv)'
    BY ExecTypeStep, LogStep, StepInv
  <1> QED
    BY ExecInitTyped, <1>1, PTL DEF ExecSpec

-----------------------------------------------------------------------------
(* Irreversible effects happen at most once                                *)

\* A task becomes fenced to an owner only by that owner's claim.
LEMMA FenceStep ==
  ASSUME IndexInv, RecordStep, NEW u \in Task, NEW n, NEW e,
         AckMatches(u, n, e)'
  PROVE  AckMatches(u, n, e) \/ ClaimMatches(u, n, e)
  <1>1. /\ rec'[u] # NoRec /\ rec'[u].status = "Running"
        /\ rec'[u].node = n /\ rec'[u].epoch = e
    BY DEF AckMatches, HasStatus, Exists
  <1>2. ASSUME NEW t \in Task, NEW r \in TaskRecord,
               rec' = [rec EXCEPT ![t] = r],
               \/ ~Exists(t) /\ r.status = "Queued"
               \/ Exists(t) /\ Legal(rec[t], r)
        PROVE  AckMatches(u, n, e) \/ ClaimMatches(u, n, e)
    <2>1. rec'[t] = r /\ (u # t => rec'[u] = rec[u])
      BY <1>2 DEF IndexInv, TypeOK
    <2>2. CASE u = t
      BY <1>1, <1>2, <2>1, <2>2
      DEF AckMatches, ClaimMatches, HasStatus, Exists, Legal, Terminal
    <2>3. CASE u # t
      BY <1>1, <2>1, <2>3 DEF AckMatches, HasStatus, Exists
    <2> QED
      BY <2>2, <2>3
  <1>3. ASSUME NEW gone \in SUBSET Task,
               rec' = [t \in Task |-> IF t \in gone THEN NoRec ELSE rec[t]]
        PROVE  AckMatches(u, n, e)
    BY <1>1, <1>3 DEF AckMatches, HasStatus, Exists
  <1>4. CASE rec' = rec
    BY <1>1, <1>4 DEF AckMatches, HasStatus, Exists
  <1> QED
    BY <1>2, <1>3, <1>4 DEF RecordStep

\* Records are born with a fresh id only.
Births == \A u \in Task : ~Exists(u) /\ rec'[u] # NoRec => u \in minted' \ minted

\* No execution gets to its effect, and none gets a chance to mark unless it
\* had one before or no effect happened yet.
QuietExec ==
  \A n \in Node, t \in Task :
    /\ exec'[n][t].pc = "effect" =>
         exec[n][t].pc = "effect" /\ exec'[n][t].epoch = exec[n][t].epoch
    /\ exec'[n][t].pc \in {"running", "marking"} =>
         \/ /\ exec[n][t].pc \in {"running", "marking"}
            /\ exec'[n][t].epoch = exec[n][t].epoch
         \/ effects[t] = 0

\* A task past its commit point stays past it.
LEMMA PastKept ==
  ASSUME IndexInv, RecordStep, Births, minted \subseteq minted',
         NEW t \in Task, Past(t)
  PROVE  Past(t)'
  <1>1. CommitKept(t)
    BY CommitKeptByStep
  <1> QED
    BY <1>1 DEF Past, Births, CommitKept, Exists

\* An assigned task is not past its commit point: nothing happened yet.
LEMMA AssignedIsBefore ==
  ASSUME IndexInv, EffectInv, ExecTypeOK, NEW t \in Task, NEW n, NEW e,
         ClaimMatches(t, n, e)
  PROVE  effects[t] = 0 /\ ~Past(t)
  <1>1. Exists(t) /\ ~rec[t].committed
    BY DEF ClaimMatches, HasStatus, IndexInv, CommittedNeverWaits
  <1>2. ~Past(t)
    BY <1>1 DEF Past
  <1> QED
    BY <1>2 DEF EffectInv, EffectsArePast, ExecTypeOK, RestTypeOK

\* A step that neither marks nor performs an effect keeps EffectInv.
LEMMA QuietStep ==
  ASSUME IndexInv, EffectInv, ExecTypeOK, RecordStep, Births,
         minted \subseteq minted', effects' = effects, QuietExec
  PROVE  EffectInv'
  <1>1. EffectsArePast' /\ AtMostOnce'
    BY PastKept DEF EffectInv, EffectsArePast, AtMostOnce
  <1>2. EffectIsOwned'
    <2> SUFFICES ASSUME NEW n \in Node, NEW t \in Task,
                        exec'[n][t].pc = "effect"
                 PROVE  /\ effects'[t] = 0 /\ Past(t)'
                        /\ HasStatus(t, {"Running"})' =>
                             AckMatches(t, n, exec[n][t].epoch)'
      BY DEF EffectIsOwned
    <2>1. /\ exec[n][t].pc = "effect" /\ exec'[n][t].epoch = exec[n][t].epoch
          /\ effects[t] = 0 /\ Past(t)
          /\ HasStatus(t, {"Running"}) => AckMatches(t, n, exec[n][t].epoch)
      BY DEF QuietExec, EffectInv, EffectIsOwned
    <2>2. Past(t)' /\ CommitKept(t)
      BY <2>1, PastKept, CommitKeptByStep
    <2>3. ASSUME HasStatus(t, {"Running"})'
          PROVE  AckMatches(t, n, exec[n][t].epoch)'
      <3>1. rec'[t] # NoRec /\ rec'[t].status = "Running"
        BY <2>3 DEF HasStatus, Exists
      <3>2. Exists(t) /\ rec[t].committed
        BY <2>1, <3>1 DEF Births, Past, Exists
      <3>3. /\ rec[t].status = "Running"
            /\ rec'[t].node = rec[t].node /\ rec'[t].epoch = rec[t].epoch
        BY <2>2, <3>1, <3>2 DEF CommitKept, Terminal
      <3> QED
        BY <2>1, <3>1, <3>2, <3>3 DEF AckMatches, HasStatus, Exists
    <2> QED
      BY <2>1, <2>2, <2>3
  <1>3. EffectIsUnique'
    BY DEF EffectInv, EffectIsUnique, QuietExec
  <1>4. MarkableIsFirst'
    <2> SUFFICES ASSUME NEW n \in Node, NEW t \in Task,
                        exec'[n][t].pc \in {"running", "marking"},
                        AckMatches(t, n, exec[n][t].epoch)'
                 PROVE  effects'[t] = 0
      BY DEF MarkableIsFirst
    <2>1. CASE effects[t] = 0
      BY <2>1
    <2>2. CASE /\ exec[n][t].pc \in {"running", "marking"}
               /\ exec'[n][t].epoch = exec[n][t].epoch
      <3> DEFINE e == exec[n][t].epoch
      <3>1. AckMatches(t, n, e)'
        BY <2>2 DEF AckMatches, HasStatus, Exists
      <3>2. AckMatches(t, n, e) \/ ClaimMatches(t, n, e)
        <4> DEFINE f == exec'[n][t].epoch
        <4>1. AckMatches(t, n, f) \/ ClaimMatches(t, n, f)
          <5>1. /\ rec'[t] # NoRec /\ rec'[t].status = "Running"
                /\ rec'[t].node = n /\ rec'[t].epoch = f
            BY DEF AckMatches, HasStatus, Exists
          <5> HIDE DEF f
          <5> QED
            BY <5>1, FenceStep DEF AckMatches, HasStatus, Exists
        <4> QED
          BY <2>2, <4>1
      <3>3. CASE AckMatches(t, n, e)
        BY <2>2, <3>3 DEF EffectInv, MarkableIsFirst
      <3>4. CASE ClaimMatches(t, n, e)
        BY <3>4, AssignedIsBefore
      <3> QED
        BY <3>2, <3>3, <3>4
    <2> QED
      BY <2>1, <2>2 DEF QuietExec
  <1>5. RecordsAreMinted'
    BY DEF EffectInv, RecordsAreMinted, Births, Exists
  <1> QED
    BY <1>1, <1>2, <1>3, <1>4, <1>5 DEF EffectInv

\* Only an enqueue creates a record.
LEMMA NoBirth ==
  ASSUME TypeOK, NEW t \in Task, NEW n, NEW e, NEW a, NEW r, NEW now,
         \/ apply_assign(t, n, e, now)
         \/ apply_claim(t, n, e, now)
         \/ apply_mark_committed(t, n, e, now)
         \/ apply_done(t, n, e, a, now)
         \/ apply_fail(t, n, e, a, r, now)
         \/ apply_requeue(t)
         \/ apply_replay(t, now)
  PROVE  Births
  <1>1. Exists(t)
    BY DEF apply_assign, apply_claim, apply_mark_committed, apply_done,
           apply_fail, apply_requeue, apply_replay, Replayable, ClaimMatches,
           AckMatches, HasStatus
  <1>2. \A u \in Task : u # t => rec'[u] = rec[u]
    BY DEF apply_assign, apply_claim, apply_mark_committed, apply_done,
           apply_fail, apply_requeue, apply_replay, TypeOK
  <1> QED
    BY <1>1, <1>2 DEF Births, Exists

\* No worker command creates a record.
LEMMA ApplyBirths ==
  ASSUME TypeOK, NEW c \in Command, Apply(c) PROVE Births
  <1>1. c.task \in Task
    BY DEF Command
  <1>2. PICK now \in Time :
          \/ apply_claim(c.task, c.node, c.epoch, now)
          \/ apply_mark_committed(c.task, c.node, c.epoch, now)
          \/ apply_done(c.task, c.node, c.epoch, c.attempts, now)
          \/ \E r \in RetryAt(c.attempts) :
               apply_fail(c.task, c.node, c.epoch, c.attempts, r, now)
    BY DEF Apply
  <1> QED
    BY <1>1, <1>2, NoBirth

\* Clients, operators and the scheduler keep EffectInv.
LEMMA TaskActionsEffect ==
  ASSUME ExecTypeOK, IndexInv, EffectInv, RecordStep, NEW t \in Task,
         Enqueue(t) \/ Replay(t) \/ SchedulerStep(t) \/ RequeueEarly(t)
  PROVE  EffectInv'
  <1>1. exec' = exec /\ effects' = effects /\ minted \subseteq minted'
    BY DEF Enqueue, Replay, SchedulerStep, Assign, RequeueInactive,
           RequeueStuck, RequeueEarly, execVars
  <1>2. QuietExec
    BY <1>1 DEF QuietExec
  <1>3. Births
    <2>1. CASE Enqueue(t)
      <3>1. \A u \in Task : u # t => rec'[u] = rec[u]
        BY <2>1 DEF Enqueue, apply_enqueue, taskVars, IndexInv, TypeOK
      <3>2. t \in minted' \ minted
        BY <2>1 DEF Enqueue
      <3> QED
        BY <3>1, <3>2 DEF Births, Exists
    <2>2. CASE Replay(t)
      BY <2>2, NoBirth DEF Replay, IndexInv
    <2>3. CASE RequeueEarly(t) \/ RequeueInactive(t) \/ RequeueStuck(t)
      BY <2>3, NoBirth DEF RequeueEarly, RequeueInactive, RequeueStuck, IndexInv
    <2>4. ASSUME NEW n \in Node, Assign(t, n) PROVE Births
      BY <2>4, NoBirth DEF Assign, IndexInv
    <2> QED
      BY <2>1, <2>2, <2>3, <2>4 DEF SchedulerStep
  <1> QED
    BY <1>1, <1>2, <1>3, QuietStep

\* No record is born while the replicated state stands still.
LEMMA StillBirths ==
  ASSUME rec' = rec PROVE Births
  BY DEF Births, Exists

\* The actions of one worker process keep EffectInv.
LEMMA NodeActionsEffect ==
  ASSUME ExecTypeOK, IndexInv, EffectInv, RecordStep, NEW n \in Node,
         \/ Drain(n) \/ RenewLease(n) \/ ExpireLease(n)
         \/ SuspectWorker(n) \/ Crash(n) \/ Restart(n)
  PROVE  EffectInv'
  <1>1. effects' = effects /\ minted' = minted /\ rec' = rec
    BY DEF Drain, RenewLease, ExpireLease, SuspectWorker, Crash, Restart,
           taskVars, apply_worker_lease
  <1>2. QuietExec
    BY NodeActionsTyped DEF QuietExec, IndexInv
  <1> QED
    BY <1>1, <1>2, StillBirths, QuietStep

\* The accepted mark: the one step that leads to an effect.
LEMMA MarkEffect ==
  ASSUME ExecTypeOK, IndexInv, EffectInv, RecordStep,
         NEW n \in Node, NEW t \in Task, MarkAccepted(n, t)
  PROVE  EffectInv'
  <1> DEFINE e == exec[n][t].epoch
  <1>1. /\ exec[n][t].pc = "marking" /\ exec[n][t] \in Slot
        /\ exec \in [Node -> [Task -> Slot]]
        /\ effects' = effects /\ minted' = minted
    BY DEF MarkAccepted, ExecTypeOK, SlotsTypeOK
  <1>2. PICK now \in Time : apply_mark_committed(t, n, e, now)
    <2>1. /\ CommandOf(n, t).op = "mark" /\ CommandOf(n, t).task = t
          /\ CommandOf(n, t).node = n /\ CommandOf(n, t).epoch = e
      BY <1>1, CommandTyped DEF Submitting
    <2> QED
      BY <2>1 DEF MarkAccepted, Apply
  <1>3. AckMatches(t, n, e) /\ Exists(t) /\ rec[t] \in TaskRecord
    BY <1>2, Filed DEF apply_mark_committed, AckMatches, HasStatus
  <1>4. effects[t] = 0
    BY <1>1, <1>3 DEF EffectInv, MarkableIsFirst
  <1>5. /\ rec'[t] # NoRec /\ rec'[t].committed /\ rec'[t].status = "Running"
        /\ rec'[t].node = n /\ rec'[t].epoch = e
        /\ \A u \in Task : u # t => rec'[u] = rec[u]
    <2>1. CASE rec[t].committed
      BY <1>2, <1>3, <2>1 DEF apply_mark_committed, AckMatches, HasStatus, Exists
    <2>2. CASE ~rec[t].committed
      <3> DEFINE r == [rec[t] EXCEPT !.committed = TRUE, !.updated_at = now]
      <3>1. /\ r \in TaskRecord /\ r.committed /\ r.status = rec[t].status
            /\ r.node = rec[t].node /\ r.epoch = rec[t].epoch
        BY <1>3 DEF TaskRecord
      <3>2. rec' = [rec EXCEPT ![t] = r]
        BY <1>2, <2>2 DEF apply_mark_committed
      <3> HIDE DEF r
      <3>3. rec'[t] = r /\ \A u \in Task : u # t => rec'[u] = rec[u]
        BY <3>2 DEF IndexInv, TypeOK
      <3> QED
        BY <1>3, <3>1, <3>3, TaskQueueAssumption DEF AckMatches, HasStatus
    <2> QED
      BY <2>1, <2>2
  <1>6. \A m \in Node, u \in Task :
          /\ (m # n \/ u # t) => exec'[m][u] = exec[m][u]
          /\ exec'[n][t].pc = "effect" /\ exec'[n][t].epoch = e
    <2> DEFINE y == [exec[n][t] EXCEPT !.pc = "effect"]
    <2>1. exec' = [exec EXCEPT ![n][t] = y]
      BY <1>1 DEF MarkAccepted, Goto
    <2>2. y.pc = "effect" /\ y.epoch = e
      BY <1>1 DEF Slot
    <2> HIDE DEF y
    <2> QED
      BY <1>1, <2>1, <2>2
  <1>7. \A m \in Node : exec[m][t].pc = "effect" => m = n
    BY <1>3 DEF EffectInv, EffectIsOwned, AckMatches
  <1>8. Births
    BY <1>3, <1>5 DEF Births, Exists
  <1>9. EffectsArePast' /\ AtMostOnce'
    BY <1>1, <1>8, PastKept DEF EffectInv, EffectsArePast, AtMostOnce
  <1>10. Past(t)'
    BY <1>1, <1>3, <1>5 DEF Past, Exists, EffectInv, RecordsAreMinted
  <1>11. EffectIsOwned'
    <2> SUFFICES ASSUME NEW m \in Node, NEW u \in Task,
                        exec'[m][u].pc = "effect"
                 PROVE  /\ effects'[u] = 0 /\ Past(u)'
                        /\ HasStatus(u, {"Running"})' =>
                             AckMatches(u, m, exec[m][u].epoch)'
      BY DEF EffectIsOwned
    <2>1. CASE u = t
      <3>1. m = n
        BY <1>6, <1>7, <2>1
      <3> QED
        BY <1>1, <1>4, <1>5, <1>6, <1>10, <2>1, <3>1
        DEF AckMatches, HasStatus, Exists
    <2>2. CASE u # t
      <3>1. exec'[m][u] = exec[m][u] /\ rec'[u] = rec[u]
        BY <1>5, <1>6, <2>2
      <3>2. /\ effects[u] = 0 /\ Past(u)
            /\ HasStatus(u, {"Running"}) => AckMatches(u, m, exec[m][u].epoch)
        BY <3>1 DEF EffectInv, EffectIsOwned
      <3> QED
        BY <1>1, <3>1, <3>2 DEF Past, AckMatches, HasStatus, Exists
    <2> QED
      BY <2>1, <2>2
  <1>12. EffectIsUnique'
    BY <1>6, <1>7 DEF EffectInv, EffectIsUnique
  <1>13. MarkableIsFirst'
    <2> SUFFICES ASSUME NEW m \in Node, NEW u \in Task,
                        exec'[m][u].pc \in {"running", "marking"},
                        AckMatches(u, m, exec[m][u].epoch)'
                 PROVE  effects'[u] = 0
      BY DEF MarkableIsFirst
    <2>1. CASE u = t
      BY <1>1, <1>4, <2>1
    <2>2. CASE u # t
      BY <1>1, <1>5, <1>6, <2>2
      DEF EffectInv, MarkableIsFirst, AckMatches, HasStatus, Exists
    <2> QED
      BY <2>1, <2>2
  <1>14. RecordsAreMinted'
    BY <1>1, <1>8 DEF EffectInv, RecordsAreMinted, Births, Exists
  <1> QED
    BY <1>9, <1>11, <1>12, <1>13, <1>14 DEF EffectInv

\* The effect itself.
LEMMA PerformKeepsInv ==
  ASSUME ExecTypeOK, EffectInv, NEW n \in Node, NEW t \in Task,
         PerformEffect(n, t)
  PROVE  EffectInv'
  <1>1. /\ exec[n][t].pc = "effect" /\ exec[n][t] \in Slot
        /\ exec \in [Node -> [Task -> Slot]] /\ effects \in [Task -> Nat]
        /\ rec' = rec /\ minted' = minted
        /\ effects' = [effects EXCEPT ![t] = @ + 1]
    BY DEF PerformEffect, ExecTypeOK, SlotsTypeOK, RestTypeOK, taskVars
  <1>2. PICK ok \in BOOLEAN : Outcome(n, t, ok)
    BY DEF PerformEffect
  <1>3. \A m \in Node, u \in Task :
          /\ (m # n \/ u # t) => exec'[m][u] = exec[m][u]
          /\ exec'[n][t].pc = "acking"
    <2> DEFINE y == [exec[n][t] EXCEPT !.pc = "acking", !.ok = ok]
    <2>1. exec' = [exec EXCEPT ![n][t] = y]
      BY <1>1, <1>2 DEF Outcome
    <2>2. y.pc = "acking"
      BY <1>1 DEF Slot
    <2> HIDE DEF y
    <2> QED
      BY <1>1, <2>1, <2>2
  <1>4. /\ effects[t] = 0 /\ effects'[t] = 1 /\ Past(t)
        /\ \A u \in Task : u # t => effects'[u] = effects[u]
        /\ HasStatus(t, {"Running"}) => AckMatches(t, n, exec[n][t].epoch)
    BY <1>1 DEF EffectInv, EffectIsOwned
  <1>5. \A u \in Task : Past(u)' <=> Past(u)
    BY <1>1 DEF Past, Exists
  <1>6. EffectsArePast' /\ AtMostOnce'
    BY <1>4, <1>5 DEF EffectInv, EffectsArePast, AtMostOnce
  <1>7. EffectIsOwned'
    <2> SUFFICES ASSUME NEW m \in Node, NEW u \in Task,
                        exec'[m][u].pc = "effect"
                 PROVE  /\ effects'[u] = 0 /\ Past(u)'
                        /\ HasStatus(u, {"Running"})' =>
                             AckMatches(u, m, exec[m][u].epoch)'
      BY DEF EffectIsOwned
    <2>1. u # t /\ exec'[m][u] = exec[m][u]
      BY <1>1, <1>3 DEF EffectInv, EffectIsUnique
    <2> QED
      BY <1>1, <1>4, <1>5, <2>1
      DEF EffectInv, EffectIsOwned, AckMatches, HasStatus, Exists
  <1>8. EffectIsUnique'
    BY <1>3 DEF EffectInv, EffectIsUnique
  <1>9. MarkableIsFirst'
    <2> SUFFICES ASSUME NEW m \in Node, NEW u \in Task,
                        exec'[m][u].pc \in {"running", "marking"},
                        AckMatches(u, m, exec[m][u].epoch)'
                 PROVE  effects'[u] = 0
      BY DEF MarkableIsFirst
    <2>1. exec'[m][u] = exec[m][u] /\ AckMatches(u, m, exec[m][u].epoch)
      BY <1>1, <1>3 DEF AckMatches, HasStatus, Exists
    <2>2. u # t
      BY <1>3, <1>4, <2>1 DEF AckMatches, HasStatus
    <2> QED
      BY <1>4, <2>1, <2>2 DEF EffectInv, MarkableIsFirst
  <1>10. RecordsAreMinted'
    BY <1>1 DEF EffectInv, RecordsAreMinted, Exists
  <1> QED
    BY <1>6, <1>7, <1>8, <1>9, <1>10 DEF EffectInv

\* Every other step of one execution is quiet.
LEMMA QuietMoves ==
  ASSUME ExecTypeOK, NEW n \in Node, NEW t \in Task,
         AcquirePermit(n, t) \/ ExecutionStep(n, t) \/ GiveUp(n, t),
         ~ClaimAccepted(n, t), ~MarkAccepted(n, t), ~PerformEffect(n, t)
  PROVE  QuietExec
  <1>1. exec[n][t] \in Slot /\ exec \in [Node -> [Task -> Slot]]
    BY DEF ExecTypeOK, SlotsTypeOK
  <1>2. PICK y :
          /\ exec' = [exec EXCEPT ![n][t] = y]
          /\ \/ y.pc = "claiming"
             \/ /\ exec[n][t].pc = "running" /\ y.pc = "marking"
                /\ y.epoch = exec[n][t].epoch
             \/ y.pc = "acking"
             \/ y.pc = "idle"
    <2>1. CASE AcquirePermit(n, t)
      <3> DEFINE z == [exec[n][t] EXCEPT !.pc = "claiming"]
      <3>1. exec' = [exec EXCEPT ![n][t] = z]
        BY <1>1, <2>1 DEF AcquirePermit, Goto
      <3>2. z.pc = "claiming"
        BY <1>1 DEF Slot
      <3> QED
        BY <3>1, <3>2
    <2>2. CASE mark_committed(n, t)
      <3> DEFINE z == [exec[n][t] EXCEPT !.pc = "marking"]
      <3>1. exec' = [exec EXCEPT ![n][t] = z] /\ exec[n][t].pc = "running"
        BY <1>1, <2>2 DEF mark_committed, Goto
      <3>2. z.pc = "marking" /\ z.epoch = exec[n][t].epoch
        BY <1>1 DEF Slot
      <3> QED
        BY <3>1, <3>2
    <2>3. ASSUME NEW ok \in BOOLEAN, Outcome(n, t, ok)
          PROVE  \E z : exec' = [exec EXCEPT ![n][t] = z] /\ z.pc = "acking"
      <3> DEFINE z == [exec[n][t] EXCEPT !.pc = "acking", !.ok = ok]
      <3>1. exec' = [exec EXCEPT ![n][t] = z]
        BY <1>1, <2>3 DEF Outcome
      <3>2. z.pc = "acking"
        BY <1>1 DEF Slot
      <3> QED
        BY <3>1, <3>2
    <2>4. CASE \/ HandlerFails(n, t) \/ HandlerCompletes(n, t)
               \/ MarkRejected(n, t) \/ TimeOut(n, t)
      BY <2>3, <2>4
      DEF HandlerFails, HandlerCompletes, MarkRejected, TimeOut
    <2>5. CASE ClaimRejected(n, t) \/ AckAccepted(n, t) \/ AckRejected(n, t)
      BY <2>5, IdleIsSlot DEF ClaimRejected, AckAccepted, AckRejected, Finish
    <2>6. CASE GiveUp(n, t)
      BY <2>3, <2>6, IdleIsSlot DEF GiveUp, Finish
    <2> QED
      BY <2>1, <2>2, <2>4, <2>5, <2>6 DEF ExecutionStep
  <1>3. \A m \in Node, u \in Task :
          exec'[m][u] = IF m = n /\ u = t THEN y ELSE exec[m][u]
    BY <1>1, <1>2
  <1> QED
    BY <1>2, <1>3 DEF QuietExec

\* The actions of one execution keep EffectInv.
LEMMA SlotActionsEffect ==
  ASSUME ExecTypeOK, IndexInv, EffectInv, RecordStep,
         NEW n \in Node, NEW t \in Task,
         \/ WakeUp(n, t) \/ LoseWake(n, t) \/ AcquirePermit(n, t)
         \/ ExecutionStep(n, t) \/ GiveUp(n, t) \/ Duplicate(n, t)
  PROVE  EffectInv'
  <1>1. CASE WakeUp(n, t)
    <2>1. PICK e \in Epoch :
            IF n \in up THEN Spawn(n, [x \in {t} |-> e]) ELSE UNCHANGED exec
      BY <1>1 DEF WakeUp
    <2>2. \A u \in DOMAIN [x \in {t} |-> e] : [x \in {t} |-> e][u] \in Epoch
      OBVIOUS
    <2>3. \A m \in Node, u \in Task :
            exec'[m][u] = exec[m][u] \/ exec'[m][u].pc = "waiting"
      BY <2>1, <2>2, Spawned
    <2>4. QuietExec
      BY <2>3 DEF QuietExec
    <2> QED
      BY <1>1, <2>4, StillBirths, QuietStep DEF WakeUp, taskVars
  <1>2. CASE LoseWake(n, t) \/ Duplicate(n, t)
    <2>1. QuietExec
      BY <1>2 DEF LoseWake, Duplicate, QuietExec
    <2> QED
      BY <1>2, <2>1, StillBirths, QuietStep DEF LoseWake, Duplicate, taskVars
  <1>3. CASE ClaimAccepted(n, t)
    <2>1. QuietExec
      BY <1>3, ClaimTyped, AssignedIsBefore DEF QuietExec
    <2>2. Births
      <3>1. exec[n][t].pc \in Submitting /\ Apply(CommandOf(n, t))
        BY <1>3 DEF ClaimAccepted, Submitting
      <3> QED
        BY <3>1, CommandTyped, ApplyBirths DEF IndexInv
    <2> QED
      BY <1>3, <2>1, <2>2, QuietStep DEF ClaimAccepted
  <1>4. CASE MarkAccepted(n, t)
    BY <1>4, MarkEffect
  <1>5. CASE PerformEffect(n, t)
    BY <1>5, PerformKeepsInv
  <1>6. CASE /\ AcquirePermit(n, t) \/ ExecutionStep(n, t) \/ GiveUp(n, t)
             /\ ~ClaimAccepted(n, t) /\ ~MarkAccepted(n, t)
             /\ ~PerformEffect(n, t)
    <2>1. QuietExec
      BY <1>6, QuietMoves
    <2>2. effects' = effects /\ minted' = minted
      BY <1>6 DEF AcquirePermit, ExecutionStep, GiveUp, ClaimRejected,
         HandlerFails, HandlerCompletes, mark_committed, MarkRejected, TimeOut,
         AckAccepted, AckRejected
    <2>3. Births
      <3>1. CASE AckAccepted(n, t)
        <4>1. exec[n][t].pc \in Submitting /\ Apply(CommandOf(n, t))
          BY <3>1 DEF AckAccepted, Submitting
        <4> QED
          BY <4>1, CommandTyped, ApplyBirths DEF IndexInv
      <3>2. CASE ~AckAccepted(n, t)
        <4>1. rec' = rec
          BY <1>6, <3>2 DEF AcquirePermit, ExecutionStep, GiveUp,
             ClaimRejected, HandlerFails, HandlerCompletes, mark_committed,
             MarkRejected, TimeOut, AckRejected, taskVars
        <4> QED
          BY <4>1, StillBirths
      <3> QED
        BY <3>1, <3>2
    <2> QED
      BY <2>1, <2>2, <2>3, QuietStep
  <1> QED
    BY <1>1, <1>2, <1>3, <1>4, <1>5, <1>6

\* Every step of scheduler, workers and clients keeps EffectInv.
LEMMA EffectStep ==
  ASSUME ExecTypeOK, IndexInv, EffectInv, [ExecNext]_vars PROVE EffectInv'
  <1>1. RecordStep
    BY LogStep, RecordSteps
  <1>2. ASSUME exec' = exec, effects' = effects, minted' = minted, Births
        PROVE  EffectInv'
    <2>1. QuietExec
      BY <1>2 DEF QuietExec
    <2> QED
      BY <1>1, <1>2, <2>1, QuietStep
  <1>3. CASE UNCHANGED vars
    BY <1>2, <1>3, StillBirths DEF vars, taskVars, execVars
  <1>4. CASE Vacuum
    <2>1. Births
      BY <1>4 DEF Vacuum, apply_vacuum, Births, Exists
    <2> QED
      BY <1>2, <1>4, <2>1 DEF Vacuum, execVars
  <1>5. ASSUME NEW c \in ghosts, ApplyGhost(c) PROVE EffectInv'
    <2>1. c \in Command
      BY DEF ExecTypeOK, RestTypeOK
    <2>2. Births
      BY <1>5, <2>1, ApplyBirths, StillBirths DEF ApplyGhost, IndexInv, taskVars
    <2> QED
      BY <1>2, <1>5, <2>2 DEF ApplyGhost
  <1> QED
    BY <1>1, <1>3, <1>4, <1>5, TaskActionsEffect, NodeActionsEffect,
       SlotActionsEffect DEF ExecNext

\* EffectInv holds initially: no effect has happened.
LEMMA EffectInit == ExecInit => EffectInv
  <1> SUFFICES ASSUME ExecInit PROVE EffectInv
    OBVIOUS
  <1>1. \A n \in Node, t \in Task : exec[n][t].pc = "idle"
    BY IdleIsSlot DEF ExecInit
  <1>2. \A t \in Task : effects[t] = 0 /\ rec[t] = NoRec
    BY DEF ExecInit, Init
  <1> QED
    BY <1>1, <1>2 DEF EffectInv, EffectsArePast, EffectIsOwned, EffectIsUnique,
       MarkableIsFirst, RecordsAreMinted, AtMostOnce, Exists

\* The inductive invariant behind the commit mark: effects belong to tasks past
\* their commit point, the execution about to perform one is the first, is
\* alone and owns the record while it runs.
THEOREM EffectInvariant == ExecSpec => []EffectInv
  <1>1. ExecTypeOK /\ IndexInv /\ EffectInv /\ [ExecNext]_vars => EffectInv'
    BY EffectStep
  <1> QED
    BY ExecInvariant, EffectInit, <1>1, PTL DEF ExecSpec

\* The irreversible effect of a task happens at most once, for any number of
\* workers, crashes, duplicated or late commands and premature requeues.
THEOREM EffectsAtMostOnce == ExecSpec => []AtMostOnce
  <1>1. EffectInv => AtMostOnce
    BY DEF EffectInv
  <1> QED
    BY EffectInvariant, <1>1, PTL

-----------------------------------------------------------------------------
(* A task that is done was performed                                       *)

\* What a step may do to the three places where success is claimed.
EffectsStay == \A t \in Irreversible : effects[t] > 0 => effects'[t] > 0

AcksEarned ==
  \A n \in Node, t \in Irreversible :
    exec'[n][t].pc = "acking" /\ exec'[n][t].ok =>
      (exec[n][t].pc = "acking" /\ exec[n][t].ok) \/ effects'[t] > 0

GhostsEarned ==
  \A c \in ghosts' : c.op = "done" /\ c.task \in Irreversible =>
    c \in ghosts \/ effects[c.task] > 0

DoneEarned ==
  \A t \in Irreversible : rec'[t] # NoRec /\ rec'[t].status = "Done" =>
    HasStatus(t, {"Done"}) \/ effects[t] > 0

LEMMA EarnedStep ==
  ASSUME SuccessIsEarned, EffectsStay, AcksEarned, GhostsEarned, DoneEarned
  PROVE  SuccessIsEarned'
  <1> SUFFICES ASSUME NEW t \in Irreversible
               PROVE  /\ \A n \in Node :
                           exec'[n][t].pc = "acking" /\ exec'[n][t].ok => effects'[t] > 0
                      /\ \A c \in ghosts' : c.task = t /\ c.op = "done" => effects'[t] > 0
                      /\ rec'[t] # NoRec /\ rec'[t].status \in {"Done"} => effects'[t] > 0
    BY DEF SuccessIsEarned, HasStatus, Exists
  <1>1. \A n \in Node : exec'[n][t].pc = "acking" /\ exec'[n][t].ok => effects'[t] > 0
    BY DEF SuccessIsEarned, EffectsStay, AcksEarned
  <1>2. \A c \in ghosts' : c.task = t /\ c.op = "done" => effects'[t] > 0
    BY DEF SuccessIsEarned, EffectsStay, GhostsEarned
  <1>3. rec'[t] # NoRec /\ rec'[t].status \in {"Done"} => effects'[t] > 0
    BY DEF SuccessIsEarned, EffectsStay, DoneEarned
  <1> QED
    BY <1>1, <1>2, <1>3

\* Only a "done" command makes a task done.
LEMMA DoneByCommand ==
  ASSUME TypeOK, NEW c \in Command, Apply(c), NEW u \in Task,
         rec'[u] # NoRec, rec'[u].status = "Done"
  PROVE  HasStatus(u, {"Done"}) \/ (c.op = "done" /\ c.task = u)
  <1>1. c.task \in Task /\ rec \in [Task -> TaskRecord \cup {NoRec}]
    BY DEF Command, TypeOK
  <1>2. PICK now \in Time :
          \/ c.op = "claim" /\ apply_claim(c.task, c.node, c.epoch, now)
          \/ c.op = "mark" /\ apply_mark_committed(c.task, c.node, c.epoch, now)
          \/ c.op = "done" /\ apply_done(c.task, c.node, c.epoch, c.attempts, now)
          \/ c.op = "fail" /\ \E r \in RetryAt(c.attempts) :
               apply_fail(c.task, c.node, c.epoch, c.attempts, r, now)
    BY DEF Apply
  <1>3. rec[c.task] \in TaskRecord /\ rec[c.task] # NoRec
    BY <1>1, <1>2, TaskQueueAssumption
    DEF apply_claim, apply_mark_committed, apply_done, apply_fail, ClaimMatches,
        AckMatches, HasStatus, Exists
  <1>4. CASE u # c.task
    <2>1. rec'[u] = rec[u]
      BY <1>1, <1>2, <1>4
      DEF apply_claim, apply_mark_committed, apply_done, apply_fail
    <2> QED
      BY <2>1 DEF HasStatus, Exists
  <1>5. CASE u = c.task
    <2>1. ASSUME apply_claim(u, c.node, c.epoch, now) PROVE FALSE
      BY <1>1, <1>3, <1>5, <2>1 DEF apply_claim, TaskRecord
    <2>2. ASSUME apply_mark_committed(u, c.node, c.epoch, now) PROVE FALSE
      <3>1. rec[u].status = "Running"
        BY <2>2 DEF apply_mark_committed, AckMatches, HasStatus
      <3> QED
        BY <1>1, <1>3, <1>5, <2>2, <3>1 DEF apply_mark_committed, TaskRecord
    <2>3. ASSUME NEW r, apply_fail(u, c.node, c.epoch, c.attempts, r, now) PROVE FALSE
      <3> DEFINE x == [rec[u] EXCEPT !.attempts = c.attempts, !.node = NoNode,
                                     !.epoch = NoEpoch, !.updated_at = now]
      <3>1. \/ rec'[u] = [x EXCEPT !.status = "Queued", !.run_at = r]
            \/ rec'[u] = [x EXCEPT !.status = "Failed", !.completed_at = now]
        BY <1>1, <2>3 DEF apply_fail
      <3>2. rec'[u].status \in {"Queued", "Failed"}
        BY <1>3, <1>5, <3>1 DEF TaskRecord
      <3> QED
        BY <3>2
    <2> QED
      BY <1>2, <1>5, <2>1, <2>2, <2>3
  <1> QED
    BY <1>4, <1>5

\* No client, operator or scheduler command makes a task done.
LEMMA NotDoneByOthers ==
  ASSUME TypeOK, NEW u \in Task, rec'[u] # NoRec, rec'[u].status = "Done",
         NEW t \in Task,
         \/ \E runAt, k, now : apply_enqueue(t, runAt, k, now)
         \/ \E n, e, now : apply_assign(t, n, e, now)
         \/ apply_requeue(t)
         \/ \E now : apply_replay(t, now)
  PROVE  HasStatus(u, {"Done"})
  <1>1. rec \in [Task -> TaskRecord \cup {NoRec}]
    BY DEF TypeOK
  <1>2. CASE u # t
    <2>1. rec'[u] = rec[u]
      BY <1>1, <1>2 DEF apply_enqueue, apply_assign, apply_requeue, apply_replay
    <2> QED
      BY <2>1 DEF HasStatus, Exists
  <1>3. CASE u = t
    <2>1. ASSUME NEW runAt, NEW k, NEW now, apply_enqueue(u, runAt, k, now) PROVE FALSE
      BY <1>1, <2>1 DEF apply_enqueue
    <2>2. ASSUME NEW n, NEW e, NEW now, apply_assign(u, n, e, now) PROVE FALSE
      <3>1. rec[u] \in TaskRecord
        BY <1>1, <2>2 DEF apply_assign, HasStatus, Exists
      <3> QED
        BY <1>1, <2>2, <3>1 DEF apply_assign, TaskRecord
    <2>3. ASSUME apply_requeue(u) PROVE FALSE
      <3> DEFINE x == [rec[u] EXCEPT !.node = NoNode, !.epoch = NoEpoch]
      <3>1. rec[u] \in TaskRecord
        BY <1>1, <2>3 DEF apply_requeue, HasStatus, Exists
      <3>2. \/ \E z : rec'[u] = [x EXCEPT !.status = "Failed", !.completed_at = z]
            \/ rec'[u] = [x EXCEPT !.status = "Queued"]
        BY <1>1, <2>3 DEF apply_requeue
      <3>3. rec'[u].status \in {"Queued", "Failed"}
        BY <3>1, <3>2 DEF TaskRecord
      <3> QED
        BY <3>3
    <2>4. ASSUME NEW now, apply_replay(u, now) PROVE FALSE
      <3>1. rec[u] \in TaskRecord
        BY <1>1, <2>4 DEF apply_replay, Replayable, HasStatus, Exists
      <3> QED
        BY <1>1, <2>4, <3>1 DEF apply_replay, TaskRecord
    <2> QED
      BY <1>3, <2>1, <2>2, <2>3, <2>4
  <1> QED
    BY <1>2, <1>3

LEMMA StillDone == ASSUME rec' = rec PROVE DoneEarned
  BY DEF DoneEarned, HasStatus, Exists

\* A command in flight claims success only for what was performed.
LEMMA SubmittedIsEarned ==
  ASSUME ExecTypeOK, SuccessIsEarned, NEW n \in Node, NEW t \in Task,
         exec[n][t].pc \in Submitting, CommandOf(n, t).op = "done", t \in Irreversible
  PROVE  effects[t] > 0
  <1>1. exec[n][t].pc = "acking" /\ exec[n][t].ok
    BY DEF CommandOf, Submitting
  <1> QED
    BY <1>1 DEF SuccessIsEarned

LEMMA AppliedIsEarned ==
  ASSUME ExecTypeOK, TypeOK, SuccessIsEarned, NEW n \in Node, NEW t \in Task,
         exec[n][t].pc \in Submitting, Apply(CommandOf(n, t))
  PROVE  DoneEarned
  <1> SUFFICES ASSUME NEW u \in Irreversible, rec'[u] # NoRec, rec'[u].status = "Done"
               PROVE  HasStatus(u, {"Done"}) \/ effects[u] > 0
    BY DEF DoneEarned
  <1>1. u \in Task /\ CommandOf(n, t) \in Command /\ CommandOf(n, t).task = t
    BY CommandTyped, TaskExecutionAssumption
  <1>2. HasStatus(u, {"Done"}) \/ (CommandOf(n, t).op = "done" /\ t = u)
    BY <1>1, DoneByCommand
  <1> QED
    BY <1>2, SubmittedIsEarned

\* One execution moves: it claims success only by performing its effect.
LEMMA MovesEarned ==
  ASSUME ExecTypeOK, NEW n \in Node, NEW t \in Task,
         AcquirePermit(n, t) \/ ExecutionStep(n, t) \/ GiveUp(n, t),
         ~ClaimAccepted(n, t)
  PROVE  AcksEarned /\ EffectsStay
  <1>1. /\ exec[n][t] \in Slot /\ exec \in [Node -> [Task -> Slot]]
        /\ effects \in [Task -> Nat] /\ Irreversible \subseteq Task
    BY TaskExecutionAssumption DEF ExecTypeOK, SlotsTypeOK, RestTypeOK
  <1>2. /\ \A u \in Task : u # t => effects'[u] = effects[u]
        /\ effects'[t] = effects[t] \/ (effects'[t] = effects[t] + 1 /\ PerformEffect(n, t))
    BY <1>1 DEF AcquirePermit, ExecutionStep, GiveUp, ClaimRejected, HandlerFails,
       HandlerCompletes, mark_committed, MarkAccepted, MarkRejected, PerformEffect, TimeOut,
       AckAccepted, AckRejected
  <1>3. EffectsStay
    BY <1>1, <1>2 DEF EffectsStay
  <1>4. PICK y :
          /\ exec' = [exec EXCEPT ![n][t] = y]
          /\ \/ y.pc # "acking"
             \/ y.pc = "acking" /\ y.ok = FALSE
             \/ HandlerCompletes(n, t) \/ PerformEffect(n, t)
    <2>1. ASSUME NEW pc, pc # "acking", Goto(n, t, pc)
          PROVE  \E z : exec' = [exec EXCEPT ![n][t] = z] /\ z.pc # "acking"
      <3> DEFINE z == [exec[n][t] EXCEPT !.pc = pc]
      <3>1. exec' = [exec EXCEPT ![n][t] = z] /\ z.pc = pc
        BY <1>1, <2>1 DEF Goto, Slot
      <3> QED
        BY <2>1, <3>1
    <2>2. ASSUME NEW ok, Outcome(n, t, ok)
          PROVE  \E z : exec' = [exec EXCEPT ![n][t] = z] /\ z.pc = "acking" /\ z.ok = ok
      <3> DEFINE z == [exec[n][t] EXCEPT !.pc = "acking", !.ok = ok]
      <3>1. exec' = [exec EXCEPT ![n][t] = z] /\ z.pc = "acking" /\ z.ok = ok
        BY <1>1, <2>2 DEF Outcome, Slot
      <3> QED
        BY <3>1
    <2>3. CASE Finish(n, t)
      BY <2>3, IdleIsSlot DEF Finish
    <2>4. CASE AcquirePermit(n, t) \/ mark_committed(n, t) \/ MarkAccepted(n, t)
      BY <2>1, <2>4 DEF AcquirePermit, mark_committed, MarkAccepted
    <2>5. CASE HandlerFails(n, t) \/ MarkRejected(n, t) \/ TimeOut(n, t)
      BY <2>2, <2>5 DEF HandlerFails, MarkRejected, TimeOut
    <2>6. CASE HandlerCompletes(n, t) \/ PerformEffect(n, t)
      BY <2>2, <2>6 DEF HandlerCompletes, PerformEffect
    <2>7. CASE ClaimRejected(n, t) \/ AckAccepted(n, t) \/ AckRejected(n, t)
      BY <2>3, <2>7 DEF ClaimRejected, AckAccepted, AckRejected
    <2>8. CASE GiveUp(n, t)
      BY <2>2, <2>3, <2>8 DEF GiveUp
    <2> QED
      BY <2>4, <2>5, <2>6, <2>7, <2>8 DEF ExecutionStep
  <1>5. \A m \in Node, u \in Task :
          exec'[m][u] = IF m = n /\ u = t THEN y ELSE exec[m][u]
    BY <1>1, <1>4
  <1>6. HandlerCompletes(n, t) => t \notin Irreversible
    BY DEF HandlerCompletes
  <1>7. PerformEffect(n, t) => effects'[t] > 0
    BY <1>1 DEF PerformEffect
  <1>8. AcksEarned
    BY <1>1, <1>4, <1>5, <1>6, <1>7 DEF AcksEarned
  <1> QED
    BY <1>3, <1>8

LEMMA SlotActionsEarned ==
  ASSUME ExecTypeOK, IndexInv, SuccessIsEarned, NEW n \in Node, NEW t \in Task,
         \/ WakeUp(n, t) \/ LoseWake(n, t) \/ AcquirePermit(n, t)
         \/ ExecutionStep(n, t) \/ GiveUp(n, t) \/ Duplicate(n, t)
  PROVE  SuccessIsEarned'
  <1>1. Irreversible \subseteq Task /\ TypeOK
    BY TaskExecutionAssumption DEF IndexInv
  <1>2. CASE WakeUp(n, t)
    <2>1. PICK e \in Epoch :
            IF n \in up THEN Spawn(n, [x \in {t} |-> e]) ELSE UNCHANGED exec
      BY <1>2 DEF WakeUp
    <2>2. \A u \in DOMAIN [x \in {t} |-> e] : [x \in {t} |-> e][u] \in Epoch
      OBVIOUS
    <2>3. \A m \in Node, u \in Task :
            exec'[m][u] = exec[m][u] \/ exec'[m][u].pc = "waiting"
      BY <2>1, <2>2, Spawned
    <2>4. AcksEarned
      BY <1>1, <2>3 DEF AcksEarned
    <2>5. EffectsStay /\ GhostsEarned /\ DoneEarned
      BY <1>2, StillDone DEF WakeUp, taskVars, EffectsStay, GhostsEarned
    <2> QED
      BY <2>4, <2>5, EarnedStep
  <1>3. CASE LoseWake(n, t)
    <2>1. EffectsStay /\ AcksEarned /\ GhostsEarned /\ DoneEarned
      BY <1>3, StillDone DEF LoseWake, taskVars, EffectsStay, GhostsEarned, AcksEarned
    <2> QED
      BY <2>1, EarnedStep
  <1>4. CASE Duplicate(n, t)
    <2>1. EffectsStay /\ AcksEarned /\ DoneEarned
      BY <1>4, StillDone DEF Duplicate, taskVars, EffectsStay, AcksEarned
    <2>2. GhostsEarned
      BY <1>4, SubmittedIsEarned, CommandTyped DEF Duplicate, GhostsEarned
    <2> QED
      BY <2>1, <2>2, EarnedStep
  <1>5. CASE ClaimAccepted(n, t)
    <2>1. AcksEarned
      BY <1>1, <1>5, ClaimTyped DEF AcksEarned
    <2>2. EffectsStay /\ GhostsEarned
      BY <1>5 DEF ClaimAccepted, EffectsStay, GhostsEarned
    <2>3. DoneEarned
      BY <1>1, <1>5, AppliedIsEarned DEF ClaimAccepted, Submitting
    <2> QED
      BY <2>1, <2>2, <2>3, EarnedStep
  <1>6. CASE /\ AcquirePermit(n, t) \/ ExecutionStep(n, t) \/ GiveUp(n, t)
             /\ ~ClaimAccepted(n, t)
    <2>1. AcksEarned /\ EffectsStay
      BY <1>6, MovesEarned
    <2>2. GhostsEarned
      BY <1>6 DEF AcquirePermit, ExecutionStep, GiveUp, ClaimRejected, HandlerFails,
         HandlerCompletes, mark_committed, MarkAccepted, MarkRejected, PerformEffect,
         TimeOut, AckAccepted, AckRejected, GhostsEarned
    <2>3. DoneEarned
      <3>1. CASE MarkAccepted(n, t) \/ AckAccepted(n, t)
        BY <1>1, <3>1, AppliedIsEarned DEF MarkAccepted, AckAccepted, Submitting
      <3>2. CASE ~MarkAccepted(n, t) /\ ~AckAccepted(n, t)
        <4>1. rec' = rec
          BY <1>6, <3>2 DEF AcquirePermit, ExecutionStep, GiveUp, ClaimRejected,
             HandlerFails, HandlerCompletes, mark_committed, MarkRejected, PerformEffect,
             TimeOut, AckRejected, taskVars
        <4> QED
          BY <4>1, StillDone
      <3> QED
        BY <3>1, <3>2
    <2> QED
      BY <2>1, <2>2, <2>3, EarnedStep
  <1> QED
    BY <1>2, <1>3, <1>4, <1>5, <1>6

LEMMA SuccessStep ==
  ASSUME ExecTypeOK, IndexInv, SuccessIsEarned, [ExecNext]_vars
  PROVE  SuccessIsEarned'
  <1>1. Irreversible \subseteq Task /\ TypeOK
    BY TaskExecutionAssumption DEF IndexInv
  <1>2. ASSUME exec' = exec, effects' = effects, ghosts' \subseteq ghosts, DoneEarned
        PROVE  SuccessIsEarned'
    <2>1. EffectsStay /\ AcksEarned /\ GhostsEarned
      BY <1>2 DEF EffectsStay, AcksEarned, GhostsEarned
    <2> QED
      BY <1>2, <2>1, EarnedStep
  <1>3. CASE UNCHANGED vars
    BY <1>2, <1>3, StillDone DEF vars, taskVars, execVars
  <1>4. CASE Vacuum
    <2>1. DoneEarned
      BY <1>1, <1>4 DEF Vacuum, apply_vacuum, DoneEarned, HasStatus, Exists
    <2> QED
      BY <1>2, <1>4, <2>1 DEF Vacuum, execVars
  <1>5. ASSUME NEW t \in Task,
               Enqueue(t) \/ Replay(t) \/ SchedulerStep(t) \/ RequeueEarly(t)
        PROVE  SuccessIsEarned'
    <2>1. exec' = exec /\ effects' = effects /\ ghosts' = ghosts
      BY <1>5 DEF Enqueue, Replay, SchedulerStep, Assign, RequeueInactive,
             RequeueStuck, RequeueEarly, execVars
    <2>2. \/ \E runAt, k, now : apply_enqueue(t, runAt, k, now)
          \/ \E n, e, now : apply_assign(t, n, e, now)
          \/ apply_requeue(t)
          \/ \E now : apply_replay(t, now)
          \/ rec' = rec
      BY <1>5 DEF Enqueue, Replay, SchedulerStep, Assign, RequeueInactive,
             RequeueStuck, RequeueEarly, taskVars
    <2>3. DoneEarned
      <3>1. CASE rec' = rec
        BY <3>1, StillDone
      <3>2. CASE rec' # rec
        BY <1>1, <2>2, <3>2, NotDoneByOthers DEF DoneEarned
      <3> QED
        BY <3>1, <3>2
    <2> QED
      BY <1>2, <2>1, <2>3
  <1>6. ASSUME NEW n \in Node,
               \/ Drain(n) \/ RenewLease(n) \/ ExpireLease(n)
               \/ SuspectWorker(n) \/ Crash(n) \/ Restart(n)
        PROVE  SuccessIsEarned'
    <2>1. effects' = effects /\ ghosts' = ghosts /\ rec' = rec
      BY <1>6 DEF Drain, RenewLease, ExpireLease, SuspectWorker, Crash, Restart,
             taskVars, apply_worker_lease
    <2>2. \A m \in Node, u \in Task :
            exec'[m][u] = exec[m][u] \/ exec'[m][u].pc \in {"idle", "waiting"}
      BY <1>1, <1>6, NodeActionsTyped
    <2>3. AcksEarned
      BY <1>1, <2>2 DEF AcksEarned
    <2>4. EffectsStay /\ GhostsEarned /\ DoneEarned
      BY <2>1, StillDone DEF EffectsStay, GhostsEarned
    <2> QED
      BY <2>3, <2>4, EarnedStep
  <1>7. ASSUME NEW c \in ghosts, ApplyGhost(c) PROVE SuccessIsEarned'
    <2>1. c \in Command
      BY DEF ExecTypeOK, RestTypeOK
    <2>2. DoneEarned
      <3>1. CASE Apply(c)
        <4> SUFFICES ASSUME NEW u \in Irreversible, rec'[u] # NoRec, rec'[u].status = "Done"
                     PROVE  HasStatus(u, {"Done"}) \/ effects[u] > 0
          BY DEF DoneEarned
        <4>1. HasStatus(u, {"Done"}) \/ (c.op = "done" /\ c.task = u)
          BY <1>1, <2>1, <3>1, DoneByCommand
        <4> QED
          BY <4>1 DEF SuccessIsEarned
      <3>2. CASE rec' = rec
        BY <3>2, StillDone
      <3> QED
        BY <1>7, <3>1, <3>2 DEF ApplyGhost, taskVars
    <2> QED
      BY <1>2, <1>7, <2>2 DEF ApplyGhost
  <1> QED
    BY <1>3, <1>4, <1>5, <1>6, <1>7, SlotActionsEarned DEF ExecNext

\* An irreversible task recorded as done had its effect exactly once: no ack of
\* another round, another worker or an aborted handler closes it, whatever is
\* duplicated, late or retried.
THEOREM DoneWasPerformed == ExecSpec => []DoneMeansPerformed
  <1>1. ExecInit => SuccessIsEarned
    <2> SUFFICES ASSUME ExecInit PROVE SuccessIsEarned
      OBVIOUS
    <2>1. \A n \in Node, t \in Task : exec[n][t].pc = "idle"
      BY IdleIsSlot DEF ExecInit
    <2>2. (\A t \in Task : rec[t] = NoRec) /\ ghosts = {} /\ Irreversible \subseteq Task
      BY TaskExecutionAssumption DEF ExecInit, Init
    <2> QED
      BY <2>1, <2>2 DEF SuccessIsEarned, HasStatus, Exists
  <1>2. ExecTypeOK /\ IndexInv /\ SuccessIsEarned /\ [ExecNext]_vars => SuccessIsEarned'
    BY SuccessStep
  <1>3. ExecTypeOK /\ SuccessIsEarned /\ AtMostOnce => DoneMeansPerformed
    BY TaskExecutionAssumption
    DEF SuccessIsEarned, AtMostOnce, DoneMeansPerformed, ExecTypeOK, RestTypeOK
  <1> QED
    BY <1>1, <1>2, <1>3, ExecInvariant, EffectsAtMostOnce, PTL DEF ExecSpec
=============================================================================
