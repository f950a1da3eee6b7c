------------------------------- MODULE KvService -------------------------------
(***************************************************************************)
(* Key-value requests served by the control nodes of one group: the        *)
(* handler process_kv_request (network/openraft_dispatcher.rs), the        *)
(* linearizable read of store.rs and its KvData, which reads through a     *)
(* RocksDB secondary instance of the node's own database.  The task reads  *)
(* (read_entries, tasks/rpc.rs) take the same path as "get", the task      *)
(* commands the same path as "set".                                        *)
(*                                                                         *)
(* One key.  A database is the number of committed writes it holds, which  *)
(* stands for its RocksDB sequence number.  External: openraft (elections, *)
(* commit, the read index) and RocksDB (a catch-up that succeeds brings    *)
(* the secondary to what the primary held when it began).                  *)
(***************************************************************************)
EXTENDS Naturals, Sequences, FiniteSets

CONSTANTS
  Client,         \* callers, one request at a time each
  Ctrl,           \* control nodes
  Kinds,          \* the requests they make
  ReadAttempts,   \* LINEARIZABLE_READ_ATTEMPTS
  RebuildGap,     \* SECONDARY_REBUILD_GAP
  NoNode, Free,   \* no leader; the catch-up lock is free
  MaxLog,         \* bound: writes
  MaxFaults       \* bound: elections and restarts

ASSUME KvAssumption ==
  /\ Kinds \subseteq {"get", "set", "update", "delete"}
  /\ ReadAttempts \in Nat \ {0} /\ RebuildGap \in Nat
  /\ NoNode \notin Ctrl /\ Free \notin Client
  /\ MaxLog \in Nat /\ MaxFaults \in Nat

VARIABLES
  log,       \* committed writes
  late,      \* writes of failed requests that a later leader may commit
  leader,    \* the node that can commit and confirm reads
  applied,   \* applied[n]: writes in the primary database of n
  sec,       \* sec[n]: writes in the secondary that KvData.db of n points to
  lock,      \* lock[n]: catch_up_lock
  req,       \* the request of each client and how far its handler is
  faults

store  == <<applied, sec, lock>>
kvVars == <<log, late, leader, applied, sec, lock, req, faults>>

Resting == [pc |-> "rest"]

(* via, seq: the database handle a reader holds: the current secondary, an *)
(* "old" one that a rebuild replaced (frozen at seq), or the primary.      *)
Request(n, k) ==
  [pc |-> IF k = "set" THEN "write" ELSE "probe", node |-> n, kind |-> k,
   low |-> Len(log), try |-> 1, index |-> 0, via |-> "live", seq |-> 0, ok |-> FALSE]

Reading == {"probe", "ready", "lock", "catchup", "gap", "rebuild", "scan"}
Locked  == {"catchup", "gap", "rebuild"}

Writers == {c \in Client : req[c] # Resting /\ req[c].kind # "get" /\ req[c].pc \notin {"applied", "answered"}}

Goto(c, pc) == req' = [req EXCEPT ![c].pc = pc]

Fail(c) == req' = [req EXCEPT ![c] = Resting]

Present(i) == i > 0 /\ log[i].puts

WriteOf(c) == [by |-> c, puts |-> req[c].kind # "delete"]

Init ==
  /\ log = <<>> /\ late = {} /\ faults = 0
  /\ leader \in Ctrl
  /\ applied = [n \in Ctrl |-> 0] /\ sec = [n \in Ctrl |-> 0]
  /\ lock = [n \in Ctrl |-> Free]
  /\ req = [c \in Client |-> Resting]

-----------------------------------------------------------------------------
(* process_kv_request.  The leader test at its top reads the metrics,      *)
(* which may be old: a request can go on at a node that no longer leads.   *)
Receive(c, n) ==
  /\ req[c] = Resting
  /\ \E k \in Kinds :
        /\ k = "get" \/ Len(log) + Cardinality(late) + Cardinality(Writers) < MaxLog
        /\ req' = [req EXCEPT ![c] = Request(n, k)]
  /\ UNCHANGED <<log, late, leader, store, faults>>

(* Not the leader: by the metrics, by the read probe, or by client_write.  *)
Forward(c) ==
  /\ req[c].pc \in {"probe", "write"} /\ leader # req[c].node
  /\ Fail(c)
  /\ UNCHANGED <<log, late, leader, store, faults>>

(* ensure_linearizable_read: the probe confirms leadership with a quorum   *)
(* and yields an index that covers everything committed; a round that      *)
(* misses the quorum is tried again.                                       *)
get_read_linearizer(c) ==
  /\ req[c].pc = "probe" /\ leader = req[c].node
  /\ req' = [req EXCEPT ![c].pc = "ready", ![c].index = Len(log), ![c].try = 1]
  /\ UNCHANGED <<log, late, leader, store, faults>>

QuorumNotEnough(c) ==
  /\ req[c].pc = "probe"
  /\ IF req[c].try < ReadAttempts THEN req' = [req EXCEPT ![c].try = @ + 1] ELSE Fail(c)
  /\ UNCHANGED <<log, late, leader, store, faults>>

-----------------------------------------------------------------------------
(* KvData::synced_db                                                       *)

\* MUTANT: one write behind counts as caught up.
CaughtUp_almost(n) == sec[n] + 1 >= applied[n]

CaughtUp(n) == sec[n] >= applied[n]

\* MUTANT: the state machine is not waited for.
await_ready_skipped(c) ==
  /\ req[c].pc = "ready"
  /\ Goto(c, IF CaughtUp(req[c].node) THEN "scan" ELSE "lock")
  /\ UNCHANGED <<log, late, leader, store, faults>>

(* await_ready: the state machine has reached the read index.  Then the    *)
(* comparison without the lock.                                            *)
await_ready(c) ==
  /\ req[c].pc = "ready" /\ applied[req[c].node] >= req[c].index
  /\ Goto(c, IF CaughtUp(req[c].node) THEN "scan" ELSE "lock")
  /\ UNCHANGED <<log, late, leader, store, faults>>

(* The lock, and the second look at the sequence numbers under it.         *)
Lock(c) ==
  LET n == req[c].node IN
  /\ req[c].pc = "lock" /\ lock[n] = Free
  /\ IF CaughtUp(n) THEN Goto(c, "scan") /\ UNCHANGED lock
     ELSE Goto(c, "catchup") /\ lock' = [lock EXCEPT ![n] = c]
  /\ UNCHANGED <<log, late, leader, applied, sec, faults>>

catch_up(c) ==
  LET n == req[c].node IN
  /\ req[c].pc = "catchup"
  /\ \/ sec' = [sec EXCEPT ![n] = applied[n]] /\ Goto(c, "gap")
     \/ UNCHANGED sec /\ Goto(c, "rebuild")
  /\ UNCHANGED <<log, late, leader, applied, lock, faults>>

Unlock(c) == lock' = [lock EXCEPT ![req[c].node] = Free]

Gap(c) ==
  LET n == req[c].node IN
  /\ req[c].pc = "gap"
  /\ IF applied[n] <= sec[n] + RebuildGap THEN Goto(c, "scan") /\ Unlock(c)
     ELSE Goto(c, "rebuild") /\ UNCHANGED lock
  /\ UNCHANGED <<log, late, leader, applied, sec, faults>>

(* A reader that holds the replaced instance keeps it.                     *)
Replaced(n, c) ==
  IF req[c].pc = "scan" /\ req[c].node = n /\ req[c].via = "live"
  THEN [req[c] EXCEPT !.via = "old", !.seq = sec[n]] ELSE req[c]

rebuild_secondary(c) ==
  LET n == req[c].node IN
  /\ req[c].pc = "rebuild"
  /\ sec' = [sec EXCEPT ![n] = applied[n]]
  /\ req' = [d \in Client |-> IF d = c THEN [req[c] EXCEPT !.pc = "scan"] ELSE Replaced(n, d)]
  /\ Unlock(c)
  /\ UNCHANGED <<log, late, leader, applied, faults>>

\* MUTANT: the way out through the primary keeps the lock.
primary_fallback_locked(c) ==
  /\ req[c].pc = "rebuild"
  /\ req' = [req EXCEPT ![c].pc = "scan", ![c].via = "primary"]
  /\ UNCHANGED <<log, late, leader, store, faults>>

primary_fallback(c) ==
  /\ req[c].pc = "rebuild"
  /\ req' = [req EXCEPT ![c].pc = "scan", ![c].via = "primary"]
  /\ Unlock(c)
  /\ UNCHANGED <<log, late, leader, applied, sec, faults>>

(* Reads of the node itself (scheduler, front end) share the secondary and *)
(* catch it up or replace it in between, also while nobody waits here.     *)
LocalRead(n) ==
  /\ lock[n] = Free /\ ~CaughtUp(n)
  /\ sec' = [sec EXCEPT ![n] = applied[n]]
  /\ req' \in {req, [c \in Client |-> Replaced(n, c)]}
  /\ UNCHANGED <<log, late, leader, applied, lock, faults>>

HandleSeq(c) ==
  CASE req[c].via = "live"    -> sec[req[c].node]
    [] req[c].via = "old"     -> req[c].seq
    [] req[c].via = "primary" -> applied[req[c].node]

Answered(c, ok, at) ==
  req' = [req EXCEPT ![c].pc = "answered", ![c].ok = ok, ![c].index = at,
                     ![c].low = 0, ![c].via = "live", ![c].seq = 0]

(* The read itself: the answer of a get; an update or a delete of a key    *)
(* that is not there is refused, otherwise it is written.                  *)
Scan(c) ==
  LET at == HandleSeq(c) IN
  /\ req[c].pc = "scan"
  /\ IF req[c].kind = "get" THEN Answered(c, TRUE, at)
     ELSE IF ~Present(at) THEN Answered(c, FALSE, at)
     ELSE req' = [req EXCEPT ![c].pc = "write", ![c].index = 0, ![c].via = "live", ![c].seq = 0]
  /\ UNCHANGED <<log, late, leader, store, faults>>

-----------------------------------------------------------------------------
(* client_write: propose, commit, apply on the leader, answer.             *)
client_write(c) ==
  /\ req[c].pc = "write" /\ leader = req[c].node
  /\ Goto(c, "commit")
  /\ UNCHANGED <<log, late, leader, store, faults>>

Commit(c) ==
  /\ req[c].pc = "commit" /\ leader = req[c].node
  /\ log' = Append(log, WriteOf(c))
  /\ req' = [req EXCEPT ![c].pc = "applied", ![c].index = Len(log) + 1]
  /\ UNCHANGED <<late, leader, store, faults>>

(* The leader stepped down first: an error, but the proposal may be in the *)
(* log of the next leader.                                                 *)
WriteLost(c) ==
  /\ req[c].pc = "commit" /\ leader # req[c].node
  /\ late' = late \cup {WriteOf(c)}
  /\ Fail(c)
  /\ UNCHANGED <<log, leader, store, faults>>

Apply(n) ==
  /\ applied[n] < Len(log)
  /\ applied' = [applied EXCEPT ![n] = @ + 1]
  /\ UNCHANGED <<log, late, leader, sec, lock, req, faults>>

WriteApplied(c) ==
  /\ req[c].pc = "applied" /\ applied[req[c].node] >= req[c].index
  /\ Answered(c, TRUE, req[c].index)
  /\ UNCHANGED <<log, late, leader, store, faults>>

Return(c) ==
  /\ req[c].pc = "answered"
  /\ Fail(c)
  /\ UNCHANGED <<log, late, leader, store, faults>>

LateCommit ==
  /\ leader # NoNode
  /\ \E w \in late : log' = Append(log, w) /\ late' = late \ {w}
  /\ UNCHANGED <<leader, store, req, faults>>

-----------------------------------------------------------------------------
Elect ==
  /\ faults < MaxFaults /\ faults' = faults + 1
  /\ leader' \in (Ctrl \cup {NoNode}) \ {leader}
  /\ UNCHANGED <<log, late, store, req>>

(* A restart ends the node's handlers and opens the secondary afresh       *)
(* (KvData::open).                                                         *)
Restart(n) ==
  LET here == {c \in Client : req[c] # Resting /\ req[c].node = n} IN
  /\ faults < MaxFaults /\ faults' = faults + 1
  /\ leader' = IF leader = n THEN NoNode ELSE leader
  /\ late' = late \cup {WriteOf(c) : c \in {d \in here : req[d].pc = "commit"}}
  /\ req' = [c \in Client |-> IF c \in here THEN Resting ELSE req[c]]
  /\ sec' = [sec EXCEPT ![n] = applied[n]]
  /\ lock' = [lock EXCEPT ![n] = Free]
  /\ UNCHANGED <<log, applied>>

Serve(c) ==
  \/ Forward(c) \/ get_read_linearizer(c) \/ QuorumNotEnough(c) \/ await_ready(c)
  \/ Lock(c) \/ catch_up(c) \/ Gap(c) \/ rebuild_secondary(c)
  \/ primary_fallback(c) \/ Scan(c) \/ client_write(c) \/ Commit(c) \/ WriteLost(c)
  \/ WriteApplied(c) \/ Return(c)

Next ==
  \/ Elect \/ LateCommit
  \/ \E n \in Ctrl : Apply(n) \/ LocalRead(n) \/ Restart(n)
  \/ \E c \in Client : Serve(c) \/ \E n \in Ctrl : Receive(c, n)

KvSpec == Init /\ [][Next]_kvVars

-----------------------------------------------------------------------------
(* Properties                                                              *)

(* A reader that is about to read holds a database that contains at least  *)
(* what its read index promised, whichever handle it holds: the current    *)
(* secondary that others catch up, an instance a rebuild replaced in the   *)
(* meantime, or the primary (synced_db, store.rs).                         *)
HandleCoversIndex ==
  \A c \in Client : req[c].pc = "scan" => HandleSeq(c) >= req[c].index

(* The secondary never runs ahead of the primary, nor the primary ahead of *)
(* what is committed, and the lock is held by exactly the reader that is   *)
(* catching up or rebuilding, so two never work on one secondary.          *)
SecondaryIsGuarded ==
  \A n \in Ctrl :
    /\ sec[n] <= applied[n] /\ applied[n] <= Len(log)
    /\ \A c \in Client :
          lock[n] = c <=> req[c].pc \in Locked /\ req[c].node = n

(* Refinement: requests are linearizable.                                  *)
AbstractOp(r) ==
  CASE r = Resting -> [st |-> "rest"]
    [] r.pc = "answered" -> [st |-> "answered", ok |-> r.ok, at |-> r.index]
    [] OTHER -> [st |-> "called", kind |-> r.kind, low |-> r.low,
                 may |-> r.kind = "set" \/ r.pc \in {"write", "commit", "applied"}]

Linear == INSTANCE LinearKv WITH
  history <- log,
  tried   <- late \cup {WriteOf(c) : c \in {d \in Client : req[d].pc = "commit"}},
  op      <- [c \in Client |-> AbstractOp(req[c])]

(* Every answer of the service is one LinearKv allows: a get returns a     *)
(* state that was current during the call (so it contains every write      *)
(* acknowledged before), an update or delete writes only a key it saw, and *)
(* an acknowledged write is in the log.                                    *)
Linearizable == Linear!Spec

-----------------------------------------------------------------------------
(* Why these hold: the inductive invariant.                                *)

Writing  == {"write", "commit", "applied"}
Requests ==
  [pc : Reading \cup Writing \cup {"answered"}, node : Ctrl, kind : Kinds, low : Nat, try : Nat,
   index : Nat, via : {"live", "old", "primary"}, seq : Nat, ok : BOOLEAN]

KvTypeOK ==
  /\ log \in Seq(Linear!Write) /\ late \subseteq Linear!Write
  /\ leader \in Ctrl \cup {NoNode}
  /\ applied \in [Ctrl -> Nat] /\ sec \in [Ctrl -> Nat]
  /\ lock \in [Ctrl -> Client \cup {Free}]
  /\ req \in [Client -> {Resting} \cup Requests]
  /\ faults \in Nat

(* Reads never write what they only looked at, and writes are no reads.    *)
KindFits(r) ==
  /\ r.pc \in Reading => r.kind # "set"
  /\ r.pc \in Writing => r.kind # "get"
  /\ r.pc # "scan" => r.via = "live"

(* A read index covers what was committed at the call, is itself           *)
(* committed, and once await_ready is past, applied at the node.           *)
IndexCovers(r) ==
  /\ r.pc # "answered" => r.low <= Len(log)
  /\ r.pc \in Reading \ {"probe"} => r.low <= r.index /\ r.index <= Len(log)
  /\ r.pc \in Reading \ {"probe", "ready"} => r.index <= applied[r.node]

(* The database a reader is about to use, or has just caught up, holds     *)
(* what the index promises; one that was replaced is frozen no lower.      *)
HandleCovers(r) ==
  /\ r.pc = "gap" \/ (r.pc = "scan" /\ r.via = "live") => r.index <= sec[r.node]
  /\ r.pc = "scan" /\ r.via = "old" => r.index <= r.seq /\ r.seq <= Len(log)

(* A write that waits to be applied has its place in the log.              *)
WriteInLog(c) ==
  req[c].pc = "applied" =>
    req[c].low < req[c].index /\ req[c].index <= Len(log) /\ log[req[c].index] = WriteOf(c)

RequestOK(c) ==
  req[c] # Resting =>
    KindFits(req[c]) /\ IndexCovers(req[c]) /\ HandleCovers(req[c]) /\ WriteInLog(c)

KvInv == KvTypeOK /\ SecondaryIsGuarded /\ \A c \in Client : RequestOK(c)

=============================================================================
