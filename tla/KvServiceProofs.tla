--------------------------- MODULE KvServiceProofs ---------------------------
(***************************************************************************)
(* Proofs about KvService, for every set of clients and control nodes and  *)
(* every number of attempts, writes, elections and restarts: KvInv is      *)
(* inductive, and with it the service implements LinearKv.                 *)
(*                                                                         *)
(* The log and the databases only grow, so a request that does not move    *)
(* stays right (RestStaysRight); each action is left with the one request  *)
(* it moves.                                                               *)
(***************************************************************************)
EXTENDS KvService, SequenceTheorems, TLAPS

(* What every step does to the log and the databases.                      *)
Grows ==
  /\ Len(log) <= Len(log')
  /\ \A i \in 1 .. Len(log) : log'[i] = log[i]
  /\ \A n \in Ctrl : applied[n] <= applied'[n] /\ sec[n] <= sec'[n]

(* A request in progress is a record of all its fields.                    *)
LEMMA Active ==
  ASSUME KvTypeOK, NEW c \in Client, req[c].pc # "rest"
  PROVE  req[c] \in Requests /\ req[c] # Resting
  BY DEF KvTypeOK, Resting

(* A request that a step leaves alone stays right.                         *)
LEMMA RestStaysRight ==
  ASSUME KvTypeOK, KvTypeOK', Grows, NEW c \in Client, RequestOK(c), req'[c] = req[c]
  PROVE  RequestOK(c)'
<1> SUFFICES ASSUME req[c] # Resting PROVE RequestOK(c)'
  BY DEF RequestOK
<1>1. req[c] \in Requests /\ Len(log) \in Nat /\ Len(log') \in Nat
  BY LenProperties DEF KvTypeOK
<1>2. KindFits(req[c])'
  BY <1>1 DEF RequestOK, KindFits, Requests
<1>3. IndexCovers(req[c])'
  <2>1. req[c].low \in Nat /\ req[c].index \in Nat /\ req[c].node \in Ctrl
    BY <1>1 DEF Requests
  <2>2. applied[req[c].node] \in Nat /\ applied'[req[c].node] \in Nat
    BY <2>1 DEF KvTypeOK
  <2> QED
    BY <1>1, <2>1, <2>2 DEF RequestOK, IndexCovers, Grows
<1>4. HandleCovers(req[c])'
  BY <1>1 DEF RequestOK, HandleCovers, Grows, KvTypeOK, Requests
<1>5. WriteInLog(c)'
  BY <1>1 DEF RequestOK, WriteInLog, WriteOf, Grows, Requests
<1> QED
  BY <1>2, <1>3, <1>4, <1>5 DEF RequestOK

(* A step that moves one request is right if that request is.              *)
LEMMA OneMoves ==
  ASSUME KvInv, KvTypeOK', Grows, NEW c \in Client,
         \A d \in Client \ {c} : req'[d] = req[d], RequestOK(c)'
  PROVE  \A d \in Client : RequestOK(d)'
  BY RestStaysRight DEF KvInv

(* A step that leaves log and databases alone.                             *)
LEMMA StoreStays ==
  ASSUME KvTypeOK, log' = log, applied' = applied, sec' = sec
  PROVE  Grows
<1>1. Len(log) \in Nat
  BY LenProperties DEF KvTypeOK
<1> QED
  BY <1>1 DEF Grows, KvTypeOK

(* A committed write.                                                      *)
LEMMA LogGrows ==
  ASSUME KvTypeOK, NEW w \in Linear!Write, log' = Append(log, w)
  PROVE  /\ log' \in Seq(Linear!Write) /\ Len(log') = Len(log) + 1 /\ Len(log) \in Nat
         /\ \A i \in 1 .. Len(log) : log'[i] = log[i]
         /\ log'[Len(log) + 1] = w
  BY AppendProperties, LenProperties DEF KvTypeOK

LEMMA WriteTyped ==
  ASSUME NEW c \in Client PROVE WriteOf(c) \in Linear!Write
  BY DEF WriteOf, Linear!Write

-----------------------------------------------------------------------------
(* Steps of one request that touch neither log nor databases nor lock.     *)
LEMMA QuietMove ==
  ASSUME KvInv, NEW c \in Client, NEW r \in {Resting} \cup Requests,
         req' = [req EXCEPT ![c] = r], r.pc \notin Locked, req[c].pc \notin Locked,
         r.pc # "applied", log' = log, UNCHANGED <<store, leader, faults>>,
         late' \subseteq Linear!Write,
         r # Resting => KindFits(r) /\ IndexCovers(r) /\ HandleCovers(r)
  PROVE  KvInv'
<1>1. KvTypeOK'
  BY DEF KvInv, KvTypeOK, store
<1>2. Grows
  BY StoreStays DEF KvInv, store
<1>3. req'[c] = r /\ \A d \in Client \ {c} : req'[d] = req[d]
  BY DEF KvInv, KvTypeOK
<1>4. RequestOK(c)'
  <2>1. r # Resting => KindFits(r)' /\ IndexCovers(r)' /\ HandleCovers(r)'
    BY DEF KindFits, IndexCovers, HandleCovers, store
  <2>2. WriteInLog(c)'
    BY <1>3 DEF WriteInLog
  <2> QED
    BY <1>3, <2>1, <2>2 DEF RequestOK
<1>5. \A d \in Client : RequestOK(d)'
  BY <1>1, <1>2, <1>3, <1>4, OneMoves
<1>6. SecondaryIsGuarded'
  <2> SUFFICES ASSUME NEW n \in Ctrl
               PROVE  /\ sec[n] <= applied[n] /\ applied[n] <= Len(log)
                      /\ \A d \in Client : lock[n] = d <=> req'[d].pc \in Locked /\ req'[d].node = n
    BY DEF SecondaryIsGuarded, store
  <2> QED
    BY <1>3 DEF KvInv, SecondaryIsGuarded
<1> QED
  BY <1>1, <1>5, <1>6 DEF KvInv

LEMMA Receive_Keeps ==
  ASSUME KvInv, NEW c \in Client, NEW n \in Ctrl, Receive(c, n) PROVE KvInv'
<1>1. PICK k \in Kinds : req' = [req EXCEPT ![c] = Request(n, k)]
  BY DEF Receive
<1>2. Len(log) \in Nat
  BY LenProperties DEF KvInv, KvTypeOK
<1>3. /\ Request(n, k) \in Requests /\ Request(n, k).pc \notin Locked
      /\ Request(n, k).pc # "applied"
  BY <1>1, <1>2 DEF Request, Requests, Reading, Writing, Locked
<1>4. KindFits(Request(n, k)) /\ IndexCovers(Request(n, k)) /\ HandleCovers(Request(n, k))
  BY <1>2 DEF Request, KindFits, IndexCovers, HandleCovers, Reading, Writing
<1>5. req[c].pc \notin Locked
  BY DEF Receive, Resting, Locked
<1> QED
  BY <1>1, <1>3, <1>4, <1>5, QuietMove DEF Receive, KvInv, KvTypeOK

(* A request that ends, with or without an answer.                         *)
LEMMA Rest_Keeps ==
  ASSUME KvInv, NEW c \in Client, req' = [req EXCEPT ![c] = Resting],
         req[c].pc \notin Locked, log' = log, UNCHANGED <<store, leader, faults>>,
         late' \subseteq Linear!Write
  PROVE  KvInv'
<1>1. Resting.pc \notin Locked /\ Resting.pc # "applied"
  BY DEF Resting, Locked
<1> QED
  BY <1>1, QuietMove

LEMMA Forward_Keeps ==
  ASSUME KvInv, NEW c \in Client, Forward(c) PROVE KvInv'
  BY Rest_Keeps DEF Forward, Fail, Locked, KvInv, KvTypeOK

LEMMA Return_Keeps ==
  ASSUME KvInv, NEW c \in Client, Return(c) PROVE KvInv'
  BY Rest_Keeps DEF Return, Fail, Locked, KvInv, KvTypeOK

LEMMA WriteLost_Keeps ==
  ASSUME KvInv, NEW c \in Client, WriteLost(c) PROVE KvInv'
  BY Rest_Keeps, WriteTyped DEF WriteLost, Fail, Locked, KvInv, KvTypeOK

LEMMA get_read_linearizer_Keeps ==
  ASSUME KvInv, NEW c \in Client, get_read_linearizer(c) PROVE KvInv'
<1> DEFINE r == [req[c] EXCEPT !.pc = "ready", !.index = Len(log), !.try = 1]
<1>1. req[c] \in Requests /\ req[c] # Resting /\ Len(log) \in Nat
  BY Active, LenProperties DEF get_read_linearizer, KvInv, KvTypeOK
<1>2. req' = [req EXCEPT ![c] = r]
  BY DEF get_read_linearizer
<1>3. r \in Requests /\ r.pc = "ready" /\ r.pc \notin Locked
  BY <1>1 DEF Requests, Reading, Locked
<1>4. KindFits(req[c]) /\ IndexCovers(req[c]) /\ req[c].pc = "probe"
  BY <1>1 DEF KvInv, RequestOK, get_read_linearizer
<1>5. KindFits(r) /\ IndexCovers(r) /\ HandleCovers(r)
  BY <1>1, <1>4 DEF KindFits, IndexCovers, HandleCovers, Requests, Reading, Writing
<1> QED
  BY <1>2, <1>3, <1>4, <1>5, QuietMove DEF get_read_linearizer, KvInv, KvTypeOK, Locked

LEMMA QuorumNotEnough_Keeps ==
  ASSUME KvInv, NEW c \in Client, QuorumNotEnough(c) PROVE KvInv'
<1> DEFINE r == [req[c] EXCEPT !.try = @ + 1]
<1>1. req[c] \in Requests /\ req[c] # Resting /\ Len(log) \in Nat
  BY Active, LenProperties DEF QuorumNotEnough, KvInv, KvTypeOK
<1>2. CASE req' = [req EXCEPT ![c] = r]
  <2>1. r \in Requests /\ r.pc = "probe"
    BY <1>1 DEF QuorumNotEnough, Requests
  <2>2. KindFits(req[c]) /\ IndexCovers(req[c])
    BY <1>1 DEF KvInv, RequestOK
  <2>3. KindFits(r) /\ IndexCovers(r) /\ HandleCovers(r)
    BY <1>1, <2>1, <2>2 DEF KindFits, IndexCovers, HandleCovers, Requests, Reading, Writing
  <2> QED
    BY <1>2, <2>1, <2>3, QuietMove DEF QuorumNotEnough, KvInv, KvTypeOK, Locked
<1>3. CASE req' = [req EXCEPT ![c] = Resting]
  BY <1>3, Rest_Keeps DEF QuorumNotEnough, Locked, KvInv, KvTypeOK
<1> QED
  BY <1>2, <1>3 DEF QuorumNotEnough, Fail

(* The comparison without the lock is safe because the index is applied    *)
(* before it: a secondary that has caught up with the primary holds it.    *)
LEMMA await_ready_Keeps ==
  ASSUME KvInv, NEW c \in Client, await_ready(c) PROVE KvInv'
<1> DEFINE pc == IF CaughtUp(req[c].node) THEN "scan" ELSE "lock"
           r  == [req[c] EXCEPT !.pc = pc]
<1>1. req[c] \in Requests /\ req[c] # Resting /\ Len(log) \in Nat
  BY Active, LenProperties DEF await_ready, KvInv, KvTypeOK
<1>2. req' = [req EXCEPT ![c] = r]
  BY DEF await_ready, Goto
<1>3. r \in Requests /\ r.pc = pc /\ r.pc \in {"scan", "lock"}
  BY <1>1 DEF Requests, Reading
<1>4. KindFits(req[c]) /\ IndexCovers(req[c]) /\ req[c].pc = "ready"
  BY <1>1 DEF KvInv, RequestOK, await_ready
<1>5. /\ sec[req[c].node] \in Nat /\ applied[req[c].node] \in Nat
      /\ req[c].index <= applied[req[c].node] /\ req[c].index \in Nat
  BY <1>1 DEF await_ready, KvInv, KvTypeOK, Requests
<1>6. pc = "scan" => req[c].index <= sec[req[c].node]
  BY <1>5 DEF CaughtUp
<1>7. KindFits(r) /\ IndexCovers(r) /\ HandleCovers(r)
  BY <1>1, <1>3, <1>4, <1>5, <1>6 DEF KindFits, IndexCovers, HandleCovers, Requests, Reading, Writing
<1> QED
  BY <1>2, <1>3, <1>4, <1>7, QuietMove DEF await_ready, KvInv, KvTypeOK, Locked

(* A request that is answered.                                             *)
LEMMA Answered_Keeps ==
  ASSUME KvInv, NEW c \in Client, req[c].pc \in {"scan", "applied"},
         NEW ok \in BOOLEAN, NEW at \in Nat, Answered(c, ok, at),
         UNCHANGED <<log, late, leader, store, faults>>
  PROVE  KvInv'
<1> DEFINE r == [req[c] EXCEPT !.pc = "answered", !.ok = ok, !.index = at,
                               !.low = 0, !.via = "live", !.seq = 0]
<1>1. req[c] \in Requests
  BY Active DEF KvInv
<1>2. req' = [req EXCEPT ![c] = r]
  BY DEF Answered
<1>3. r \in Requests /\ r.pc = "answered" /\ r.via = "live"
  BY <1>1 DEF Requests
<1>4. KindFits(r) /\ IndexCovers(r) /\ HandleCovers(r)
  BY <1>3 DEF KindFits, IndexCovers, HandleCovers, Reading, Writing
<1> QED
  BY <1>2, <1>3, <1>4, QuietMove DEF KvInv, KvTypeOK, Locked

(* The database behind a handle is one of three numbers.                   *)
LEMMA HandleSeqCases ==
  ASSUME KvInv, NEW c \in Client, req[c].pc = "scan"
  PROVE  /\ req[c].via = "live" => HandleSeq(c) = sec[req[c].node]
         /\ req[c].via = "old" => HandleSeq(c) = req[c].seq
         /\ req[c].via = "primary" => HandleSeq(c) = applied[req[c].node]
         /\ HandleSeq(c) \in req[c].index .. Len(log)
         /\ req[c].low <= HandleSeq(c)
         /\ HandleSeq(c) \in Nat
<1>1. req[c] \in Requests /\ req[c] # Resting /\ Len(log) \in Nat
  BY Active, LenProperties DEF KvInv, KvTypeOK
<1>2. /\ req[c].via \in {"live", "old", "primary"} /\ req[c].index \in Nat /\ req[c].seq \in Nat
      /\ req[c].low \in Nat /\ req[c].node \in Ctrl
  BY <1>1 DEF Requests
<1>3. /\ req[c].via = "live" => HandleSeq(c) = sec[req[c].node]
      /\ req[c].via = "old" => HandleSeq(c) = req[c].seq
      /\ req[c].via = "primary" => HandleSeq(c) = applied[req[c].node]
  BY <1>2 DEF HandleSeq
<1>4. /\ sec[req[c].node] \in Nat /\ applied[req[c].node] \in Nat
      /\ sec[req[c].node] <= applied[req[c].node] /\ applied[req[c].node] <= Len(log)
  BY <1>2 DEF KvInv, KvTypeOK, SecondaryIsGuarded
<1>5. IndexCovers(req[c]) /\ HandleCovers(req[c])
  BY <1>1 DEF KvInv, RequestOK
<1>6. /\ req[c].low <= req[c].index /\ req[c].index <= applied[req[c].node]
      /\ req[c].via = "live" => req[c].index <= sec[req[c].node]
      /\ req[c].via = "old" => req[c].index <= req[c].seq /\ req[c].seq <= Len(log)
  BY <1>5 DEF IndexCovers, HandleCovers, Reading
<1> QED
  BY <1>1, <1>2, <1>3, <1>4, <1>6

LEMMA Scan_Keeps ==
  ASSUME KvInv, NEW c \in Client, Scan(c) PROVE KvInv'
<1> DEFINE r == [req[c] EXCEPT !.pc = "write", !.index = 0, !.via = "live", !.seq = 0]
<1>1. req[c] \in Requests /\ req[c] # Resting /\ Len(log) \in Nat /\ req[c].pc = "scan"
  BY Active, LenProperties DEF Scan, KvInv, KvTypeOK
<1>2. HandleSeq(c) \in Nat
  BY <1>1, HandleSeqCases
<1>3. CASE Answered(c, TRUE, HandleSeq(c))
  BY <1>1, <1>2, <1>3, Answered_Keeps DEF Scan
<1>4. CASE Answered(c, FALSE, HandleSeq(c))
  BY <1>1, <1>2, <1>4, Answered_Keeps DEF Scan
<1>5. CASE req[c].kind # "get" /\ req' = [req EXCEPT ![c] = r]
  <2>1. r \in Requests /\ r.pc = "write" /\ r.via = "live" /\ r.kind # "get" /\ r.low = req[c].low
    BY <1>1, <1>5 DEF Requests, Writing
  <2>2. IndexCovers(req[c])
    BY <1>1 DEF KvInv, RequestOK
  <2>3. KindFits(r) /\ IndexCovers(r) /\ HandleCovers(r)
    BY <1>1, <2>1, <2>2 DEF KindFits, IndexCovers, HandleCovers, Reading, Writing
  <2> QED
    BY <1>1, <1>5, <2>1, <2>3, QuietMove DEF Scan, KvInv, KvTypeOK, Locked
<1> QED
  BY <1>1, <1>3, <1>4, <1>5 DEF Scan

LEMMA client_write_Keeps ==
  ASSUME KvInv, NEW c \in Client, client_write(c) PROVE KvInv'
<1> DEFINE r == [req[c] EXCEPT !.pc = "commit"]
<1>1. req[c] \in Requests /\ req[c] # Resting
  BY Active DEF client_write, KvInv
<1>2. req' = [req EXCEPT ![c] = r] /\ req[c].pc = "write"
  BY DEF client_write, Goto
<1>3. /\ r \in Requests /\ r.pc = "commit" /\ r.kind = req[c].kind /\ r.via = req[c].via
      /\ r.low = req[c].low
  BY <1>1 DEF Requests, Writing
<1>4. KindFits(req[c]) /\ IndexCovers(req[c])
  BY <1>1 DEF KvInv, RequestOK
<1>5. KindFits(r) /\ IndexCovers(r) /\ HandleCovers(r)
  BY <1>2, <1>3, <1>4 DEF KindFits, IndexCovers, HandleCovers, Reading, Writing
<1> QED
  BY <1>2, <1>3, <1>5, QuietMove DEF client_write, KvInv, KvTypeOK, Locked

LEMMA WriteApplied_Keeps ==
  ASSUME KvInv, NEW c \in Client, WriteApplied(c) PROVE KvInv'
<1>1. req[c] \in Requests
  BY Active DEF WriteApplied, KvInv
<1>2. req[c].index \in Nat
  BY <1>1 DEF Requests
<1> QED
  BY <1>2, Answered_Keeps DEF WriteApplied

-----------------------------------------------------------------------------
(* Steps of synced_db around the lock of a node.                           *)

(* The lock follows the one reader that enters, stays in or leaves the     *)
(* guarded region of its node.                                             *)
LEMMA LockFollows ==
  ASSUME KvInv, NEW c \in Client, NEW n \in Ctrl, req[c].node = n, req'[c].node = n,
         \A d \in Client \ {c} : req'[d].node = req[d].node
                                 /\ (req'[d].pc \in Locked <=> req[d].pc \in Locked),
         \/ /\ req[c].pc \notin Locked /\ lock[n] = Free
            /\ req'[c].pc \in Locked /\ lock' = [lock EXCEPT ![n] = c]
         \/ (req[c].pc \in Locked <=> req'[c].pc \in Locked) /\ lock' = lock
         \/ /\ req[c].pc \in Locked /\ req'[c].pc \notin Locked
            /\ lock' = [lock EXCEPT ![n] = Free]
  PROVE  \A m \in Ctrl : \A d \in Client :
           lock'[m] = d <=> req'[d].pc \in Locked /\ req'[d].node = m
<1> SUFFICES ASSUME NEW m \in Ctrl, NEW d \in Client
             PROVE  lock'[m] = d <=> req'[d].pc \in Locked /\ req'[d].node = m
  OBVIOUS
<1>1. /\ lock[m] = d <=> req[d].pc \in Locked /\ req[d].node = m
      /\ lock[m] = c <=> req[c].pc \in Locked /\ req[c].node = m
  BY DEF KvInv, SecondaryIsGuarded
<1>2. lock \in [Ctrl -> Client \cup {Free}] /\ Free # d
  BY KvAssumption DEF KvInv, KvTypeOK
<1>3. CASE d = c
  BY <1>1, <1>2, <1>3
<1>4. CASE d # c
  <2>1. req'[d].pc \in Locked /\ req'[d].node = m <=> req[d].pc \in Locked /\ req[d].node = m
    BY <1>4
  <2>2. m # n => lock'[m] = lock[m]
    BY <1>2
  <2>3. m = n => (lock'[m] = d <=> lock[m] = d)
    BY <1>1, <1>2, <1>4
  <2> QED
    BY <1>1, <2>1, <2>2, <2>3
<1> QED
  BY <1>3, <1>4

(* A step of a reader at its node that leaves the log and the primaries    *)
(* alone and moves the secondary up, at most to the primary.               *)
LEMMA ReaderMove ==
  ASSUME KvInv, NEW c \in Client, NEW n \in Ctrl, req[c].node = n, req'[c].node = n,
         UNCHANGED <<log, late, leader, applied, faults>>,
         req' \in [Client -> {Resting} \cup Requests],
         sec' = sec \/ sec' = [sec EXCEPT ![n] = applied[n]],
         lock' \in [Ctrl -> Client \cup {Free}],
         \A m \in Ctrl : \A d \in Client :
           lock'[m] = d <=> req'[d].pc \in Locked /\ req'[d].node = m,
         \A d \in Client : req'[d] = req[d] \/ RequestOK(d)'
  PROVE  KvInv'
<1>1. /\ sec \in [Ctrl -> Nat] /\ applied \in [Ctrl -> Nat] /\ Len(log) \in Nat
      /\ \A m \in Ctrl : sec[m] <= applied[m] /\ applied[m] <= Len(log)
  BY LenProperties DEF KvInv, KvTypeOK, SecondaryIsGuarded
<1>2. sec' \in [Ctrl -> Nat] /\ \A m \in Ctrl : sec[m] <= sec'[m] /\ sec'[m] <= applied[m]
  <2>1. CASE sec' = sec
    BY <1>1, <2>1
  <2>2. CASE sec' = [sec EXCEPT ![n] = applied[n]]
    <3>1. /\ \A m \in Ctrl \ {n} : sec'[m] = sec[m]
          /\ sec'[n] = applied[n] /\ sec' \in [Ctrl -> Nat]
      BY <1>1, <2>2
    <3>2. \A m \in Ctrl : sec[m] \in Nat /\ applied[m] \in Nat
      BY <1>1
    <3> QED
      BY <1>1, <3>1, <3>2
  <2> QED
    BY <2>1, <2>2
<1>3. KvTypeOK'
  BY <1>2 DEF KvInv, KvTypeOK
<1>4. Grows
  BY <1>1, <1>2 DEF Grows
<1>5. \A d \in Client : RequestOK(d)'
  BY <1>3, <1>4, RestStaysRight DEF KvInv
<1>6. SecondaryIsGuarded'
  BY <1>1, <1>2 DEF SecondaryIsGuarded
<1> QED
  BY <1>3, <1>5, <1>6 DEF KvInv

(* What is known of a reader past await_ready.                             *)
LEMMA ReaderFacts ==
  ASSUME KvInv, NEW c \in Client, req[c].pc \in {"lock"} \cup Locked
  PROVE  /\ req[c] \in Requests /\ req[c] # Resting /\ req[c].node \in Ctrl
         /\ req[c].kind # "set" /\ req[c].via = "live" /\ Len(log) \in Nat
         /\ req[c].low \in Nat /\ req[c].index \in Nat
         /\ req[c].low <= req[c].index /\ req[c].index <= Len(log) /\ req[c].low <= Len(log)
         /\ req[c].index <= applied[req[c].node]
         /\ sec[req[c].node] \in Nat /\ applied[req[c].node] \in Nat
         /\ req[c].pc = "gap" => req[c].index <= sec[req[c].node]
<1>1. req[c] \in Requests /\ req[c] # Resting /\ Len(log) \in Nat
  BY Active, LenProperties DEF KvInv, KvTypeOK, Locked
<1>2. KindFits(req[c]) /\ IndexCovers(req[c]) /\ HandleCovers(req[c])
  BY <1>1 DEF KvInv, RequestOK
<1>3. req[c].low \in Nat /\ req[c].index \in Nat /\ req[c].node \in Ctrl
  BY <1>1 DEF Requests
<1>4. sec[req[c].node] \in Nat /\ applied[req[c].node] \in Nat
  BY <1>3 DEF KvInv, KvTypeOK
<1> QED
  BY <1>1, <1>2, <1>3, <1>4 DEF KindFits, IndexCovers, HandleCovers, Locked, Reading

(* A reader that moves on, its database holding what it needs.             *)
LEMMA ReaderRight ==
  ASSUME KvInv, NEW c \in Client, req[c].pc \in {"lock"} \cup Locked,
         log' = log, applied' = applied,
         NEW pc \in Locked \cup {"scan"}, NEW via \in {"live", "primary"},
         req'[c] = [req[c] EXCEPT !.pc = pc, !.via = via],
         pc = "gap" \/ (pc = "scan" /\ via = "live") => req[c].index <= sec'[req[c].node],
         via = "primary" => pc = "scan"
  PROVE  RequestOK(c)' /\ req'[c] \in Requests /\ req'[c].node = req[c].node /\ req'[c].pc = pc
<1>1. /\ req'[c] \in Requests /\ req'[c].pc = pc /\ req'[c].via = via
      /\ req'[c].node = req[c].node /\ req'[c].kind = req[c].kind
      /\ req'[c].low = req[c].low /\ req'[c].index = req[c].index
  BY ReaderFacts DEF Requests, Locked, Reading
<1>2. KindFits(req[c])'
  BY <1>1, ReaderFacts DEF KindFits, Locked, Reading, Writing
<1>3. IndexCovers(req[c])'
  BY <1>1, ReaderFacts DEF IndexCovers, Locked, Reading
<1>4. HandleCovers(req[c])'
  BY <1>1, ReaderFacts DEF HandleCovers
<1>5. WriteInLog(c)'
  BY <1>1 DEF WriteInLog, Locked
<1> QED
  BY <1>1, <1>2, <1>3, <1>4, <1>5 DEF RequestOK

LEMMA Lock_Keeps ==
  ASSUME KvInv, NEW c \in Client, Lock(c) PROVE KvInv'
<1> DEFINE n  == req[c].node
           pc == IF CaughtUp(n) THEN "scan" ELSE "catchup"
<1>1. req[c].pc = "lock" /\ req[c].pc \notin Locked
  BY DEF Lock, Locked
<1>2. req' = [req EXCEPT ![c] = [req[c] EXCEPT !.pc = pc]] /\ req[c].via = "live" /\ n \in Ctrl
  BY <1>1, ReaderFacts DEF Lock, Goto
<1>3. req'[c] = [req[c] EXCEPT !.pc = pc, !.via = "live"]
  BY <1>1, <1>2, ReaderFacts DEF KvInv, KvTypeOK, Requests
<1>4. pc \in Locked \cup {"scan"} /\ (pc = "scan" => req[c].index <= sec'[n]) /\ pc # "gap"
  BY <1>1, ReaderFacts DEF CaughtUp, Locked, Lock
<1>5. RequestOK(c)' /\ req'[c] \in Requests /\ req'[c].node = n /\ req'[c].pc = pc
  BY <1>1, <1>3, <1>4, ReaderRight DEF Lock
<1>6. \A d \in Client \ {c} : req'[d] = req[d]
  BY <1>2 DEF KvInv, KvTypeOK
<1>7. \/ /\ lock[n] = Free /\ req'[c].pc \in Locked /\ lock' = [lock EXCEPT ![n] = c]
      \/ req'[c].pc \notin Locked /\ lock' = lock
  BY <1>5 DEF Lock, Locked
<1>8. \A m \in Ctrl : \A d \in Client :
        lock'[m] = d <=> req'[d].pc \in Locked /\ req'[d].node = m
  BY <1>1, <1>2, <1>5, <1>6, <1>7, LockFollows
<1>9. /\ req' \in [Client -> {Resting} \cup Requests]
      /\ lock' \in [Ctrl -> Client \cup {Free}]
  BY <1>2, <1>3, <1>5, <1>7 DEF KvInv, KvTypeOK
<1> QED
  BY <1>2, <1>5, <1>6, <1>8, <1>9, ReaderMove DEF Lock

LEMMA catch_up_Keeps ==
  ASSUME KvInv, NEW c \in Client, catch_up(c) PROVE KvInv'
<1> DEFINE n == req[c].node
<1>1. req[c].pc = "catchup" /\ req[c].pc \in Locked
  BY DEF catch_up, Locked
<1>2. PICK pc \in {"gap", "rebuild"} :
        /\ req' = [req EXCEPT ![c] = [req[c] EXCEPT !.pc = pc]]
        /\ \/ pc = "gap" /\ sec' = [sec EXCEPT ![n] = applied[n]]
           \/ pc = "rebuild" /\ sec' = sec
  BY DEF catch_up, Goto
<1>3. req'[c] = [req[c] EXCEPT !.pc = pc, !.via = "live"] /\ n \in Ctrl
  BY <1>1, <1>2, ReaderFacts DEF KvInv, KvTypeOK, Requests
<1>4. pc \in Locked /\ (pc = "gap" => req[c].index <= sec'[n])
  <2>1. pc = "gap" => sec'[n] = applied[n]
    BY <1>2, <1>3 DEF KvInv, KvTypeOK
  <2> QED
    BY <1>1, <2>1, ReaderFacts DEF Locked
<1>5. RequestOK(c)' /\ req'[c] \in Requests /\ req'[c].node = n /\ req'[c].pc = pc
  BY <1>1, <1>3, <1>4, ReaderRight DEF catch_up
<1>6. \A d \in Client \ {c} : req'[d] = req[d]
  BY <1>2 DEF KvInv, KvTypeOK
<1>7. \A m \in Ctrl : \A d \in Client :
        lock'[m] = d <=> req'[d].pc \in Locked /\ req'[d].node = m
  BY <1>1, <1>3, <1>4, <1>5, <1>6, LockFollows DEF catch_up
<1>8. /\ req' \in [Client -> {Resting} \cup Requests]
      /\ lock' \in [Ctrl -> Client \cup {Free}]
  BY <1>2, <1>3, <1>5 DEF KvInv, KvTypeOK, catch_up
<1> QED
  BY <1>2, <1>3, <1>5, <1>6, <1>7, <1>8, ReaderMove DEF catch_up

LEMMA Gap_Keeps ==
  ASSUME KvInv, NEW c \in Client, Gap(c) PROVE KvInv'
<1> DEFINE n == req[c].node
<1>1. req[c].pc = "gap" /\ req[c].pc \in Locked
  BY DEF Gap, Locked
<1>2. PICK pc \in {"scan", "rebuild"} :
        /\ req' = [req EXCEPT ![c] = [req[c] EXCEPT !.pc = pc]]
        /\ \/ pc = "scan" /\ lock' = [lock EXCEPT ![n] = Free]
           \/ pc = "rebuild" /\ lock' = lock
  BY DEF Gap, Goto, Unlock
<1>3. req'[c] = [req[c] EXCEPT !.pc = pc, !.via = "live"] /\ n \in Ctrl
  BY <1>1, <1>2, ReaderFacts DEF KvInv, KvTypeOK, Requests
<1>4. pc \in Locked \cup {"scan"} /\ req[c].index <= sec'[n]
  BY <1>1, ReaderFacts DEF Locked, Gap
<1>5. RequestOK(c)' /\ req'[c] \in Requests /\ req'[c].node = n /\ req'[c].pc = pc
  BY <1>1, <1>3, <1>4, ReaderRight DEF Gap
<1>6. \A d \in Client \ {c} : req'[d] = req[d]
  BY <1>2 DEF KvInv, KvTypeOK
<1>7. \A m \in Ctrl : \A d \in Client :
        lock'[m] = d <=> req'[d].pc \in Locked /\ req'[d].node = m
  <2>1. CASE pc = "rebuild"
    <3>1. req'[c].pc \in Locked /\ lock' = lock
      BY <1>2, <1>5, <2>1 DEF Locked
    <3> QED
      BY <1>1, <1>3, <1>5, <1>6, <3>1, LockFollows
  <2>2. CASE pc = "scan"
    <3>1. req'[c].pc \notin Locked /\ lock' = [lock EXCEPT ![n] = Free]
      BY <1>2, <1>5, <2>2 DEF Locked
    <3> QED
      BY <1>1, <1>3, <1>5, <1>6, <3>1, LockFollows
  <2> QED
    BY <2>1, <2>2
<1>8. /\ req' \in [Client -> {Resting} \cup Requests]
      /\ lock' \in [Ctrl -> Client \cup {Free}]
  BY <1>2, <1>3, <1>5 DEF KvInv, KvTypeOK
<1> QED
  BY <1>3, <1>5, <1>6, <1>7, <1>8, ReaderMove DEF Gap

LEMMA primary_fallback_Keeps ==
  ASSUME KvInv, NEW c \in Client, primary_fallback(c) PROVE KvInv'
<1> DEFINE n == req[c].node
<1>1. req[c].pc = "rebuild" /\ req[c].pc \in Locked
  BY DEF primary_fallback, Locked
<1>2. /\ req' = [req EXCEPT ![c] = [req[c] EXCEPT !.pc = "scan", !.via = "primary"]]
      /\ lock' = [lock EXCEPT ![n] = Free]
  BY DEF primary_fallback, Unlock
<1>3. req'[c] = [req[c] EXCEPT !.pc = "scan", !.via = "primary"] /\ n \in Ctrl
  BY <1>1, <1>2, ReaderFacts DEF KvInv, KvTypeOK
<1>4. RequestOK(c)' /\ req'[c] \in Requests /\ req'[c].node = n /\ req'[c].pc = "scan"
  BY <1>1, <1>3, ReaderRight DEF primary_fallback
<1>5. \A d \in Client \ {c} : req'[d] = req[d]
  BY <1>2 DEF KvInv, KvTypeOK
<1>6. \A m \in Ctrl : \A d \in Client :
        lock'[m] = d <=> req'[d].pc \in Locked /\ req'[d].node = m
  <2>1. req'[c].pc \notin Locked
    BY <1>4 DEF Locked
  <2> QED
    BY <1>1, <1>2, <1>3, <1>4, <1>5, <2>1, LockFollows
<1>7. /\ req' \in [Client -> {Resting} \cup Requests]
      /\ lock' \in [Ctrl -> Client \cup {Free}]
  BY <1>2, <1>3, <1>4 DEF KvInv, KvTypeOK
<1> QED
  BY <1>3, <1>4, <1>5, <1>6, <1>7, ReaderMove DEF primary_fallback

(* A rebuild by another reader: who holds the instance that is replaced    *)
(* keeps it, and it held enough.                                           *)
LEMMA ReplacedRight ==
  ASSUME KvInv, NEW n \in Ctrl, NEW d \in Client, req'[d] = Replaced(n, d),
         log' = log, applied' = applied
  PROVE  /\ req'[d] = req[d] \/ RequestOK(d)'
         /\ req'[d] \in {Resting} \cup Requests
         /\ req'[d].pc = req[d].pc /\ req'[d].node = req[d].node
<1>1. CASE req[d].pc = "scan" /\ req[d].node = n /\ req[d].via = "live"
  <2>1. req[d] \in Requests /\ req[d] # Resting /\ Len(log) \in Nat
    BY <1>1, Active, LenProperties DEF KvInv, KvTypeOK
  <2>2. /\ sec[n] \in Nat /\ applied[n] \in Nat
        /\ sec[n] <= applied[n] /\ applied[n] <= Len(log)
    BY DEF KvInv, KvTypeOK, SecondaryIsGuarded
  <2>3. req'[d] = [req[d] EXCEPT !.via = "old", !.seq = sec[n]]
    BY <1>1 DEF Replaced
  <2>4. /\ req'[d] \in Requests /\ req'[d].pc = req[d].pc /\ req'[d].via = "old"
        /\ req'[d].seq = sec[n] /\ req'[d].node = req[d].node /\ req'[d].kind = req[d].kind
        /\ req'[d].low = req[d].low /\ req'[d].index = req[d].index
    BY <2>1, <2>2, <2>3 DEF Requests
  <2>5. KindFits(req[d]) /\ IndexCovers(req[d]) /\ HandleCovers(req[d])
    BY <2>1 DEF KvInv, RequestOK
  <2>6. KindFits(req[d])'
    BY <1>1, <2>4, <2>5 DEF KindFits, Reading, Writing
  <2>7. IndexCovers(req[d])'
    BY <1>1, <2>4, <2>5 DEF IndexCovers
  <2>8. HandleCovers(req[d])'
    <3>1. req[d].index <= sec[n] /\ req[d].index \in Nat
      BY <1>1, <2>1, <2>5 DEF HandleCovers, Requests
    <3> QED
      BY <1>1, <2>1, <2>2, <2>4, <3>1 DEF HandleCovers
  <2>9. WriteInLog(d)'
    BY <1>1, <2>4 DEF WriteInLog
  <2> QED
    BY <2>4, <2>6, <2>7, <2>8, <2>9 DEF RequestOK
<1>2. CASE ~(req[d].pc = "scan" /\ req[d].node = n /\ req[d].via = "live")
  BY <1>2 DEF Replaced, KvInv, KvTypeOK
<1> QED
  BY <1>1, <1>2

LEMMA rebuild_secondary_Keeps ==
  ASSUME KvInv, NEW c \in Client, rebuild_secondary(c) PROVE KvInv'
<1> DEFINE n == req[c].node
<1>1. req[c].pc = "rebuild" /\ req[c].pc \in Locked
  BY DEF rebuild_secondary, Locked
<1>2. n \in Ctrl /\ lock' = [lock EXCEPT ![n] = Free] /\ sec' = [sec EXCEPT ![n] = applied[n]]
  BY <1>1, ReaderFacts DEF rebuild_secondary, Unlock
<1>3. req'[c] = [req[c] EXCEPT !.pc = "scan", !.via = "live"]
  <2>1. req'[c] = [req[c] EXCEPT !.pc = "scan"]
    BY DEF rebuild_secondary
  <2>2. req[c] \in Requests /\ req[c].via = "live"
    BY <1>1, ReaderFacts
  <2> QED
    BY <2>1, <2>2 DEF Requests
<1>4. req[c].index <= sec'[n]
  <2>1. sec'[n] = applied[n]
    BY <1>2 DEF KvInv, KvTypeOK
  <2> QED
    BY <1>1, <2>1, ReaderFacts
<1>5. RequestOK(c)' /\ req'[c] \in Requests /\ req'[c].node = n /\ req'[c].pc = "scan"
  BY <1>1, <1>3, <1>4, ReaderRight DEF rebuild_secondary
<1>6. \A d \in Client \ {c} : req'[d] = Replaced(n, d)
  BY DEF rebuild_secondary
<1>7. \A d \in Client \ {c} : /\ req'[d] = req[d] \/ RequestOK(d)'
                              /\ req'[d] \in {Resting} \cup Requests
                              /\ req'[d].pc = req[d].pc /\ req'[d].node = req[d].node
  BY <1>2, <1>6, ReplacedRight DEF rebuild_secondary
<1>8. \A m \in Ctrl : \A d \in Client :
        lock'[m] = d <=> req'[d].pc \in Locked /\ req'[d].node = m
  <2>1. req'[c].pc \notin Locked
    BY <1>5 DEF Locked
  <2> QED
    BY <1>1, <1>2, <1>5, <1>7, <2>1, LockFollows
<1>9. req' \in [Client -> {Resting} \cup Requests]
  <2>1. \A d \in Client : req'[d] \in {Resting} \cup Requests
    BY <1>5, <1>7
  <2> QED
    BY <2>1 DEF rebuild_secondary
<1>10. lock' \in [Ctrl -> Client \cup {Free}]
  BY <1>2 DEF KvInv, KvTypeOK
<1>11. \A d \in Client : req'[d] = req[d] \/ RequestOK(d)'
  BY <1>5, <1>7
<1>12. UNCHANGED <<log, late, leader, applied, faults>>
  BY DEF rebuild_secondary
<1> QED
  BY <1>2, <1>5, <1>8, <1>9, <1>10, <1>11, <1>12, ReaderMove

LEMMA LocalRead_Keeps ==
  ASSUME KvInv, NEW n \in Ctrl, LocalRead(n) PROVE KvInv'
<1>1. /\ sec \in [Ctrl -> Nat] /\ applied \in [Ctrl -> Nat] /\ Len(log) \in Nat
      /\ \A m \in Ctrl : sec[m] <= applied[m] /\ applied[m] <= Len(log)
  BY LenProperties DEF KvInv, KvTypeOK, SecondaryIsGuarded
<1>2. sec' = [sec EXCEPT ![n] = applied[n]] /\ UNCHANGED <<log, late, leader, applied, lock, faults>>
  BY DEF LocalRead
<1>3. sec' \in [Ctrl -> Nat] /\ sec'[n] = applied[n] /\ \A m \in Ctrl \ {n} : sec'[m] = sec[m]
  BY <1>1, <1>2
<1>4. \A m \in Ctrl : sec[m] <= sec'[m] /\ sec'[m] <= applied[m]
  <2>1. \A m \in Ctrl : sec[m] \in Nat /\ applied[m] \in Nat
    BY <1>1
  <2> QED
    BY <1>1, <1>3, <2>1
<1>5. /\ \A d \in Client : /\ req'[d] = req[d] \/ RequestOK(d)'
                           /\ req'[d] \in {Resting} \cup Requests
                           /\ req'[d].pc = req[d].pc /\ req'[d].node = req[d].node
      /\ req' = [d \in Client |-> req'[d]]
  <2>1. CASE req' = req
    BY <2>1 DEF KvInv, KvTypeOK
  <2>2. CASE req' = [d \in Client |-> Replaced(n, d)]
    <3>1. \A d \in Client : req'[d] = Replaced(n, d)
      BY <2>2
    <3> QED
      BY <1>2, <2>2, <3>1, ReplacedRight
  <2> QED
    BY <2>1, <2>2 DEF LocalRead
<1>6. KvTypeOK'
  <2>1. req' \in [Client -> {Resting} \cup Requests]
    BY <1>5
  <2> QED
    BY <1>2, <1>3, <2>1 DEF KvInv, KvTypeOK
<1>7. Grows
  BY <1>1, <1>2, <1>4 DEF Grows
<1>8. \A d \in Client : RequestOK(d)'
  BY <1>5, <1>6, <1>7, RestStaysRight DEF KvInv
<1>9. SecondaryIsGuarded'
  <2>1. \A m \in Ctrl : \A d \in Client :
          lock'[m] = d <=> req'[d].pc \in Locked /\ req'[d].node = m
    BY <1>2, <1>5 DEF KvInv, SecondaryIsGuarded
  <2> QED
    BY <1>1, <1>2, <1>4, <2>1 DEF SecondaryIsGuarded
<1> QED
  BY <1>6, <1>8, <1>9 DEF KvInv

-----------------------------------------------------------------------------
(* Steps that write.                                                       *)

(* A write enters the log: no database moves.                              *)
LEMMA Committed ==
  ASSUME KvInv, NEW w \in Linear!Write, log' = Append(log, w), UNCHANGED store
  PROVE  /\ Grows /\ log' \in Seq(Linear!Write)
         /\ \A m \in Ctrl : sec'[m] <= applied'[m] /\ applied'[m] <= Len(log')
         /\ Len(log') = Len(log) + 1 /\ log'[Len(log) + 1] = w /\ Len(log) \in Nat
<1>1. /\ log' \in Seq(Linear!Write) /\ Len(log') = Len(log) + 1 /\ Len(log) \in Nat
      /\ \A i \in 1 .. Len(log) : log'[i] = log[i]
      /\ log'[Len(log) + 1] = w
  BY LogGrows DEF KvInv
<1>2. /\ \A m \in Ctrl : sec[m] \in Nat /\ applied[m] \in Nat
      /\ \A m \in Ctrl : sec[m] <= applied[m] /\ applied[m] <= Len(log)
  BY DEF KvInv, KvTypeOK, SecondaryIsGuarded
<1>3. Grows
  BY <1>1, <1>2 DEF Grows, store
<1> QED
  BY <1>1, <1>2, <1>3 DEF store

LEMMA Commit_Keeps ==
  ASSUME KvInv, NEW c \in Client, Commit(c) PROVE KvInv'
<1> DEFINE r == [req[c] EXCEPT !.pc = "applied", !.index = Len(log) + 1]
<1>1. req[c] \in Requests /\ req[c] # Resting /\ req[c].pc = "commit"
  BY Active DEF Commit, KvInv
<1>2. WriteOf(c) \in Linear!Write
  BY WriteTyped
<1>3. /\ Grows /\ log' \in Seq(Linear!Write)
      /\ \A m \in Ctrl : sec'[m] <= applied'[m] /\ applied'[m] <= Len(log')
      /\ Len(log') = Len(log) + 1 /\ log'[Len(log) + 1] = WriteOf(c) /\ Len(log) \in Nat
  BY <1>2, Committed DEF Commit
<1>4. req' = [req EXCEPT ![c] = r] /\ UNCHANGED <<late, leader, store, faults>>
  BY DEF Commit
<1>5. /\ r \in Requests /\ r.pc = "applied" /\ r.kind = req[c].kind /\ r.via = req[c].via
      /\ r.low = req[c].low /\ r.index = Len(log) + 1
  <2>1. Len(log) + 1 \in Nat
    BY <1>3
  <2> QED
    BY <1>1, <2>1 DEF Requests, Writing
<1>6. req'[c] = r /\ \A d \in Client \ {c} : req'[d] = req[d]
  BY <1>4 DEF KvInv, KvTypeOK
<1>7. KvTypeOK'
  BY <1>3, <1>4, <1>5 DEF KvInv, KvTypeOK, store
<1>8. RequestOK(c)'
  <2>1. KindFits(req[c]) /\ IndexCovers(req[c]) /\ req[c].low \in Nat
    BY <1>1 DEF KvInv, RequestOK, Requests
  <2>2. KindFits(req[c])'
    BY <1>1, <1>5, <1>6, <2>1 DEF KindFits, Reading, Writing
  <2>3. IndexCovers(req[c])'
    BY <1>1, <1>3, <1>5, <1>6, <2>1 DEF IndexCovers, Reading
  <2>4. HandleCovers(req[c])'
    BY <1>5, <1>6 DEF HandleCovers
  <2>5. WriteInLog(c)'
    <3>1. WriteOf(c)' = WriteOf(c)
      BY <1>5, <1>6 DEF WriteOf
    <3>2. req[c].low < Len(log) + 1
      BY <1>1, <1>3, <2>1 DEF IndexCovers
    <3> QED
      BY <1>3, <1>5, <1>6, <3>1, <3>2 DEF WriteInLog
  <2> QED
    BY <2>2, <2>3, <2>4, <2>5 DEF RequestOK
<1>9. \A d \in Client : RequestOK(d)'
  BY <1>3, <1>6, <1>7, <1>8, OneMoves
<1>10. SecondaryIsGuarded'
  <2>1. \A m \in Ctrl : \A d \in Client :
          lock'[m] = d <=> req'[d].pc \in Locked /\ req'[d].node = m
    <3>1. req[c].pc \notin Locked /\ req'[c].pc \notin Locked
      BY <1>1, <1>5, <1>6 DEF Locked
    <3> QED
      BY <1>4, <1>6, <3>1 DEF KvInv, SecondaryIsGuarded, store
  <2> QED
    BY <1>3, <2>1 DEF SecondaryIsGuarded
<1> QED
  BY <1>7, <1>9, <1>10 DEF KvInv

LEMMA LateCommit_Keeps ==
  ASSUME KvInv, LateCommit PROVE KvInv'
<1>1. PICK w \in late : log' = Append(log, w) /\ late' = late \ {w}
  BY DEF LateCommit
<1>2. w \in Linear!Write
  BY DEF KvInv, KvTypeOK
<1>3. UNCHANGED <<leader, store, req, faults>>
  BY DEF LateCommit
<1>4. /\ Grows /\ log' \in Seq(Linear!Write)
      /\ \A m \in Ctrl : sec'[m] <= applied'[m] /\ applied'[m] <= Len(log')
  BY <1>1, <1>2, <1>3, Committed
<1>5. KvTypeOK'
  BY <1>1, <1>3, <1>4 DEF KvInv, KvTypeOK, store
<1>6. \A d \in Client : RequestOK(d)'
  BY <1>3, <1>4, <1>5, RestStaysRight DEF KvInv
<1>7. SecondaryIsGuarded'
  BY <1>3, <1>4 DEF KvInv, SecondaryIsGuarded, store
<1> QED
  BY <1>5, <1>6, <1>7 DEF KvInv

LEMMA Apply_Keeps ==
  ASSUME KvInv, NEW n \in Ctrl, Apply(n) PROVE KvInv'
<1>1. /\ sec \in [Ctrl -> Nat] /\ applied \in [Ctrl -> Nat] /\ Len(log) \in Nat
      /\ \A m \in Ctrl : sec[m] <= applied[m] /\ applied[m] <= Len(log)
  BY LenProperties DEF KvInv, KvTypeOK, SecondaryIsGuarded
<1>2. /\ applied' = [applied EXCEPT ![n] = @ + 1] /\ applied[n] < Len(log)
      /\ UNCHANGED <<log, late, leader, sec, lock, req, faults>>
  BY DEF Apply
<1>3. /\ applied' \in [Ctrl -> Nat] /\ applied'[n] = applied[n] + 1
      /\ \A m \in Ctrl \ {n} : applied'[m] = applied[m]
  BY <1>1, <1>2
<1>4. \A m \in Ctrl : sec[m] <= applied'[m] /\ applied[m] <= applied'[m] /\ applied'[m] <= Len(log)
  <2>1. \A m \in Ctrl : sec[m] \in Nat /\ applied[m] \in Nat
    BY <1>1
  <2> QED
    BY <1>1, <1>2, <1>3, <2>1
<1>5. KvTypeOK'
  BY <1>2, <1>3 DEF KvInv, KvTypeOK
<1>6. Grows
  <2>1. \A m \in Ctrl : sec[m] <= sec'[m]
    BY <1>1, <1>2
  <2> QED
    BY <1>1, <1>2, <1>4, <2>1 DEF Grows
<1>7. \A d \in Client : RequestOK(d)'
  BY <1>2, <1>5, <1>6, RestStaysRight DEF KvInv
<1>8. SecondaryIsGuarded'
  BY <1>2, <1>4 DEF KvInv, SecondaryIsGuarded
<1> QED
  BY <1>5, <1>7, <1>8 DEF KvInv

-----------------------------------------------------------------------------
(* Elections and restarts.                                                 *)

LEMMA Elect_Keeps ==
  ASSUME KvInv, Elect PROVE KvInv'
<1>1. KvTypeOK'
  BY DEF Elect, KvInv, KvTypeOK, store
<1>2. Grows
  BY StoreStays DEF Elect, KvInv, store
<1>3. \A d \in Client : RequestOK(d)'
  BY <1>1, <1>2, RestStaysRight DEF Elect, KvInv
<1>4. SecondaryIsGuarded'
  BY DEF Elect, KvInv, SecondaryIsGuarded, store
<1> QED
  BY <1>1, <1>3, <1>4 DEF KvInv

LEMMA Restart_Keeps ==
  ASSUME KvInv, NEW n \in Ctrl, Restart(n) PROVE KvInv'
<1> DEFINE here == {c \in Client : req[c] # Resting /\ req[c].node = n}
<1>1. /\ sec \in [Ctrl -> Nat] /\ applied \in [Ctrl -> Nat] /\ Len(log) \in Nat
      /\ \A m \in Ctrl : sec[m] <= applied[m] /\ applied[m] <= Len(log)
  BY LenProperties DEF KvInv, KvTypeOK, SecondaryIsGuarded
<1>2. /\ req' = [c \in Client |-> IF c \in here THEN Resting ELSE req[c]]
      /\ sec' = [sec EXCEPT ![n] = applied[n]]
      /\ lock' = [lock EXCEPT ![n] = Free]
      /\ UNCHANGED <<log, applied>>
  BY DEF Restart
<1>3. sec' \in [Ctrl -> Nat] /\ sec'[n] = applied[n] /\ \A m \in Ctrl \ {n} : sec'[m] = sec[m]
  BY <1>1, <1>2
<1>4. \A m \in Ctrl : sec[m] <= sec'[m] /\ sec'[m] <= applied[m]
  <2>1. \A m \in Ctrl : sec[m] \in Nat /\ applied[m] \in Nat
    BY <1>1
  <2> QED
    BY <1>1, <1>3, <2>1
<1>5. KvTypeOK'
  <2>1. late' \subseteq Linear!Write
    BY WriteTyped DEF Restart, KvInv, KvTypeOK
  <2>2. req' \in [Client -> {Resting} \cup Requests]
    BY <1>2 DEF KvInv, KvTypeOK
  <2>3. leader' \in Ctrl \cup {NoNode} /\ faults' \in Nat
    BY DEF Restart, KvInv, KvTypeOK
  <2>4. lock' \in [Ctrl -> Client \cup {Free}]
    BY <1>2 DEF KvInv, KvTypeOK
  <2> QED
    BY <1>2, <1>3, <2>1, <2>2, <2>3, <2>4 DEF KvInv, KvTypeOK
<1>6. Grows
  BY <1>1, <1>2, <1>4 DEF Grows
<1>7. \A d \in Client : RequestOK(d)'
  <2> SUFFICES ASSUME NEW d \in Client PROVE RequestOK(d)'
    OBVIOUS
  <2>1. req'[d] = Resting \/ req'[d] = req[d]
    BY <1>2
  <2> QED
    BY <1>5, <1>6, <2>1, RestStaysRight DEF KvInv, RequestOK
<1>8. \A m \in Ctrl : \A d \in Client :
        lock'[m] = d <=> req'[d].pc \in Locked /\ req'[d].node = m
  <2> SUFFICES ASSUME NEW m \in Ctrl, NEW d \in Client
               PROVE  lock'[m] = d <=> req'[d].pc \in Locked /\ req'[d].node = m
    OBVIOUS
  <2>1. lock[m] = d <=> req[d].pc \in Locked /\ req[d].node = m
    BY DEF KvInv, SecondaryIsGuarded
  <2>2. Free # d /\ Resting.pc \notin Locked
    BY KvAssumption DEF Resting, Locked
  <2>3. lock'[n] = Free /\ (m # n => lock'[m] = lock[m])
    BY <1>2 DEF KvInv, KvTypeOK
  <2>4. CASE d \in here
    BY <1>2, <2>1, <2>2, <2>3, <2>4
  <2>5. CASE d \notin here
    <3>1. req'[d] = req[d] /\ (req[d] = Resting \/ req[d].node # n)
      BY <1>2, <2>5
    <3> QED
      BY <2>1, <2>2, <2>3, <3>1
  <2> QED
    BY <2>4, <2>5
<1>9. SecondaryIsGuarded'
  BY <1>1, <1>2, <1>4, <1>8 DEF SecondaryIsGuarded
<1> QED
  BY <1>5, <1>7, <1>9 DEF KvInv

LEMMA StutterKeeps == KvInv /\ UNCHANGED kvVars => KvInv'
<1> SUFFICES ASSUME KvInv, UNCHANGED kvVars PROVE KvInv'
  OBVIOUS
<1>1. KvTypeOK'
  BY DEF KvInv, KvTypeOK, kvVars
<1>2. \A d \in Client : RequestOK(d)'
  BY <1>1, StoreStays, RestStaysRight DEF KvInv, kvVars
<1>3. SecondaryIsGuarded'
  BY DEF KvInv, SecondaryIsGuarded, kvVars
<1> QED
  BY <1>1, <1>2, <1>3 DEF KvInv

LEMMA InitInv == Init => KvInv
<1> SUFFICES ASSUME Init PROVE KvInv
  OBVIOUS
<1>1. log = <<>> /\ log \in Seq(Linear!Write) /\ Len(log) = 0
  BY EmptySeq DEF Init
<1>2. KvTypeOK
  BY <1>1 DEF Init, KvTypeOK
<1>3. \A n \in Ctrl, c \in Client : lock[n] # c /\ req[c] = Resting /\ req[c].pc \notin Locked
  BY KvAssumption DEF Init, Resting, Locked
<1>4. \A n \in Ctrl : sec[n] = 0 /\ applied[n] = 0
  BY DEF Init
<1> QED
  BY <1>1, <1>2, <1>3, <1>4 DEF Init, KvInv, SecondaryIsGuarded, RequestOK

LEMMA StepKeeps == KvInv /\ [Next]_kvVars => KvInv'
<1> SUFFICES ASSUME KvInv, [Next]_kvVars PROVE KvInv'
  OBVIOUS
<1>1. ASSUME NEW c \in Client, Serve(c) PROVE KvInv'
  BY <1>1, Forward_Keeps, get_read_linearizer_Keeps, QuorumNotEnough_Keeps, await_ready_Keeps,
     Lock_Keeps, catch_up_Keeps, Gap_Keeps, rebuild_secondary_Keeps, primary_fallback_Keeps,
     Scan_Keeps, client_write_Keeps, Commit_Keeps, WriteLost_Keeps, WriteApplied_Keeps,
     Return_Keeps DEF Serve
<1> QED
  BY <1>1, Elect_Keeps, LateCommit_Keeps, Apply_Keeps, LocalRead_Keeps, Restart_Keeps,
     Receive_Keeps, StutterKeeps DEF Next

(* The invariant behind every read and write of the service: handles cover *)
(* read indexes, read indexes are committed and applied, and the catch-up  *)
(* lock is exactly where synced_db of store.rs holds it.                   *)
THEOREM KvInvariant == KvSpec => []KvInv
  BY InitInv, StepKeeps, PTL DEF KvSpec

(* Whoever reads holds a database with all that its read index promised,   *)
(* for any number of readers, rebuilds and restarts (synced_db, store.rs). *)
THEOREM HandlesCoverIndexes == KvSpec => []HandleCoversIndex
<1>1. KvInv => HandleCoversIndex
  <2> SUFFICES ASSUME KvInv, NEW c \in Client, req[c].pc = "scan"
               PROVE  HandleSeq(c) >= req[c].index
    BY DEF HandleCoversIndex
  <2>1. req[c].index \in Nat /\ Len(log) \in Nat
    BY Active, LenProperties DEF KvInv, KvTypeOK, Requests
  <2> QED
    BY <2>1, HandleSeqCases
<1> QED
  BY <1>1, KvInvariant, PTL

(* One reader at a time works on a secondary, and no way out of synced_db  *)
(* keeps the lock.                                                         *)
THEOREM SecondaryStaysGuarded == KvSpec => []SecondaryIsGuarded
<1>1. KvInv => SecondaryIsGuarded
  BY DEF KvInv
<1> QED
  BY <1>1, KvInvariant, PTL

-----------------------------------------------------------------------------
(* The refinement.  Only seven actions change what LinearKv sees.          *)

Tried  == late \cup {WriteOf(c) : c \in {d \in Client : req[d].pc = "commit"}}
Ops    == [c \in Client |-> AbstractOp(req[c])]
Seen   == <<log, Tried, Ops>>

(* A request as its caller sees it.                                        *)
LEMMA OpCases ==
  ASSUME NEW r
  PROVE  /\ r = Resting => AbstractOp(r) = [st |-> "rest"]
         /\ r # Resting /\ r.pc = "answered" =>
              AbstractOp(r) = [st |-> "answered", ok |-> r.ok, at |-> r.index]
         /\ r # Resting /\ r.pc # "answered" =>
              AbstractOp(r) = [st |-> "called", kind |-> r.kind, low |-> r.low,
                               may |-> r.kind = "set" \/ r.pc \in Writing]
<1>1. Resting.pc # "answered"
  BY DEF Resting
<1>2. CASE r = Resting
  BY <1>1, <1>2 DEF AbstractOp
<1>3. CASE r # Resting /\ r.pc = "answered"
  BY <1>3 DEF AbstractOp
<1>4. CASE r # Resting /\ r.pc # "answered"
  BY <1>4 DEF AbstractOp, Writing
<1> QED
  BY <1>2, <1>3, <1>4

(* A request that goes on without being seen.                              *)
LEMMA SameOp ==
  ASSUME NEW r, NEW q, r # Resting, q # Resting, r.pc # "answered", q.pc # "answered",
         q.kind = r.kind, q.low = r.low, q.pc \in Writing <=> r.pc \in Writing
  PROVE  AbstractOp(q) = AbstractOp(r)
<1>1. /\ AbstractOp(r) = [st |-> "called", kind |-> r.kind, low |-> r.low,
                          may |-> r.kind = "set" \/ r.pc \in Writing]
      /\ AbstractOp(q) = [st |-> "called", kind |-> q.kind, low |-> q.low,
                          may |-> q.kind = "set" \/ q.pc \in Writing]
  BY OpCases
<1>2. (q.kind = "set" \/ q.pc \in Writing) = (r.kind = "set" \/ r.pc \in Writing)
  OBVIOUS
<1> QED
  BY <1>1, <1>2

(* Proposals under way, when nobody proposes or gives up.                  *)
LEMMA SameTried ==
  ASSUME late' = late,
         \A d \in Client : req'[d] = req[d] \/ (req'[d].pc # "commit" /\ req[d].pc # "commit")
  PROVE  Tried' = Tried
<1>1. \A d \in Client : req'[d].pc = "commit" <=> req[d].pc = "commit"
  OBVIOUS
<1>2. \A d \in Client : req[d].pc = "commit" => WriteOf(d)' = WriteOf(d)
  BY DEF WriteOf
<1> QED
  BY <1>1, <1>2 DEF Tried

(* A step of one request: what is seen changes at most in its operation.   *)
LEMMA OneSeen ==
  ASSUME NEW c \in Client, \A d \in Client \ {c} : req'[d] = req[d]
  PROVE  /\ Ops' = [Ops EXCEPT ![c] = AbstractOp(req'[c])] /\ Ops[c] = AbstractOp(req[c])
         /\ DOMAIN Ops = Client
  BY DEF Ops

LEMMA Unseen ==
  ASSUME log' = log, late' = late,
         \A d \in Client :
           \/ req'[d] = req[d]
           \/ /\ req[d] # Resting /\ req'[d] # Resting
              /\ req[d].pc \notin {"answered", "commit"} /\ req'[d].pc \notin {"answered", "commit"}
              /\ req'[d].kind = req[d].kind /\ req'[d].low = req[d].low
              /\ req'[d].pc \in Writing <=> req[d].pc \in Writing
  PROVE  UNCHANGED Seen
<1>1. Tried' = Tried
  BY SameTried
<1>2. \A d \in Client : AbstractOp(req'[d]) = AbstractOp(req[d])
  BY SameOp
<1>3. Ops' = Ops
  BY <1>2 DEF Ops
<1> QED
  BY <1>1, <1>3 DEF Seen

(* A reader on its way, up to the read itself.                             *)
LEMMA ReaderUnseen ==
  ASSUME KvInv, NEW c \in Client, NEW pc \in Reading, req[c].pc \in Reading,
         log' = log, late' = late, req' = [req EXCEPT ![c] = [req[c] EXCEPT !.pc = pc]]
  PROVE  UNCHANGED Seen
<1>1. req[c] \in Requests /\ req[c] # Resting
  BY Active DEF KvInv, Reading
<1>2. /\ req'[c] = [req[c] EXCEPT !.pc = pc] /\ \A d \in Client \ {c} : req'[d] = req[d]
  BY DEF KvInv, KvTypeOK
<1>3. req'[c].pc = pc /\ req'[c].kind = req[c].kind /\ req'[c].low = req[c].low /\ req'[c] # Resting
  BY <1>1, <1>2 DEF Requests, Resting, Reading
<1>4. /\ req[c].pc \notin {"answered", "commit"} /\ req'[c].pc \notin {"answered", "commit"}
      /\ req[c].pc \notin Writing /\ req'[c].pc \notin Writing
  BY <1>3 DEF Reading, Writing
<1> QED
  BY <1>1, <1>2, <1>3, <1>4, Unseen

(* The steps of LinearKv, in terms of what is seen.                        *)
LEMMA SeenSteps ==
  ASSUME NEW c \in Client
  PROVE  /\ \A k \in Linear!Kind :
              /\ Ops[c] = [st |-> "rest"] /\ log' = log /\ Tried' = Tried
              /\ Ops' = [Ops EXCEPT ![c] = [st |-> "called", kind |-> k, low |-> Len(log),
                                            may |-> k = "set"]]
              => Linear!Call(c)
         /\ /\ Ops[c].st = "called" /\ Ops[c].kind \in {"update", "delete"}
            /\ \E i \in Ops[c].low .. Len(log) : Linear!Present(log, i)
            /\ Ops' = [Ops EXCEPT ![c].may = TRUE] /\ log' = log /\ Tried' = Tried
            => Linear!Check(c)
         /\ /\ Ops[c].st = "called" /\ Ops[c].may
            /\ Tried' = Tried \cup {Linear!WriteOf(c, Ops[c].kind)}
            /\ log' = log /\ Ops' = Ops
            => Linear!Try(c)
         /\ \A ok \in BOOLEAN : \A at \in Ops[c].low .. Len(log) :
              /\ Ops[c].st = "called" /\ Linear!AnswerIsRight(c, ok, at)
              /\ Ops' = [Ops EXCEPT ![c] = [st |-> "answered", ok |-> ok, at |-> at]]
              /\ log' = log /\ Tried' = Tried
              => Linear!Answer(c)
<1>1. ASSUME NEW k \in Linear!Kind,
             Ops[c] = [st |-> "rest"], log' = log, Tried' = Tried,
             Ops' = [Ops EXCEPT ![c] = [st |-> "called", kind |-> k, low |-> Len(log),
                                        may |-> k = "set"]]
      PROVE  Linear!Call(c)
  BY <1>1 DEF Linear!Call, Linear!Rest, Ops, Tried
<1>2. ASSUME Ops[c].st = "called", Ops[c].kind \in {"update", "delete"},
             \E i \in Ops[c].low .. Len(log) : Linear!Present(log, i),
             Ops' = [Ops EXCEPT ![c].may = TRUE], log' = log, Tried' = Tried
      PROVE  Linear!Check(c)
  BY <1>2 DEF Linear!Check, Linear!Since, Ops, Tried
<1>3. ASSUME Ops[c].st = "called", Ops[c].may,
             Tried' = Tried \cup {Linear!WriteOf(c, Ops[c].kind)}, log' = log, Ops' = Ops
      PROVE  Linear!Try(c)
  BY <1>3 DEF Linear!Try, Ops, Tried
<1>4. ASSUME NEW ok \in BOOLEAN, NEW at \in Ops[c].low .. Len(log),
             Ops[c].st = "called", Linear!AnswerIsRight(c, ok, at),
             Ops' = [Ops EXCEPT ![c] = [st |-> "answered", ok |-> ok, at |-> at]],
             log' = log, Tried' = Tried
      PROVE  Linear!Answer(c)
  BY <1>4 DEF Linear!Answer, Linear!Since, Ops, Tried
<1> QED
  BY <1>1, <1>2, <1>3, <1>4

LEMMA SeenCommit ==
  ASSUME NEW w \in Tried, log' = Append(log, w), Tried' \in {Tried, Tried \ {w}}, Ops' = Ops
  PROVE  Linear!Commit
  BY DEF Linear!Commit, Ops, Tried

LEMMA SeenReturn ==
  ASSUME NEW S \in SUBSET Client,
         Ops' = [c \in Client |-> IF c \in S THEN [st |-> "rest"] ELSE Ops[c]],
         log' = log, Tried' = Tried
  PROVE  Linear!Return
  BY DEF Linear!Return, Linear!Rest, Ops, Tried

(* Each action of the service is one of those steps, or is not seen.       *)

LEMMA Receive_Calls ==
  ASSUME KvInv, NEW c \in Client, NEW n \in Ctrl, Receive(c, n) PROVE Linear!Call(c)
<1>1. PICK k \in Kinds : req' = [req EXCEPT ![c] = Request(n, k)]
  BY DEF Receive
<1>2. req'[c] = Request(n, k) /\ \A d \in Client \ {c} : req'[d] = req[d]
  BY <1>1 DEF KvInv, KvTypeOK
<1>3. /\ Request(n, k).pc = (IF k = "set" THEN "write" ELSE "probe") /\ Request(n, k).kind = k
      /\ Request(n, k).low = Len(log) /\ Request(n, k) # Resting
  BY DEF Request, Resting
<1>4. AbstractOp(Request(n, k)) = [st |-> "called", kind |-> k, low |-> Len(log), may |-> k = "set"]
  <2>1. Request(n, k).pc # "answered"
    BY <1>3
  <2>2. (k = "set" \/ Request(n, k).pc \in Writing) = (k = "set")
    BY <1>3 DEF Writing
  <2> QED
    BY <1>3, <2>1, <2>2, OpCases
<1>5. Ops[c] = [st |-> "rest"] /\ Ops' = [Ops EXCEPT ![c] = AbstractOp(Request(n, k))]
  BY <1>2, OneSeen, OpCases DEF Receive
<1>6. Tried' = Tried
  <2>1. req'[c].pc # "commit" /\ req[c].pc # "commit"
    BY <1>2, <1>3 DEF Receive, Resting
  <2> QED
    BY <1>2, <2>1, SameTried DEF Receive
<1>7. k \in Linear!Kind /\ log' = log
  BY KvAssumption DEF Linear!Kind, Receive
<1> QED
  BY <1>4, <1>5, <1>6, <1>7, SeenSteps

(* The caller takes the answer or an error.                                *)
LEMMA Rest_Returns ==
  ASSUME KvInv, NEW c \in Client, req' = [req EXCEPT ![c] = Resting],
         log' = log, Tried' = Tried
  PROVE  Linear!Return
<1>1. req'[c] = Resting /\ \A d \in Client \ {c} : req'[d] = req[d]
  BY DEF KvInv, KvTypeOK
<1>2. AbstractOp(Resting) = [st |-> "rest"]
  BY OpCases
<1>3. Ops' = [Ops EXCEPT ![c] = [st |-> "rest"]] /\ DOMAIN Ops = Client
  BY <1>1, <1>2, OneSeen
<1>4. Ops' = [d \in Client |-> IF d \in {c} THEN [st |-> "rest"] ELSE Ops[d]]
  BY <1>3
<1> QED
  BY <1>4, SeenReturn

LEMMA Failed_Returns ==
  ASSUME KvInv, NEW c \in Client, req' = [req EXCEPT ![c] = Resting],
         req[c].pc # "commit", log' = log, late' = late
  PROVE  Linear!Return
<1>1. req'[c] = Resting /\ \A d \in Client \ {c} : req'[d] = req[d]
  BY DEF KvInv, KvTypeOK
<1>2. Resting.pc # "commit"
  BY DEF Resting
<1>3. Tried' = Tried
  BY <1>1, <1>2, SameTried
<1> QED
  BY <1>3, Rest_Returns

LEMMA WriteLost_Returns ==
  ASSUME KvInv, NEW c \in Client, WriteLost(c) PROVE Linear!Return
<1>1. /\ req' = [req EXCEPT ![c] = Resting] /\ late' = late \cup {WriteOf(c)}
      /\ req[c].pc = "commit" /\ log' = log
  BY DEF WriteLost, Fail
<1>2. req'[c] = Resting /\ \A d \in Client \ {c} : req'[d] = req[d]
  BY <1>1 DEF KvInv, KvTypeOK
<1>3. /\ \A d \in Client : req'[d].pc = "commit" <=> d # c /\ req[d].pc = "commit"
      /\ \A d \in Client \ {c} : WriteOf(d)' = WriteOf(d)
  BY <1>2 DEF Resting, WriteOf
<1>4. Tried' = Tried
  BY <1>1, <1>3 DEF Tried
<1> QED
  BY <1>1, <1>4, Rest_Returns

(* An answer, from the read itself or from a write that is applied.        *)
LEMMA Answered_Answers ==
  ASSUME KvInv, NEW c \in Client, req[c].pc \in {"scan", "applied"},
         NEW ok \in BOOLEAN, NEW at \in req[c].low .. Len(log), Answered(c, ok, at),
         Linear!AnswerIsRight(c, ok, at), log' = log, late' = late
  PROVE  Linear!Answer(c)
<1> DEFINE r == [req[c] EXCEPT !.pc = "answered", !.ok = ok, !.index = at,
                               !.low = 0, !.via = "live", !.seq = 0]
<1>1. req[c] \in Requests /\ req[c] # Resting
  BY Active DEF KvInv
<1>2. req'[c] = r /\ \A d \in Client \ {c} : req'[d] = req[d]
  BY DEF Answered, KvInv, KvTypeOK
<1>3. r.pc = "answered" /\ r.ok = ok /\ r.index = at /\ r # Resting
  BY <1>1 DEF Requests, Resting
<1>4. AbstractOp(r) = [st |-> "answered", ok |-> ok, at |-> at]
  BY <1>3, OpCases
<1>5. Ops' = [Ops EXCEPT ![c] = AbstractOp(r)] /\ Ops[c] = AbstractOp(req[c])
  BY <1>2, OneSeen
<1>6. /\ Ops[c] = [st |-> "called", kind |-> req[c].kind, low |-> req[c].low,
                   may |-> req[c].kind = "set" \/ req[c].pc \in Writing]
  BY <1>1, <1>5, OpCases
<1>7. Ops[c].st = "called" /\ Ops[c].low = req[c].low
  BY <1>6
<1>8. Tried' = Tried
  BY <1>2, <1>3, SameTried
<1> QED
  BY <1>4, <1>5, <1>7, <1>8, SeenSteps

(* What LinearKv asks of an answer, in terms of the request.               *)
LEMMA RightAnswer ==
  ASSUME KvInv, NEW c \in Client, req[c] # Resting, req[c].pc # "answered",
         NEW ok \in BOOLEAN, NEW at \in req[c].low .. Len(log),
         req[c].kind = "get" => ok,
         req[c].kind # "get" /\ ok => at > req[c].low /\ log[at] = WriteOf(c),
         ~ok => req[c].kind # "set" /\ ~Present(at)
  PROVE  Linear!AnswerIsRight(c, ok, at)
<1>1. Ops[c] = AbstractOp(req[c])
  BY DEF Ops
<1>2. Ops[c] = [st |-> "called", kind |-> req[c].kind, low |-> req[c].low,
                may |-> req[c].kind = "set" \/ req[c].pc \in Writing]
  BY <1>1, OpCases
<1>3. Ops[c].kind = req[c].kind /\ Ops[c].low = req[c].low
  BY <1>2
<1>4. WriteOf(c) = Linear!WriteOf(c, req[c].kind) /\ Linear!Present(log, at) = Present(at)
  BY DEF WriteOf, Linear!WriteOf, Linear!Present, Present
<1>5. CASE req[c].kind = "get"
  BY <1>3, <1>5 DEF Linear!AnswerIsRight, Linear!Since, Ops
<1>6. CASE req[c].kind # "get" /\ ok
  BY <1>3, <1>4, <1>6 DEF Linear!AnswerIsRight, Linear!Since, Ops
<1>7. CASE req[c].kind # "get" /\ ~ok
  BY <1>3, <1>4, <1>7 DEF Linear!AnswerIsRight, Linear!Since, Ops
<1> QED
  BY <1>5, <1>6, <1>7

LEMMA MaySet ==
  ASSUME NEW o, NEW k, NEW l, NEW a, NEW b,
         o = [st |-> "called", kind |-> k, low |-> l, may |-> a]
  PROVE  [o EXCEPT !.may = b] = [st |-> "called", kind |-> k, low |-> l, may |-> b]
  OBVIOUS

LEMMA Scan_Answers ==
  ASSUME KvInv, NEW c \in Client, Scan(c) PROVE Linear!Answer(c) \/ Linear!Check(c)
<1> DEFINE at == HandleSeq(c)
           r  == [req[c] EXCEPT !.pc = "write", !.index = 0, !.via = "live", !.seq = 0]
<1>1. /\ req[c] \in Requests /\ req[c] # Resting /\ Len(log) \in Nat /\ req[c].pc = "scan"
      /\ req[c].kind # "set" /\ req[c].kind \in Kinds /\ req[c].low \in Nat
  <2>1. req[c] \in Requests /\ req[c] # Resting /\ Len(log) \in Nat /\ req[c].pc = "scan"
    BY Active, LenProperties DEF Scan, KvInv, KvTypeOK
  <2> QED
    BY <2>1 DEF KvInv, RequestOK, KindFits, Reading, Requests
<1>2. at \in req[c].low .. Len(log)
  BY <1>1, HandleSeqCases
<1>3. log' = log /\ late' = late
  BY DEF Scan
<1>4. CASE req[c].kind = "get" /\ Answered(c, TRUE, at)
  <2>1. Linear!AnswerIsRight(c, TRUE, at)
    BY <1>1, <1>2, <1>4, RightAnswer
  <2> QED
    BY <1>1, <1>2, <1>3, <1>4, <2>1, Answered_Answers
<1>5. CASE req[c].kind # "get" /\ ~Present(at) /\ Answered(c, FALSE, at)
  <2>1. Linear!AnswerIsRight(c, FALSE, at)
    BY <1>1, <1>2, <1>5, RightAnswer
  <2> QED
    BY <1>1, <1>2, <1>3, <1>5, <2>1, Answered_Answers
<1>6. CASE req[c].kind # "get" /\ Present(at) /\ req' = [req EXCEPT ![c] = r]
  <2>1. req'[c] = r /\ \A d \in Client \ {c} : req'[d] = req[d]
    BY <1>6 DEF KvInv, KvTypeOK
  <2>2. r.pc = "write" /\ r.kind = req[c].kind /\ r.low = req[c].low /\ r # Resting
    BY <1>1 DEF Requests, Resting
  <2>3. AbstractOp(r) = [st |-> "called", kind |-> req[c].kind, low |-> req[c].low, may |-> TRUE]
    <3>1. (r.kind = "set" \/ r.pc \in Writing) = TRUE /\ r.pc # "answered"
      BY <2>2 DEF Writing
    <3> QED
      BY <2>2, <3>1, OpCases
  <2>4. Ops[c] = [st |-> "called", kind |-> req[c].kind, low |-> req[c].low, may |-> FALSE]
    <3>1. (req[c].kind = "set" \/ req[c].pc \in Writing) = FALSE /\ req[c].pc # "answered"
      BY <1>1 DEF Writing
    <3>2. Ops[c] = AbstractOp(req[c])
      BY DEF Ops
    <3> QED
      BY <1>1, <3>1, <3>2, OpCases
  <2>5. Ops' = [Ops EXCEPT ![c] = AbstractOp(r)]
    BY <2>1, OneSeen
  <2>6. Ops' = [Ops EXCEPT ![c].may = TRUE]
    <3>1. AbstractOp(r) = [Ops[c] EXCEPT !.may = TRUE]
      <4> DEFINE k == req[c].kind
                 l == req[c].low
      <4>1. \A b : [Ops[c] EXCEPT !.may = b] = [st |-> "called", kind |-> k, low |-> l, may |-> b]
        BY <2>4, MaySet
      <4>2. [Ops[c] EXCEPT !.may = TRUE] = [st |-> "called", kind |-> k, low |-> l, may |-> TRUE]
        BY <4>1
      <4> QED
        BY <2>3, <4>2
    <3> QED
      BY <2>5, <3>1
  <2>7. Tried' = Tried
    BY <1>1, <1>3, <2>1, <2>2, SameTried
  <2>8. Ops[c].st = "called" /\ Ops[c].kind \in {"update", "delete"} /\ Ops[c].low = req[c].low
    BY <1>1, <1>6, <2>4, KvAssumption
  <2>9. Linear!Present(log, at)
    BY <1>6 DEF Linear!Present, Present
  <2> QED
    BY <1>2, <1>3, <2>6, <2>7, <2>8, <2>9, SeenSteps
<1> QED
  BY <1>4, <1>5, <1>6 DEF Scan

LEMMA WriteApplied_Answers ==
  ASSUME KvInv, NEW c \in Client, WriteApplied(c) PROVE Linear!Answer(c)
<1>1. /\ req[c] \in Requests /\ req[c] # Resting /\ Len(log) \in Nat /\ req[c].pc = "applied"
  BY Active, LenProperties DEF WriteApplied, KvInv, KvTypeOK
<1>2. KindFits(req[c]) /\ WriteInLog(c) /\ req[c].low \in Nat /\ req[c].index \in Nat
  BY <1>1 DEF KvInv, RequestOK, Requests
<1>3. /\ req[c].kind # "get" /\ req[c].low < req[c].index
      /\ req[c].index <= Len(log) /\ log[req[c].index] = WriteOf(c)
  BY <1>1, <1>2 DEF KindFits, WriteInLog, Writing
<1>4. req[c].index \in req[c].low .. Len(log) /\ req[c].index > req[c].low
  BY <1>1, <1>2, <1>3
<1>5. Linear!AnswerIsRight(c, TRUE, req[c].index)
  BY <1>1, <1>3, <1>4, RightAnswer
<1> QED
  BY <1>1, <1>4, <1>5, Answered_Answers DEF WriteApplied

LEMMA client_write_Tries ==
  ASSUME KvInv, NEW c \in Client, client_write(c) PROVE Linear!Try(c)
<1> DEFINE r == [req[c] EXCEPT !.pc = "commit"]
<1>1. req[c] \in Requests /\ req[c] # Resting /\ req[c].pc = "write" /\ req[c].pc # "answered"
  BY Active DEF client_write, KvInv
<1>2. req'[c] = r /\ (\A d \in Client \ {c} : req'[d] = req[d]) /\ log' = log /\ late' = late
  BY DEF client_write, Goto, KvInv, KvTypeOK
<1>3. r.pc = "commit" /\ r.kind = req[c].kind /\ r.low = req[c].low /\ r # Resting
  BY <1>1 DEF Requests, Resting
<1>4. AbstractOp(r) = AbstractOp(req[c])
  BY <1>1, <1>3, SameOp DEF Writing
<1>5. Ops' = Ops
  BY <1>2, <1>4 DEF Ops
<1>6. Ops[c] = [st |-> "called", kind |-> req[c].kind, low |-> req[c].low, may |-> TRUE]
  <2>1. Ops[c] = AbstractOp(req[c])
    BY DEF Ops
  <2>2. (req[c].kind = "set" \/ req[c].pc \in Writing) = TRUE
    BY <1>1 DEF Writing
  <2> QED
    BY <1>1, <2>1, <2>2, OpCases
<1>7. Ops[c].st = "called" /\ Ops[c].may /\ Ops[c].kind = req[c].kind
  BY <1>6
<1>8. Tried' = Tried \cup {Linear!WriteOf(c, req[c].kind)}
  <2>1. \A d \in Client : req'[d].pc = "commit" <=> d = c \/ req[d].pc = "commit"
    BY <1>2, <1>3
  <2>2. \A d \in Client : WriteOf(d)' = WriteOf(d)
    BY <1>2, <1>3 DEF WriteOf
  <2>3. WriteOf(c) = Linear!WriteOf(c, req[c].kind)
    BY DEF WriteOf, Linear!WriteOf
  <2> QED
    BY <1>2, <2>1, <2>2, <2>3 DEF Tried
<1> QED
  BY <1>2, <1>5, <1>7, <1>8, SeenSteps

LEMMA Commit_Commits ==
  ASSUME KvInv, NEW c \in Client, Commit(c) PROVE Linear!Commit
<1> DEFINE r == [req[c] EXCEPT !.pc = "applied", !.index = Len(log) + 1]
<1>1. req[c] \in Requests /\ req[c] # Resting /\ req[c].pc = "commit"
  BY Active DEF Commit, KvInv
<1>2. /\ req'[c] = r /\ (\A d \in Client \ {c} : req'[d] = req[d])
      /\ log' = Append(log, WriteOf(c)) /\ late' = late
  BY DEF Commit, KvInv, KvTypeOK
<1>3. r.pc = "applied" /\ r.kind = req[c].kind /\ r.low = req[c].low /\ r # Resting
  BY <1>1 DEF Requests, Resting
<1>4. Ops' = Ops
  <2>1. AbstractOp(r) = AbstractOp(req[c])
    BY <1>1, <1>3, SameOp DEF Writing
  <2> QED
    BY <1>2, <2>1 DEF Ops
<1>5. WriteOf(c) \in Tried
  BY <1>1 DEF Tried
<1>6. Tried' \in {Tried, Tried \ {WriteOf(c)}}
  <2>1. \A d \in Client : req'[d].pc = "commit" <=> d # c /\ req[d].pc = "commit"
    BY <1>2, <1>3
  <2>2. \A d \in Client \ {c} : WriteOf(d)' = WriteOf(d) /\ WriteOf(d) # WriteOf(c)
    BY <1>2 DEF WriteOf
  <2> DEFINE others == {WriteOf(d) : d \in {e \in Client \ {c} : req[e].pc = "commit"}}
  <2>3. Tried = late \cup others \cup {WriteOf(c)} /\ Tried' = late \cup others
    BY <1>1, <1>2, <2>1, <2>2 DEF Tried
  <2>4. WriteOf(c) \notin others
    BY <2>2
  <2> QED
    BY <2>3, <2>4
<1> QED
  BY <1>2, <1>4, <1>5, <1>6, SeenCommit

LEMMA LateCommit_Commits ==
  ASSUME KvInv, LateCommit PROVE Linear!Commit
<1>1. PICK w \in late : log' = Append(log, w) /\ late' = late \ {w}
  BY DEF LateCommit
<1>2. req' = req
  BY DEF LateCommit
<1>3. Ops' = Ops
  BY <1>2 DEF Ops
<1>4. w \in Tried /\ Tried' \in {Tried, Tried \ {w}}
  <2> DEFINE pending == {WriteOf(d) : d \in {e \in Client : req[e].pc = "commit"}}
  <2>1. Tried = late \cup pending /\ Tried' = (late \ {w}) \cup pending
    BY <1>1, <1>2 DEF Tried, WriteOf
  <2> QED
    BY <2>1
<1> QED
  BY <1>1, <1>3, <1>4, SeenCommit

LEMMA Restart_Returns ==
  ASSUME KvInv, NEW n \in Ctrl, Restart(n) PROVE Linear!Return
<1>1. PICK here \in SUBSET Client :
      /\ req' = [c \in Client |-> IF c \in here THEN Resting ELSE req[c]] /\ log' = log
      /\ late' = late \cup {WriteOf(c) : c \in {d \in here : req[d].pc = "commit"}}
  <2> DEFINE H == {c \in Client : req[c] # Resting /\ req[c].node = n}
  <2> WITNESS H \in SUBSET Client
  <2> QED
    BY DEF Restart
<1>2. \A d \in Client : /\ d \in here => req'[d] = Resting
                       /\ d \notin here => req'[d] = req[d]
  BY <1>1
<1>3. AbstractOp(Resting) = [st |-> "rest"] /\ Resting.pc # "commit" /\ here \subseteq Client
  BY OpCases DEF Resting
<1>4. Ops' = [d \in Client |-> IF d \in here THEN [st |-> "rest"] ELSE Ops[d]]
  <2>1. \A d \in Client : AbstractOp(req'[d]) = IF d \in here THEN [st |-> "rest"]
                                               ELSE AbstractOp(req[d])
    <3> SUFFICES ASSUME NEW d \in Client
                 PROVE  AbstractOp(req'[d]) = IF d \in here THEN [st |-> "rest"]
                                              ELSE AbstractOp(req[d])
      OBVIOUS
    <3>1. CASE d \in here
      <4>1. req'[d] = Resting
        BY <1>1, <3>1
      <4> QED
        BY <1>3, <3>1, <4>1
    <3>2. CASE d \notin here
      <4>1. req'[d] = req[d]
        BY <1>2, <3>2
      <4> QED
        BY <3>2, <4>1
    <3> QED
      BY <3>1, <3>2
  <2> QED
    BY <2>1 DEF Ops
<1>5. Tried' = Tried
  <2>1. \A d \in Client : req'[d].pc = "commit" <=> d \notin here /\ req[d].pc = "commit"
    <3> SUFFICES ASSUME NEW d \in Client
                 PROVE  req'[d].pc = "commit" <=> d \notin here /\ req[d].pc = "commit"
      OBVIOUS
    <3>1. CASE d \in here
      <4>1. req'[d] = Resting
        BY <1>1, <3>1
      <4> QED
        BY <1>3, <3>1, <4>1
    <3>2. CASE d \notin here
      <4>1. req'[d] = req[d]
        BY <1>2, <3>2
      <4> QED
        BY <3>2, <4>1
    <3> QED
      BY <3>1, <3>2
  <2>2. \A d \in Client : d \notin here => WriteOf(d)' = WriteOf(d)
    BY <1>2 DEF WriteOf
  <2> QED
    BY <1>1, <1>3, <2>1, <2>2 DEF Tried
<1> QED
  BY <1>1, <1>4, <1>5, <1>3, SeenReturn

LEMMA Probe_Unseen ==
  ASSUME KvInv, NEW c \in Client, get_read_linearizer(c) \/ QuorumNotEnough(c)
  PROVE  UNCHANGED Seen \/ Linear!Return
<1>1. /\ req[c] \in Requests /\ req[c] # Resting /\ req[c].pc = "probe"
      /\ log' = log /\ late' = late
  BY Active DEF get_read_linearizer, QuorumNotEnough, KvInv
<1>2. CASE Fail(c)
  BY <1>1, <1>2, Failed_Returns DEF Fail
<1>3. CASE \/ req' = [req EXCEPT ![c].pc = "ready", ![c].index = Len(log), ![c].try = 1]
           \/ req' = [req EXCEPT ![c].try = @ + 1]
  <2>1. /\ \/ req'[c] = [req[c] EXCEPT !.pc = "ready", !.index = Len(log), !.try = 1]
           \/ req'[c] = [req[c] EXCEPT !.try = @ + 1]
        /\ \A d \in Client \ {c} : req'[d] = req[d]
    BY <1>3 DEF KvInv, KvTypeOK
  <2>2. /\ req'[c].pc \in {"probe", "ready"} /\ req'[c].kind = req[c].kind
        /\ req'[c].low = req[c].low /\ req'[c] # Resting
    BY <1>1, <2>1 DEF Requests, Resting
  <2>3. /\ req[c].pc \notin {"answered", "commit"} /\ req'[c].pc \notin {"answered", "commit"}
        /\ req[c].pc \notin Writing /\ req'[c].pc \notin Writing
    BY <1>1, <2>2 DEF Writing
  <2> QED
    BY <1>1, <2>1, <2>2, <2>3, Unseen
<1> QED
  BY <1>2, <1>3 DEF get_read_linearizer, QuorumNotEnough

LEMMA Sync_Unseen ==
  ASSUME KvInv, NEW c \in Client, await_ready(c) \/ Lock(c) \/ catch_up(c) \/ Gap(c)
  PROVE  UNCHANGED Seen
<1>1. PICK pc \in {"scan", "lock", "catchup", "gap", "rebuild"} :
        req' = [req EXCEPT ![c] = [req[c] EXCEPT !.pc = pc]]
  BY DEF await_ready, Lock, catch_up, Gap, Goto
<1>2. req[c].pc \in Reading /\ pc \in Reading /\ log' = log /\ late' = late
  BY DEF await_ready, Lock, catch_up, Gap, Reading
<1> QED
  BY <1>1, <1>2, ReaderUnseen

(* Who holds a replaced instance has not answered yet.                     *)
LEMMA Replaced_Unseen ==
  ASSUME KvInv, NEW n \in Ctrl, NEW d \in Client, req'[d] = Replaced(n, d)
  PROVE  \/ req'[d] = req[d]
         \/ /\ req[d] # Resting /\ req'[d] # Resting
            /\ req[d].pc = "scan" /\ req'[d].pc = "scan"
            /\ req'[d].kind = req[d].kind /\ req'[d].low = req[d].low
<1>1. CASE req[d].pc = "scan" /\ req[d].node = n /\ req[d].via = "live"
  <2>1. req[d] \in Requests /\ req[d] # Resting
    BY <1>1, Active DEF KvInv
  <2>2. req'[d] = [req[d] EXCEPT !.via = "old", !.seq = sec[n]]
    BY <1>1 DEF Replaced
  <2> QED
    BY <1>1, <2>1, <2>2 DEF Requests, Resting
<1>2. CASE ~(req[d].pc = "scan" /\ req[d].node = n /\ req[d].via = "live")
  BY <1>2 DEF Replaced
<1> QED
  BY <1>1, <1>2

LEMMA Rebuild_Unseen ==
  ASSUME KvInv, NEW c \in Client, rebuild_secondary(c) \/ primary_fallback(c)
  PROVE  UNCHANGED Seen
<1>1. /\ req[c] \in Requests /\ req[c] # Resting /\ req[c].pc = "rebuild"
      /\ log' = log /\ late' = late /\ req[c].node \in Ctrl
  <2>1. req[c].pc = "rebuild" /\ log' = log /\ late' = late
    BY DEF rebuild_secondary, primary_fallback
  <2>2. req[c] \in Requests /\ req[c] # Resting
    BY <2>1, Active DEF KvInv
  <2> QED
    BY <2>1, <2>2 DEF Requests
<1>2. /\ \/ req'[c] = [req[c] EXCEPT !.pc = "scan"]
         \/ req'[c] = [req[c] EXCEPT !.pc = "scan", !.via = "primary"]
      /\ \A d \in Client \ {c} : req'[d] = req[d] \/ req'[d] = Replaced(req[c].node, d)
  BY DEF rebuild_secondary, primary_fallback, KvInv, KvTypeOK
<1>3. /\ req'[c].pc = "scan" /\ req'[c].kind = req[c].kind
      /\ req'[c].low = req[c].low /\ req'[c] # Resting
  BY <1>1, <1>2 DEF Requests, Resting
<1>4. \A d \in Client :
        \/ req'[d] = req[d]
        \/ /\ req[d] # Resting /\ req'[d] # Resting
           /\ req[d].pc \in {"scan", "rebuild"} /\ req'[d].pc = "scan"
           /\ req'[d].kind = req[d].kind /\ req'[d].low = req[d].low
  BY <1>1, <1>2, <1>3, Replaced_Unseen
<1> QED
  BY <1>1, <1>4, Unseen DEF Writing

LEMMA LocalRead_Unseen ==
  ASSUME KvInv, NEW n \in Ctrl, LocalRead(n) PROVE UNCHANGED Seen
<1>1. log' = log /\ late' = late
  BY DEF LocalRead
<1>2. \A d \in Client : req'[d] = req[d] \/ req'[d] = Replaced(n, d)
  BY DEF LocalRead
<1>3. \A d \in Client :
        \/ req'[d] = req[d]
        \/ /\ req[d] # Resting /\ req'[d] # Resting
           /\ req[d].pc = "scan" /\ req'[d].pc = "scan"
           /\ req'[d].kind = req[d].kind /\ req'[d].low = req[d].low
  BY <1>2, Replaced_Unseen
<1> QED
  BY <1>1, <1>3, Unseen DEF Writing

LEMMA Still_Unseen ==
  ASSUME log' = log, late' = late, req' = req PROVE UNCHANGED Seen
  BY DEF Seen, Tried, Ops, WriteOf

LEMMA Serve_Linear ==
  ASSUME KvInv, NEW c \in Client, Serve(c) PROVE Linear!Next \/ UNCHANGED Seen
<1>1. CASE Forward(c) \/ Return(c)
  <2>1. /\ req' = [req EXCEPT ![c] = Resting] /\ log' = log /\ late' = late
        /\ req[c].pc # "commit"
    BY <1>1 DEF Forward, Return, Fail
  <2> QED
    BY <2>1, Failed_Returns DEF Linear!Next
<1>2. CASE get_read_linearizer(c) \/ QuorumNotEnough(c)
  BY <1>2, Probe_Unseen DEF Linear!Next
<1>3. CASE await_ready(c) \/ Lock(c) \/ catch_up(c) \/ Gap(c)
  BY <1>3, Sync_Unseen
<1>4. CASE rebuild_secondary(c) \/ primary_fallback(c)
  BY <1>4, Rebuild_Unseen
<1>5. CASE Scan(c)
  BY <1>5, Scan_Answers DEF Linear!Next
<1>6. CASE client_write(c)
  BY <1>6, client_write_Tries DEF Linear!Next
<1>7. CASE Commit(c)
  BY <1>7, Commit_Commits DEF Linear!Next
<1>8. CASE WriteLost(c)
  BY <1>8, WriteLost_Returns DEF Linear!Next
<1>9. CASE WriteApplied(c)
  BY <1>9, WriteApplied_Answers DEF Linear!Next
<1> QED
  BY <1>1, <1>2, <1>3, <1>4, <1>5, <1>6, <1>7, <1>8, <1>9 DEF Serve

LEMMA LinearStep == KvInv /\ [Next]_kvVars => [Linear!Next]_(Linear!linearVars)
<1> SUFFICES ASSUME KvInv, [Next]_kvVars PROVE Linear!Next \/ UNCHANGED Seen
  BY DEF Linear!linearVars, Seen, Tried, Ops
<1>1. ASSUME NEW c \in Client, NEW n \in Ctrl, Receive(c, n) PROVE Linear!Next
  BY <1>1, Receive_Calls DEF Linear!Next
<1>2. ASSUME NEW n \in Ctrl, Apply(n) PROVE UNCHANGED Seen
  BY <1>2, Still_Unseen DEF Apply
<1>3. CASE Elect
  BY <1>3, Still_Unseen DEF Elect
<1>4. CASE LateCommit
  BY <1>4, LateCommit_Commits DEF Linear!Next
<1>5. ASSUME NEW n \in Ctrl, Restart(n) PROVE Linear!Next
  BY <1>5, Restart_Returns DEF Linear!Next
<1>6. CASE UNCHANGED kvVars
  BY <1>6, Still_Unseen DEF kvVars
<1> QED
  BY <1>1, <1>2, <1>3, <1>4, <1>5, <1>6, Serve_Linear, LocalRead_Unseen DEF Next

LEMMA LinearInit == Init => Linear!Init
<1> SUFFICES ASSUME Init PROVE log = <<>> /\ Tried = {} /\ Ops = [c \in Client |-> [st |-> "rest"]]
  BY DEF Linear!Init, Linear!Rest, Tried, Ops
<1>1. \A c \in Client : req[c] = Resting /\ req[c].pc # "commit"
  BY DEF Init, Resting
<1>2. Tried = {}
  BY <1>1 DEF Init, Tried
<1>3. \A c \in Client : AbstractOp(req[c]) = [st |-> "rest"]
  BY <1>1, OpCases
<1> QED
  BY <1>2, <1>3 DEF Init, Ops

(* The key-value service is linearizable: whatever its handlers, elections *)
(* and restarts do, and for any number of clients and control nodes, its   *)
(* answers are those LinearKv allows (process_kv_request with              *)
(* ensure_linearizable_read and synced_db).                                *)
THEOREM LinearizableImplemented == KvSpec => Linearizable
  BY KvInvariant, LinearInit, LinearStep, PTL DEF KvSpec, Linearizable, Linear!Spec

=============================================================================
