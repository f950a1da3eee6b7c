------------------------------ MODULE ControlRpc ------------------------------
(***************************************************************************)
(* How a process reaches the leader of the tasks group: submit_reply,      *)
(* follow_leader_hint and call_read (tasks/worker.rs) over the             *)
(* ControlNodes that all loops of a worker share (tasks/rpc.rs), and the   *)
(* control node's own front end (TaskApi::submit, tasks/api.rs).           *)
(*                                                                         *)
(* Until the cluster settles anything may happen to a request: any node    *)
(* may answer as leader, hint at any other, or not answer although it      *)
(* committed the command.  Settle fixes a leader, the nodes that can be    *)
(* reached (the leader among them), and with that their hints.             *)
(***************************************************************************)
EXTENDS Naturals, Sequences, SequencesExt

CONSTANTS
  Ctrl,          \* control nodes
  KnownAtStart,  \* the list ControlNodes::new is given
  Renewers,      \* loops of the worker that submit: lease renewal, executions
  Pollers,       \* loops of the worker that read
  Frontends,     \* submissions made on a control node
  MaxRedirects,  \* MAX_LEADER_REDIRECTS
  NoNode

Callers    == Renewers \cup Pollers \cup Frontends
Submitters == Renewers \cup Frontends

ASSUME ControlAssumption ==
  /\ NoNode \notin Ctrl /\ MaxRedirects \in Nat
  /\ KnownAtStart \in Seq(Ctrl) /\ KnownAtStart # <<>>
  /\ Renewers \cap Pollers = {} /\ Renewers \cap Frontends = {} /\ Pollers \cap Frontends = {}

VARIABLES
  control,   \* whether this process is a control node; a worker otherwise
  settled,   \* the leader, once it is stable; NoNode before
  reach,     \* the nodes that answer once the cluster is settled
  known,     \* ControlNodes.known
  sticky,    \* ControlNodes.leader
  call       \* the call each caller is in

rpcVars == <<control, settled, reach, known, sticky, call>>

(* bases: targets not tried yet.  tries, commits: how often the request    *)
(* was sent, and how often its command got into the log.                   *)
Call(pc, bases) ==
  [pc |-> pc, bases |-> bases, target |-> NoNode, redirects |-> 0,
   width |-> Len(bases), tries |-> 0, commits |-> 0, result |-> "none"]

Init ==
  /\ control \in BOOLEAN
  /\ settled = NoNode /\ reach = Ctrl
  /\ known = KnownAtStart /\ sticky = NoNode
  /\ call = [p \in Callers |-> Call("over", <<>>)]

Settle ==
  /\ settled = NoNode
  /\ \E l \in Ctrl, R \in SUBSET Ctrl : l \in R /\ settled' = l /\ reach' = R
  /\ UNCHANGED <<control, known, sticky, call>>

-----------------------------------------------------------------------------
(* ControlNodes: the sticky leader trades places with the first node.      *)
targets ==
  IF \E i \in 1 .. Len(known) : known[i] = sticky
  THEN LET pos == CHOOSE i \in 1 .. Len(known) : known[i] = sticky
       IN  [known EXCEPT ![1] = known[pos], ![pos] = known[1]]
  ELSE known

\* MUTANT: a hinted node is remembered but not preferred.
report_leader_notSticky(l) ==
  /\ known' = IF l \in ToSet(known) THEN known ELSE Append(known, l)
  /\ UNCHANGED sticky

report_leader(l) ==
  /\ known' = IF l \in ToSet(known) THEN known ELSE Append(known, l)
  /\ sticky' = l

-----------------------------------------------------------------------------
(* What a request to t can meet.                                           *)
MayLead(t)    == settled \in {NoNode, t}
MayNotLead(t) == settled # t
MayAnswer(t)  == settled = NoNode \/ t \in reach
MayFail(t)    == settled = NoNode \/ t \notin reach
Hints(t)      == IF settled = NoNode THEN Ctrl \cup {NoNode} ELSE {settled}

(* The call returns; of a finished call only the outcome is kept.          *)
Over(p, ok, n) ==
  [Call("over", <<>>) EXCEPT !.width = call[p].width, !.commits = call[p].commits + n,
                             !.result = IF ok THEN "ok" ELSE "error"]

(* for base_target in targets, c being the call so far; n: commits of the  *)
(* request that just failed.                                               *)
NextBase(p, c, n) ==
  IF c.bases = <<>> THEN Over(p, FALSE, n)
  ELSE [c EXCEPT !.pc = "try", !.target = Head(c.bases), !.bases = Tail(c.bases),
                 !.redirects = 0, !.commits = @ + n]

Tried(p) == [call[p] EXCEPT !.tries = @ + 1]

Begin(p) ==
  /\ call[p].pc = "over" /\ control = (p \in Frontends)
  /\ call' = [call EXCEPT ![p] = IF p \in Frontends THEN Call("local", <<>>)
                                 ELSE NextBase(p, Call("try", targets), 0)]
  /\ UNCHANGED <<control, settled, reach, known, sticky>>

\* MUTANT: a request without an answer is sent to the same node again.
TryFails_again(p) ==
  LET t == call[p].target IN
  /\ call[p].pc = "try" /\ MayFail(t)
  /\ \E n \in IF p \in Submitters /\ MayLead(t) THEN {0, 1} ELSE {0} :
        call' = [call EXCEPT ![p] = [Tried(p) EXCEPT !.commits = @ + n]]
  /\ UNCHANGED <<control, settled, reach, known, sticky>>

(* No answer, or none that can be decoded: the next base target.  The      *)
(* leader may have committed the command all the same.                     *)
TryFails(p) ==
  LET t == call[p].target IN
  /\ call[p].pc = "try" /\ MayFail(t)
  /\ \E n \in IF p \in Submitters /\ MayLead(t) THEN {0, 1} ELSE {0} :
        call' = [call EXCEPT ![p] = NextBase(p, Tried(p), n)]
  /\ UNCHANGED <<control, settled, reach, known, sticky>>

SubmitOk(p) ==
  LET t == call[p].target IN
  /\ p \in Submitters /\ call[p].pc = "try" /\ MayAnswer(t) /\ MayLead(t)
  /\ call' = [call EXCEPT ![p] = Over(p, TRUE, 1)]
  /\ UNCHANGED <<control, settled, reach, known, sticky>>

\* MUTANT: one redirect too many.
Redirected_oneMore(p, h) ==
  IF call[p].redirects <= MaxRedirects
  THEN [Tried(p) EXCEPT !.target = h, !.redirects = @ + 1]
  ELSE NextBase(p, Tried(p), 0)

(* The retry after a hint; the loop 0 ..= MAX_LEADER_REDIRECTS ends there. *)
Redirected(p, h) ==
  IF call[p].redirects < MaxRedirects
  THEN [Tried(p) EXCEPT !.target = h, !.redirects = @ + 1]
  ELSE NextBase(p, Tried(p), 0)

(* follow_leader_hint.  A front end's ControlNodes is its own.             *)
SubmitForwarded(p) ==
  LET t == call[p].target IN
  /\ p \in Submitters /\ call[p].pc = "try" /\ MayAnswer(t) /\ MayNotLead(t)
  /\ \E h \in Hints(t) :
        IF h \in {NoNode, t}
        THEN /\ call' = [call EXCEPT ![p] = NextBase(p, Tried(p), 0)]
             /\ UNCHANGED <<known, sticky>>
        ELSE /\ call' = [call EXCEPT ![p] = Redirected(p, h)]
             /\ IF p \in Renewers THEN report_leader(h) ELSE UNCHANGED <<known, sticky>>
  /\ UNCHANGED <<control, settled, reach>>

(* TaskApi::submit on a control node: its own raft first, then one hint.   *)
LocalSubmit(p) ==
  /\ call[p].pc = "local"
  /\ \/ call' = [call EXCEPT ![p] = Over(p, TRUE, 1)]
     \/ \E n \in {0, 1} : call' = [call EXCEPT ![p] = Over(p, FALSE, n)]
     \/ \E h \in Hints(NoNode) \ {NoNode} : call' = [call EXCEPT ![p] = NextBase(p, Call("try", <<h>>), 0)]
  /\ UNCHANGED <<control, settled, reach, known, sticky>>

(* call_read returns the first answer, also one that says the node cannot  *)
(* be read from because it does not lead.                                  *)
ReadAnswered(p) ==
  LET t == call[p].target IN
  /\ p \in Pollers /\ call[p].pc = "try" /\ MayAnswer(t)
  /\ \E ok \in (IF MayLead(t) THEN {TRUE} ELSE {}) \cup (IF MayNotLead(t) THEN {FALSE} ELSE {}) :
        call' = [call EXCEPT ![p] = Over(p, ok, 0)]
  /\ UNCHANGED <<control, settled, reach, known, sticky>>

Step(p) ==
  \/ TryFails(p) \/ SubmitOk(p) \/ SubmitForwarded(p)
  \/ LocalSubmit(p) \/ ReadAnswered(p)

Next == Settle \/ \E p \in Callers : Begin(p) \/ Step(p)

ControlSpec == Init /\ [][Next]_rpcVars

(* Every request has a timeout, so a call moves on; the renewal and poll   *)
(* loops come round again.                                                 *)
FairControlSpec ==
  /\ ControlSpec
  /\ \A p \in Callers : WF_rpcVars(Step(p))
  /\ \A p \in Renewers \cup Pollers : WF_rpcVars(Begin(p))

-----------------------------------------------------------------------------
(* Properties                                                              *)

(* However the nodes hint at each other, a target of the list costs at     *)
(* most MaxRedirects + 1 requests (submit_reply's inner loop).             *)
TriesBounded ==
  \A p \in Callers :
    call[p].pc = "try" =>
      call[p].tries <= (call[p].width - Len(call[p].bases) - 1) * (MaxRedirects + 1)
                       + call[p].redirects

(* A submission that reports success is in the log, and a submission is in *)
(* the log at most once per target it began with: the copies of a command  *)
(* that the fences of apply must cope with are limited by the list, not by *)
(* the redirects.                                                          *)
CopiesBounded ==
  \A p \in Submitters :
    /\ call[p].result = "ok" => call[p].commits >= 1
    /\ call[p].commits <= (IF call[p].width = 0 THEN 1 ELSE call[p].width - Len(call[p].bases))

(* Once leadership is stable and a known node can be reached, every read   *)
(* succeeds from some point on: call_read itself never follows a hint, but *)
(* the lease renewals that share the ControlNodes correct its sticky       *)
(* leader.                                                                 *)
ReadsRecover ==
  settled # NoNode /\ reach \cap ToSet(known) # {} ~>
    [](\A p \in Pollers : call[p].result # "error")

-----------------------------------------------------------------------------
(* Why the first two hold: the inductive invariant.                        *)

Calls ==
  [pc : {"over", "local", "try"}, bases : Seq(Ctrl), target : Ctrl \cup {NoNode},
   redirects : 0 .. MaxRedirects, width : Nat, tries : Nat, commits : Nat,
   result : {"none", "ok", "error"}]

(* The targets given up before the one that is being tried.                *)
GivenUp(c) == c.width - Len(c.bases) - 1

(* A call that is under way has paid for each of them with all redirects   *)
(* and at most one commit; one that is over has none left to try.          *)
Fits(p, c) ==
  /\ c.pc = "try" => /\ Len(c.bases) < c.width /\ c.result = "none" /\ c.commits <= GivenUp(c)
                     /\ c.tries <= GivenUp(c) * (MaxRedirects + 1) + c.redirects
  /\ c.pc = "local" => c.bases = <<>> /\ c.width = 0 /\ c.commits = 0 /\ c.result = "none"
  /\ c.pc = "over" => /\ c.bases = <<>> /\ c.commits <= (IF c.width = 0 THEN 1 ELSE c.width)
                      /\ p \in Submitters /\ c.result = "ok" => c.commits >= 1

RpcInv ==
  /\ known \in Seq(Ctrl) /\ known # <<>> /\ settled \in Ctrl \cup {NoNode}
  /\ call \in [Callers -> Calls] /\ \A p \in Callers : Fits(p, call[p])
=============================================================================
