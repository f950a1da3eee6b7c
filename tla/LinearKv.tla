------------------------------- MODULE LinearKv -------------------------------
(***************************************************************************)
(* What the key-value requests of a control node promise their callers,    *)
(* for one key.  The history is the sequence of committed writes, and each *)
(* write names the caller it was made for and whether it sets or deletes.  *)
(*                                                                         *)
(*   - a read answers with the state after some prefix of the history that *)
(*     was current between its call and its answer (so the requests are    *)
(*     linearizable: prefixes are totally ordered);                        *)
(*   - an update or a delete writes only if the key was there at such a    *)
(*     moment, and answers "no" only if it was absent at one.  Check and   *)
(*     write are two moments: nothing forbids a delete in between;         *)
(*   - a write that is answered with success is in the history, after the  *)
(*     call; one that is answered with an error may still enter it later.  *)
(*                                                                         *)
(* KvService implements this specification.                                *)
(***************************************************************************)
EXTENDS Naturals, Sequences

CONSTANT Client

VARIABLES
  history,   \* committed writes
  tried,     \* writes that were proposed and may yet commit
  op         \* the request of each client

linearVars == <<history, tried, op>>

Kind  == {"get", "set", "update", "delete"}
Write == [by : Client, puts : BOOLEAN]

Rest == [st |-> "rest"]

(* The key after the first i writes of a history.                          *)
Present(h, i) == i > 0 /\ h[i].puts

WriteOf(c, kind) == [by |-> c, puts |-> kind # "delete"]

(* The prefixes that were current since the call.                          *)
Since(c) == op[c].low .. Len(history)

Init == history = <<>> /\ tried = {} /\ op = [c \in Client |-> Rest]

Call(c) ==
  /\ op[c] = Rest
  /\ \E k \in Kind :
        op' = [op EXCEPT ![c] = [st |-> "called", kind |-> k, low |-> Len(history),
                                 may |-> k = "set"]]
  /\ UNCHANGED <<history, tried>>

(* An update or a delete finds the key.                                    *)
Check(c) ==
  /\ op[c].st = "called" /\ op[c].kind \in {"update", "delete"}
  /\ \E i \in Since(c) : Present(history, i)
  /\ op' = [op EXCEPT ![c].may = TRUE]
  /\ UNCHANGED <<history, tried>>

Try(c) ==
  /\ op[c].st = "called" /\ op[c].may
  /\ tried' = tried \cup {WriteOf(c, op[c].kind)}
  /\ UNCHANGED <<history, op>>

Commit ==
  /\ \E w \in tried : history' = Append(history, w) /\ tried' \in {tried, tried \ {w}}
  /\ UNCHANGED op

(* ok with the prefix read or the write's place; not ok when the key was   *)
(* absent.                                                                 *)
AnswerIsRight(c, ok, at) ==
  /\ at \in Since(c)
  /\ CASE op[c].kind = "get" -> ok
       [] op[c].kind # "get" /\ ok ->
             at > op[c].low /\ history[at] = WriteOf(c, op[c].kind)
       [] OTHER -> op[c].kind # "set" /\ ~Present(history, at)

Answer(c) ==
  /\ op[c].st = "called"
  /\ \E ok \in BOOLEAN, at \in Since(c) :
        /\ AnswerIsRight(c, ok, at)
        /\ op' = [op EXCEPT ![c] = [st |-> "answered", ok |-> ok, at |-> at]]
  /\ UNCHANGED <<history, tried>>

(* The callers take their answers, or get an error: one, or all those of a *)
(* node that went away.                                                    *)
Return ==
  /\ \E S \in SUBSET Client : op' = [c \in Client |-> IF c \in S THEN Rest ELSE op[c]]
  /\ UNCHANGED <<history, tried>>

Next ==
  \/ Commit \/ Return
  \/ \E c \in Client : Call(c) \/ Check(c) \/ Try(c) \/ Answer(c)

Spec == Init /\ [][Next]_linearVars

=============================================================================
