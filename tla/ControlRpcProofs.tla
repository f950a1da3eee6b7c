-------------------------- MODULE ControlRpcProofs --------------------------
(***************************************************************************)
(* Proofs about ControlRpc, for every set of control nodes and callers,    *)
(* every initial list and every limit on redirects.                        *)
(***************************************************************************)
EXTENDS ControlRpc, SequenceTheorems, TLAPS

(* Giving up a target allows for MaxRedirects + 1 more requests.           *)
LEMMA OneMoreTarget ==
  ASSUME NEW a \in Nat
  PROVE  /\ a * (MaxRedirects + 1) \in Nat
         /\ (a + 1) * (MaxRedirects + 1) = a * (MaxRedirects + 1) + MaxRedirects + 1
<1>1. PICK k \in Nat : k = MaxRedirects + 1
  BY ControlAssumption
<1>2. a * k \in Nat /\ (a + 1) * k = a * k + k
  BY SMT
<1>3. MaxRedirects \in Nat
  BY ControlAssumption
<1> QED
  BY <1>1, <1>2, <1>3

(* targets permutes a list that is not empty.                              *)
LEMMA TargetsTyped ==
  ASSUME known \in Seq(Ctrl), known # <<>>
  PROVE  targets \in Seq(Ctrl) /\ targets # <<>>
<1>1. Len(known) \in Nat \ {0} /\ \A i \in 1 .. Len(known) : known[i] \in Ctrl
  BY EmptySeq, ElementOfSeq, LenProperties
<1>2. CASE \E i \in 1 .. Len(known) : known[i] = sticky
  <2>1. PICK pos \in 1 .. Len(known) : pos = CHOOSE i \in 1 .. Len(known) : known[i] = sticky
    BY <1>2
  <2>2. PICK a \in Ctrl, b \in Ctrl : a = known[pos] /\ b = known[1]
    BY <1>1
  <2>3. targets = [known EXCEPT ![1] = a, ![pos] = b]
    BY <1>2, <2>1, <2>2 DEF targets
  <2>4. PICK s : s = [known EXCEPT ![1] = a]
    OBVIOUS
  <2>5. s \in Seq(Ctrl) /\ Len(s) = Len(known)
    BY <1>1, <2>4, ExceptSeq
  <2>6. [s EXCEPT ![pos] = b] \in Seq(Ctrl) /\ Len([s EXCEPT ![pos] = b]) = Len(known)
    BY <2>5, ExceptSeq
  <2>7. targets = [s EXCEPT ![pos] = b]
    BY <2>3, <2>4
  <2> QED
    BY <1>1, <2>6, <2>7, EmptySeq
<1>3. CASE ~(\E i \in 1 .. Len(known) : known[i] = sticky)
  BY <1>3 DEF targets
<1> QED
  BY <1>2, <1>3

(* A call, field by field.                                                 *)
Fields(q, b, x, d, w, t, k, r) ==
  [pc |-> q, bases |-> b, target |-> x, redirects |-> d, width |-> w, tries |-> t,
   commits |-> k, result |-> r]

(* Moving on replaces five of them.                                        *)
LEMMA MovesOn ==
  ASSUME NEW p, NEW q, NEW b, NEW x, NEW d, NEW w, NEW t, NEW k, NEW r, NEW n, b # <<>>
  PROVE  NextBase(p, Fields(q, b, x, d, w, t, k, r), n)
         = Fields("try", Tail(b), Head(b), 0, w, t, k + n, r)
<1>1. PICK c : c = Fields(q, b, x, d, w, t, k, r)
  OBVIOUS
<1>2. c.bases = b /\ c.commits = k
  BY <1>1 DEF Fields
<1>3. PICK h, s, m : h = Head(b) /\ s = Tail(b) /\ m = k + n
  OBVIOUS
<1>4. NextBase(p, c, n) = [c EXCEPT !.pc = "try", !.target = h, !.bases = s, !.redirects = 0,
                                    !.commits = m]
  BY <1>2, <1>3 DEF NextBase
<1>5. [c EXCEPT !.pc = "try", !.target = h, !.bases = s, !.redirects = 0, !.commits = m]
      = [[[[[c EXCEPT !.pc = "try"] EXCEPT !.target = h] EXCEPT !.bases = s]
           EXCEPT !.redirects = 0] EXCEPT !.commits = m]
  OBVIOUS
<1>6. [[[[[c EXCEPT !.pc = "try"] EXCEPT !.target = h] EXCEPT !.bases = s]
         EXCEPT !.redirects = 0] EXCEPT !.commits = m] = Fields("try", s, h, 0, w, t, m, r)
  <2>1. PICK c1 : c1 = [c EXCEPT !.pc = "try"]
    OBVIOUS
  <2>2. PICK c2 : c2 = [c1 EXCEPT !.target = h]
    OBVIOUS
  <2>3. PICK c3 : c3 = [c2 EXCEPT !.bases = s]
    OBVIOUS
  <2>4. PICK c4 : c4 = [c3 EXCEPT !.redirects = 0]
    OBVIOUS
  <2>5. c1 = Fields("try", b, x, d, w, t, k, r)
    BY <1>1, <2>1 DEF Fields
  <2>6. c2 = Fields("try", b, h, d, w, t, k, r)
    BY <2>2, <2>5 DEF Fields
  <2>7. c3 = Fields("try", s, h, d, w, t, k, r)
    BY <2>3, <2>6 DEF Fields
  <2>8. c4 = Fields("try", s, h, 0, w, t, k, r)
    BY <2>4, <2>7 DEF Fields
  <2>9. [c4 EXCEPT !.commits = m] = Fields("try", s, h, 0, w, t, m, r)
    BY <2>8 DEF Fields
  <2> QED
    BY <2>1, <2>2, <2>3, <2>4, <2>9, Zenon
<1> QED
  BY <1>1, <1>3, <1>4, <1>5, <1>6

(* The first target of a list is taken.                                    *)
LEMMA FirstFits ==
  ASSUME NEW p \in Callers, NEW bases \in Seq(Ctrl), bases # <<>>
  PROVE  /\ NextBase(p, Call("try", bases), 0) \in Calls
         /\ Fits(p, NextBase(p, Call("try", bases), 0))
<1>1. /\ Head(bases) \in Ctrl /\ Tail(bases) \in Seq(Ctrl) /\ Len(Tail(bases)) = Len(bases) - 1
      /\ Len(bases) \in Nat /\ Len(bases) > 0
  BY HeadTailProperties, LenProperties, EmptySeq
<1>2. PICK h \in Ctrl, s \in Seq(Ctrl), w \in Nat :
        h = Head(bases) /\ s = Tail(bases) /\ w = Len(bases) /\ Len(s) = w - 1 /\ w > 0
  BY <1>1
<1>3. PICK c : c = NextBase(p, Call("try", bases), 0)
  OBVIOUS
<1>4. c = [pc |-> "try", bases |-> s, target |-> h, redirects |-> 0, width |-> w, tries |-> 0,
           commits |-> 0, result |-> "none"]
  <2>1. Call("try", bases) = Fields("try", bases, NoNode, 0, w, 0, 0, "none")
    BY <1>2 DEF Call, Fields
  <2>2. NextBase(p, Fields("try", bases, NoNode, 0, w, 0, 0, "none"), 0)
        = Fields("try", Tail(bases), Head(bases), 0, w, 0, 0 + 0, "none")
    BY MovesOn
  <2>3. c = Fields("try", s, h, 0, w, 0, 0, "none")
    BY <1>2, <1>3, <2>1, <2>2
  <2> QED
    BY <2>3 DEF Fields
<1>5. c \in Calls
  BY <1>4, ControlAssumption DEF Calls
<1>6. GivenUp(c) = 0
  BY <1>2, <1>4 DEF GivenUp
<1>7. 0 * (MaxRedirects + 1) \in Nat
  BY OneMoreTarget
<1>8. Fits(p, c)
  BY <1>2, <1>4, <1>6, <1>7 DEF Fits
<1> QED
  BY <1>3, <1>5, <1>8

(* What the invariant says of a call that is under way.                    *)
LEMMA Trying ==
  ASSUME RpcInv, NEW p \in Callers, call[p].pc = "try"
  PROVE  /\ call[p] \in Calls /\ call[p].redirects \in 0 .. MaxRedirects
         /\ call[p].width \in Nat /\ call[p].tries \in Nat /\ call[p].commits \in Nat
         /\ call[p].bases \in Seq(Ctrl) /\ Len(call[p].bases) \in Nat
         /\ Len(call[p].bases) < call[p].width /\ call[p].result = "none"
         /\ GivenUp(call[p]) = call[p].width - Len(call[p].bases) - 1 /\ GivenUp(call[p]) \in Nat
         /\ call[p].commits <= GivenUp(call[p])
         /\ call[p].tries <= GivenUp(call[p]) * (MaxRedirects + 1) + call[p].redirects
<1>1. call[p] \in Calls /\ Fits(p, call[p])
  BY DEF RpcInv
<1>2. /\ call[p].redirects \in 0 .. MaxRedirects /\ call[p].bases \in Seq(Ctrl)
      /\ call[p].width \in Nat /\ call[p].tries \in Nat /\ call[p].commits \in Nat
  BY <1>1 DEF Calls
<1>3. Len(call[p].bases) \in Nat
  BY <1>2, LenProperties
<1>4. Len(call[p].bases) < call[p].width
  BY <1>1 DEF Fits
<1>5. GivenUp(call[p]) = call[p].width - Len(call[p].bases) - 1
  BY DEF GivenUp
<1>6. GivenUp(call[p]) \in Nat
  BY <1>2, <1>3, <1>4, <1>5
<1> QED
  BY <1>1, <1>2, <1>3, <1>4, <1>5, <1>6 DEF Fits

(* A call returns with at most one commit more, and with one if it         *)
(* reports that a submission succeeded.                                    *)
LEMMA OverFits ==
  ASSUME RpcInv, NEW p \in Callers, call[p].pc \in {"try", "local"}, NEW ok \in BOOLEAN,
         NEW n \in {0, 1}, p \in Submitters /\ ok => n = 1
  PROVE  Over(p, ok, n) \in Calls /\ Fits(p, Over(p, ok, n))
<1>1. call[p] \in Calls /\ Fits(p, call[p])
  BY DEF RpcInv
<1>2. PICK w \in Nat, k \in Nat : w = call[p].width /\ k = call[p].commits
  BY <1>1 DEF Calls
<1>3. PICK r \in {"ok", "error"} : r = (IF ok THEN "ok" ELSE "error")
  OBVIOUS
<1>4. PICK c : c = Over(p, ok, n)
  OBVIOUS
<1>5. c = [pc |-> "over", bases |-> <<>>, target |-> NoNode, redirects |-> 0, width |-> w,
           tries |-> 0, commits |-> k + n, result |-> r]
  BY <1>2, <1>3, <1>4 DEF Over, Call
<1>6. <<>> \in Seq(Ctrl) /\ 0 \in 0 .. MaxRedirects /\ k + n \in Nat
  BY EmptySeq, ControlAssumption
<1>7. c \in Calls
  BY <1>5, <1>6 DEF Calls
<1>8. k + n <= (IF w = 0 THEN 1 ELSE w)
  <2>1. CASE call[p].pc = "try"
    <3>1. /\ Len(call[p].bases) \in Nat /\ Len(call[p].bases) < w
          /\ k <= w - Len(call[p].bases) - 1
      BY <1>2, <2>1, Trying
    <3>2. PICK l \in Nat : l = Len(call[p].bases)
      BY <3>1
    <3>3. k <= w - l - 1 /\ l < w
      BY <3>1, <3>2
    <3>4. w # 0 /\ k + 1 <= w
      BY <3>3
    <3>5. n = 0 \/ n = 1
      OBVIOUS
    <3> QED
      BY <3>4, <3>5
  <2>2. CASE call[p].pc = "local"
    BY <1>1, <1>2, <2>2 DEF Fits
  <2> QED
    BY <2>1, <2>2
<1>9. p \in Submitters /\ r = "ok" => k + n >= 1
  BY <1>3
<1>10. Fits(p, c)
  BY <1>5, <1>8, <1>9 DEF Fits
<1> QED
  BY <1>4, <1>7, <1>10

(* A call moves on to its next target, or gives up.                        *)
LEMMA NextFits ==
  ASSUME RpcInv, NEW p \in Callers, call[p].pc = "try", NEW n \in {0, 1}
  PROVE  NextBase(p, Tried(p), n) \in Calls /\ Fits(p, NextBase(p, Tried(p), n))
<1>1. PICK b \in Seq(Ctrl), w \in Nat, t \in Nat, k \in Nat, d \in 0 .. MaxRedirects, g \in Nat :
        /\ b = call[p].bases /\ w = call[p].width /\ t = call[p].tries /\ k = call[p].commits
        /\ d = call[p].redirects /\ g = w - Len(b) - 1 /\ Len(b) \in Nat /\ Len(b) < w
        /\ k <= g /\ t <= g * (MaxRedirects + 1) + d /\ call[p].result = "none" /\ call[p] \in Calls
  BY Trying
<1>2. /\ Tried(p).bases = b /\ Tried(p) \in Calls
      /\ Tried(p) = [pc |-> "try", bases |-> b, target |-> call[p].target, redirects |-> d,
                     width |-> w, tries |-> t + 1, commits |-> k, result |-> "none"]
  <2>1. Tried(p) = [pc |-> "try", bases |-> b, target |-> call[p].target, redirects |-> d,
                     width |-> w, tries |-> t + 1, commits |-> k, result |-> "none"]
    BY <1>1 DEF Tried, Calls
  <2> QED
    BY <1>1, <2>1 DEF Calls
<1>3. CASE b = <<>>
  <2>1. NextBase(p, Tried(p), n) = Over(p, FALSE, n)
    BY <1>2, <1>3 DEF NextBase
  <2> QED
    BY <2>1, OverFits
<1>4. CASE b # <<>>
  <2>1. PICK h \in Ctrl, s \in Seq(Ctrl) : h = Head(b) /\ s = Tail(b) /\ Len(s) = Len(b) - 1
    BY <1>4, HeadTailProperties
  <2>2. PICK c : c = NextBase(p, Tried(p), n)
    OBVIOUS
  <2>3. c = [pc |-> "try", bases |-> s, target |-> h, redirects |-> 0,
             width |-> w, tries |-> t + 1, commits |-> k + n, result |-> "none"]
    <3>1. Tried(p) = Fields("try", b, call[p].target, d, w, t + 1, k, "none")
      BY <1>2 DEF Fields
    <3>2. NextBase(p, Fields("try", b, call[p].target, d, w, t + 1, k, "none"), n)
          = Fields("try", Tail(b), Head(b), 0, w, t + 1, k + n, "none")
      BY <1>4, MovesOn
    <3>3. c = Fields("try", s, h, 0, w, t + 1, k + n, "none")
      BY <2>1, <2>2, <3>1, <3>2
    <3> QED
      BY <3>3 DEF Fields
  <2>4. 0 \in 0 .. MaxRedirects /\ MaxRedirects \in Nat
    BY ControlAssumption
  <2>5. c \in Calls
    <3>1. t + 1 \in Nat /\ k + n \in Nat /\ h \in Ctrl \cup {NoNode}
      OBVIOUS
    <3> QED
      BY <2>3, <2>4, <3>1 DEF Calls
  <2>6. Len(b) > 0 /\ GivenUp(c) = g + 1 /\ Len(s) < w
    <3>1. PICK l \in Nat : l = Len(b) /\ l > 0
      BY <1>1, <1>4, EmptySeq
    <3>2. Len(s) = l - 1 /\ g = w - l - 1 /\ l < w
      BY <1>1, <2>1, <3>1
    <3>3. c.width = w /\ c.bases = s
      BY <2>3
    <3>4. w - (l - 1) - 1 = g + 1 /\ l - 1 < w
      BY <3>2
    <3>5. GivenUp(c) = g + 1
      BY <3>2, <3>3, <3>4 DEF GivenUp
    <3> QED
      BY <3>1, <3>2, <3>4, <3>5
  <2>7. /\ g * (MaxRedirects + 1) \in Nat
        /\ (g + 1) * (MaxRedirects + 1) = g * (MaxRedirects + 1) + MaxRedirects + 1
    BY OneMoreTarget
  <2>8. t + 1 <= (g + 1) * (MaxRedirects + 1) + 0
    <3>1. PICK x \in Nat, y \in Nat : x = g * (MaxRedirects + 1) /\ y = (g + 1) * (MaxRedirects + 1)
                                      /\ y = x + MaxRedirects + 1
      BY <2>4, <2>7
    <3>2. t <= x + d /\ d <= MaxRedirects /\ d \in Nat
      BY <1>1, <2>4, <3>1
    <3>3. t + 1 <= y + 0
      BY <2>4, <3>1, <3>2
    <3> QED
      BY <3>1, <3>3
  <2>9. Fits(p, c)
    BY <1>1, <2>3, <2>6, <2>8 DEF Fits
  <2> QED
    BY <2>2, <2>5, <2>9
<1> QED
  BY <1>3, <1>4

(* A call follows a hint, or moves on when it has followed enough.         *)
LEMMA RedirectedFits ==
  ASSUME RpcInv, NEW p \in Callers, call[p].pc = "try", NEW h \in Ctrl
  PROVE  Redirected(p, h) \in Calls /\ Fits(p, Redirected(p, h))
<1>1. CASE ~(call[p].redirects < MaxRedirects)
  <2>1. Redirected(p, h) = NextBase(p, Tried(p), 0)
    BY <1>1 DEF Redirected
  <2> QED
    BY <2>1, NextFits
<1>2. CASE call[p].redirects < MaxRedirects
  <2>1. PICK b \in Seq(Ctrl), w \in Nat, t \in Nat, k \in Nat, d \in 0 .. MaxRedirects, g \in Nat :
          /\ b = call[p].bases /\ w = call[p].width /\ t = call[p].tries /\ k = call[p].commits
          /\ d = call[p].redirects /\ g = w - Len(b) - 1 /\ Len(b) \in Nat /\ Len(b) < w
          /\ k <= g /\ t <= g * (MaxRedirects + 1) + d /\ call[p].result = "none" /\ call[p] \in Calls
    BY Trying
  <2>2. PICK c : c = Redirected(p, h)
    OBVIOUS
  <2>3. c = [pc |-> "try", bases |-> b, target |-> h, redirects |-> d + 1,
             width |-> w, tries |-> t + 1, commits |-> k, result |-> "none"]
    <3>1. Tried(p) = [pc |-> "try", bases |-> b, target |-> call[p].target, redirects |-> d,
                      width |-> w, tries |-> t + 1, commits |-> k, result |-> "none"]
      BY <2>1 DEF Tried, Calls
    <3>2. Redirected(p, h) = [Tried(p) EXCEPT !.target = h, !.redirects = Tried(p).redirects + 1]
      BY <1>2 DEF Redirected
    <3>3. PICK v : v = Tried(p)
      OBVIOUS
    <3>4. c = [v EXCEPT !.target = h, !.redirects = d + 1]
      BY <2>2, <3>1, <3>2, <3>3
    <3>5. v = Fields("try", b, call[p].target, d, w, t + 1, k, "none")
      BY <3>1, <3>3 DEF Fields
    <3>6. [v EXCEPT !.target = h] = Fields("try", b, h, d, w, t + 1, k, "none")
      BY <3>5 DEF Fields
    <3>7. [Fields("try", b, h, d, w, t + 1, k, "none") EXCEPT !.redirects = d + 1]
          = Fields("try", b, h, d + 1, w, t + 1, k, "none")
      BY DEF Fields
    <3>8. [v EXCEPT !.target = h, !.redirects = d + 1] = [[v EXCEPT !.target = h] EXCEPT !.redirects = d + 1]
      OBVIOUS
    <3>9. c = Fields("try", b, h, d + 1, w, t + 1, k, "none")
      BY <3>4, <3>6, <3>7, <3>8
    <3> QED
      BY <3>9 DEF Fields
  <2>4. d + 1 \in 0 .. MaxRedirects
    <3>1. d < MaxRedirects /\ MaxRedirects \in Nat
      BY <1>2, <2>1, ControlAssumption
    <3> QED
      BY <3>1
  <2>5. c \in Calls
    BY <2>3, <2>4 DEF Calls
  <2>6. GivenUp(c) = g
    BY <2>1, <2>3 DEF GivenUp
  <2>7. g * (MaxRedirects + 1) \in Nat
    BY OneMoreTarget
  <2>8. t + 1 <= g * (MaxRedirects + 1) + (d + 1)
    BY <2>1, <2>7
  <2>9. Fits(p, c)
    BY <2>1, <2>3, <2>6, <2>8 DEF Fits
  <2> QED
    BY <2>2, <2>5, <2>9
<1> QED
  BY <1>1, <1>2

-----------------------------------------------------------------------------
LEMMA InitRpc == Init => RpcInv
<1> SUFFICES ASSUME Init PROVE RpcInv
  OBVIOUS
<1>1. PICK c : c = Call("over", <<>>)
  OBVIOUS
<1>2. c = Fields("over", <<>>, NoNode, 0, 0, 0, 0, "none")
  BY <1>1, EmptySeq DEF Call, Fields
<1>3. <<>> \in Seq(Ctrl) /\ 0 \in 0 .. MaxRedirects
  BY EmptySeq, ControlAssumption
<1>4. c \in Calls
  BY <1>2, <1>3 DEF Fields, Calls
<1>5. \A p \in Callers : Fits(p, c)
  BY <1>2 DEF Fields, Fits
<1>6. /\ call = [p \in Callers |-> c] /\ known \in Seq(Ctrl) /\ known # <<>>
      /\ settled \in Ctrl \cup {NoNode}
  BY <1>1, ControlAssumption DEF Init
<1> QED
  BY <1>4, <1>5, <1>6 DEF RpcInv

(* A step that replaces one call by one that fits.                         *)
LEMMA CallReplaced ==
  ASSUME RpcInv, NEW p \in Callers, NEW c \in Calls, Fits(p, c),
         call' = [call EXCEPT ![p] = c], settled' = settled, known' \in Seq(Ctrl), known' # <<>>
  PROVE  RpcInv'
<1>1. call' \in [Callers -> Calls]
  BY DEF RpcInv
<1>2. \A q \in Callers : call'[q] = IF q = p THEN c ELSE call[q]
  BY DEF RpcInv
<1>3. \A q \in Callers : Fits(q, call'[q])
  BY <1>2 DEF RpcInv
<1> QED
  BY <1>1, <1>3 DEF RpcInv

LEMMA BeginKeeps == ASSUME RpcInv, NEW p \in Callers, Begin(p) PROVE RpcInv'
<1>1. settled' = settled /\ known' = known /\ known \in Seq(Ctrl) /\ known # <<>>
  BY DEF Begin, RpcInv
<1>2. CASE p \in Frontends
  <2>1. PICK c : c = Call("local", <<>>)
    OBVIOUS
  <2>2. c = Fields("local", <<>>, NoNode, 0, 0, 0, 0, "none")
    BY <2>1, EmptySeq DEF Call, Fields
  <2>3. <<>> \in Seq(Ctrl) /\ 0 \in 0 .. MaxRedirects
    BY EmptySeq, ControlAssumption
  <2>4. c \in Calls /\ Fits(p, c)
    BY <2>2, <2>3 DEF Fields, Calls, Fits
  <2>5. call' = [call EXCEPT ![p] = c]
    BY <1>2, <2>1 DEF Begin
  <2> QED
    BY <1>1, <2>4, <2>5, CallReplaced
<1>3. CASE p \notin Frontends
  <2>1. targets \in Seq(Ctrl) /\ targets # <<>>
    BY <1>1, TargetsTyped
  <2>2. PICK c : c = NextBase(p, Call("try", targets), 0)
    OBVIOUS
  <2>3. c \in Calls /\ Fits(p, c)
    BY <2>1, <2>2, FirstFits
  <2>4. call' = [call EXCEPT ![p] = c]
    BY <1>3, <2>2 DEF Begin
  <2> QED
    BY <1>1, <2>3, <2>4, CallReplaced
<1> QED
  BY <1>2, <1>3

LEMMA TryFailsKeeps == ASSUME RpcInv, NEW p \in Callers, TryFails(p) PROVE RpcInv'
<1>1. settled' = settled /\ known' = known /\ known \in Seq(Ctrl) /\ known # <<>> /\ call[p].pc = "try"
  BY DEF TryFails, RpcInv
<1>2. PICK n \in {0, 1} : call' = [call EXCEPT ![p] = NextBase(p, Tried(p), n)]
  BY DEF TryFails
<1> QED
  BY <1>1, <1>2, NextFits, CallReplaced

LEMMA SubmitOkKeeps == ASSUME RpcInv, NEW p \in Callers, SubmitOk(p) PROVE RpcInv'
<1>1. /\ settled' = settled /\ known' = known /\ known \in Seq(Ctrl) /\ known # <<>>
      /\ call[p].pc = "try" /\ call' = [call EXCEPT ![p] = Over(p, TRUE, 1)]
  BY DEF SubmitOk, RpcInv
<1>2. Over(p, TRUE, 1) \in Calls /\ Fits(p, Over(p, TRUE, 1))
  BY <1>1, OverFits
<1> QED
  BY <1>1, <1>2, CallReplaced

LEMMA ForwardedKeeps == ASSUME RpcInv, NEW p \in Callers, SubmitForwarded(p) PROVE RpcInv'
<1>1. settled' = settled /\ known \in Seq(Ctrl) /\ known # <<>> /\ call[p].pc = "try"
  BY DEF SubmitForwarded, RpcInv
<1>2. PICK h \in Hints(call[p].target) :
        IF h \in {NoNode, call[p].target}
        THEN /\ call' = [call EXCEPT ![p] = NextBase(p, Tried(p), 0)]
             /\ UNCHANGED <<known, sticky>>
        ELSE /\ call' = [call EXCEPT ![p] = Redirected(p, h)]
             /\ IF p \in Renewers THEN report_leader(h) ELSE UNCHANGED <<known, sticky>>
  BY DEF SubmitForwarded
<1>3. CASE h \in {NoNode, call[p].target}
  <2>1. known' = known /\ call' = [call EXCEPT ![p] = NextBase(p, Tried(p), 0)]
    BY <1>2, <1>3
  <2> QED
    BY <1>1, <2>1, NextFits, CallReplaced
<1>4. CASE h \notin {NoNode, call[p].target}
  <2>1. h \in Ctrl
    BY <1>4 DEF Hints, RpcInv
  <2>2. call' = [call EXCEPT ![p] = Redirected(p, h)]
    BY <1>2, <1>4
  <2>3. known' = known \/ known' = Append(known, h)
    BY <1>2, <1>4 DEF report_leader
  <2>4. known' \in Seq(Ctrl) /\ known' # <<>>
    BY <1>1, <2>1, <2>3, AppendProperties, EmptySeq
  <2> QED
    BY <1>1, <2>1, <2>2, <2>4, RedirectedFits, CallReplaced
<1> QED
  BY <1>3, <1>4

LEMMA LocalKeeps == ASSUME RpcInv, NEW p \in Callers, LocalSubmit(p) PROVE RpcInv'
<1>1. /\ settled' = settled /\ known' = known /\ known \in Seq(Ctrl) /\ known # <<>>
      /\ call[p].pc = "local"
  BY DEF LocalSubmit, RpcInv
<1>2. CASE call' = [call EXCEPT ![p] = Over(p, TRUE, 1)]
  <2>1. Over(p, TRUE, 1) \in Calls /\ Fits(p, Over(p, TRUE, 1))
    BY <1>1, OverFits
  <2> QED
    BY <1>1, <1>2, <2>1, CallReplaced
<1>3. ASSUME NEW n \in {0, 1}, call' = [call EXCEPT ![p] = Over(p, FALSE, n)] PROVE RpcInv'
  <2>1. Over(p, FALSE, n) \in Calls /\ Fits(p, Over(p, FALSE, n))
    BY <1>1, OverFits
  <2> QED
    BY <1>1, <1>3, <2>1, CallReplaced
<1>4. ASSUME NEW h \in Hints(NoNode) \ {NoNode},
             call' = [call EXCEPT ![p] = NextBase(p, Call("try", <<h>>), 0)]
      PROVE  RpcInv'
  <2>1. h \in Ctrl
    BY DEF Hints, RpcInv
  <2>2. PICK b : b = <<h>>
    OBVIOUS
  <2>3. b \in Seq(Ctrl) /\ b # <<>>
    BY <2>1, <2>2
  <2>4. NextBase(p, Call("try", b), 0) \in Calls /\ Fits(p, NextBase(p, Call("try", b), 0))
    BY <2>3, FirstFits
  <2> QED
    BY <1>1, <1>4, <2>2, <2>4, CallReplaced
<1> QED
  BY <1>2, <1>3, <1>4 DEF LocalSubmit

LEMMA ReadKeeps == ASSUME RpcInv, NEW p \in Callers, ReadAnswered(p) PROVE RpcInv'
<1>1. /\ settled' = settled /\ known' = known /\ known \in Seq(Ctrl) /\ known # <<>>
      /\ call[p].pc = "try" /\ p \in Pollers
  BY DEF ReadAnswered, RpcInv
<1>2. PICK ok \in BOOLEAN : call' = [call EXCEPT ![p] = Over(p, ok, 0)]
  BY DEF ReadAnswered
<1>3. p \notin Submitters
  BY <1>1, ControlAssumption DEF Submitters
<1>4. Over(p, ok, 0) \in Calls /\ Fits(p, Over(p, ok, 0))
  BY <1>1, <1>3, OverFits
<1> QED
  BY <1>1, <1>2, <1>4, CallReplaced

LEMMA RpcStep == RpcInv /\ [Next]_rpcVars => RpcInv'
<1> SUFFICES ASSUME RpcInv, [Next]_rpcVars PROVE RpcInv'
  OBVIOUS
<1>1. CASE Settle
  BY <1>1 DEF Settle, RpcInv
<1>2. CASE UNCHANGED rpcVars
  BY <1>2 DEF rpcVars, RpcInv
<1>3. ASSUME NEW p \in Callers, Begin(p) \/ Step(p) PROVE RpcInv'
  BY <1>3, BeginKeeps, TryFailsKeeps, SubmitOkKeeps, ForwardedKeeps, LocalKeeps, ReadKeeps DEF Step
<1> QED
  BY <1>1, <1>2, <1>3 DEF Next

(* RpcInv holds in every reachable state, however the nodes answer, fail   *)
(* and hint at each other: submit_reply and call_read never lose count of  *)
(* the targets they have tried.                                            *)
THEOREM RpcInvariant == ControlSpec => []RpcInv
  BY InitRpc, RpcStep, PTL DEF ControlSpec

(* A target of the list costs submit_reply at most MaxRedirects + 1        *)
(* requests, for any limit and any hints.                                  *)
THEOREM TriesStayBounded == ControlSpec => []TriesBounded
<1>1. RpcInv => TriesBounded
  BY DEF RpcInv, Fits, GivenUp, TriesBounded
<1> QED
  BY <1>1, RpcInvariant, PTL

(* A submission that reports success is in the log, and there are never    *)
(* more copies of it than targets it began with.                           *)
THEOREM CopiesStayBounded == ControlSpec => []CopiesBounded
<1>1. RpcInv => CopiesBounded
  <2> SUFFICES ASSUME RpcInv, NEW p \in Submitters
               PROVE  /\ call[p].result = "ok" => call[p].commits >= 1
                      /\ call[p].commits <= (IF call[p].width = 0 THEN 1
                                             ELSE call[p].width - Len(call[p].bases))
    BY DEF CopiesBounded
  <2>1. p \in Callers
    BY DEF Submitters, Callers
  <2>2. call[p] \in Calls /\ Fits(p, call[p]) /\ call[p].width \in Nat /\ call[p].commits \in Nat
    BY <2>1 DEF RpcInv, Calls
  <2>3. CASE call[p].pc = "try"
    <3>1. PICK l \in Nat, w \in Nat, k \in Nat :
            /\ l = Len(call[p].bases) /\ w = call[p].width /\ k = call[p].commits
            /\ l < w /\ k <= w - l - 1 /\ call[p].result = "none"
      BY <2>1, <2>3, Trying
    <3>2. w # 0 /\ k <= w - l
      BY <3>1
    <3> QED
      BY <3>1, <3>2
  <2>4. CASE call[p].pc = "local"
    BY <2>2, <2>4 DEF Fits
  <2>5. CASE call[p].pc = "over"
    <3>1. Len(call[p].bases) = 0
      BY <2>2, <2>5, EmptySeq DEF Fits
    <3> QED
      BY <2>2, <2>5, <3>1 DEF Fits
  <2> QED
    BY <2>2, <2>3, <2>4, <2>5 DEF Calls
<1> QED
  BY <1>1, RpcInvariant, PTL
=============================================================================
