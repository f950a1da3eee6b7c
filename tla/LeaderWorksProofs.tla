--------------------------- MODULE LeaderWorksProofs ---------------------------
(***************************************************************************)
(* Proofs about LeaderWorks.  The argument: a controller starts works only *)
(* while it has none, and every instance that is not gone is one it has    *)
(* (Tracked); an aborted one leaves only signalled instances behind and    *)
(* starts nothing again.                                                   *)
(***************************************************************************)
EXTENDS LeaderWorks, SequenceTheorems, TLAPS

-----------------------------------------------------------------------------
(* Sequences and nested functions.                                         *)

LEMMA ToSetSplit ==
  ASSUME NEW S, NEW q \in Seq(S), q # <<>>
  PROVE  /\ Head(q) \in S /\ Tail(q) \in Seq(S) /\ Head(q) \in ToSet(q)
         /\ \A x \in ToSet(q) : x = Head(q) \/ x \in ToSet(Tail(q))
<1>1. /\ Len(q) \in Nat /\ Len(q) > 0 /\ DOMAIN q = 1 .. Len(q) /\ Head(q) = q[1]
      /\ Head(q) \in S /\ Tail(q) \in Seq(S)
  BY LenProperties, EmptySeq, HeadTailProperties
<1>2. Len(Tail(q)) = Len(q) - 1 /\ \A i \in 1 .. Len(Tail(q)) : Tail(q)[i] = q[i + 1]
  BY <1>1, HeadTailProperties
<1>3. DOMAIN Tail(q) = 1 .. Len(q) - 1
  BY <1>1, <1>2, LenProperties
<1>4. ASSUME NEW i \in DOMAIN q, i # 1 PROVE q[i] \in ToSet(Tail(q))
  <2>1. i - 1 \in DOMAIN Tail(q) /\ Tail(q)[i - 1] = q[i]
    BY <1>1, <1>2, <1>3, <1>4
  <2> QED
    BY <2>1 DEF ToSet
<1>5. 1 \in DOMAIN q
  BY <1>1
<1> QED
  BY <1>1, <1>4, <1>5 DEF ToSet

LEMMA GroupRewritten ==
  ASSUME InstTyped, NEW g \in Groups, NEW F \in [Works(g) -> [Slots -> Instances]],
         inst' = [inst EXCEPT ![g] = F]
  PROVE  InstTyped' /\ \A h \in Groups : inst'[h] = IF h = g THEN F ELSE inst[h]
  BY DEF InstTyped

Put(g, w, s, y) == [inst EXCEPT ![g][w][s] = y]

LEMMA InstRewritten ==
  ASSUME InstTyped, NEW g \in Groups, NEW w \in Works(g), NEW s \in Slots,
         NEW y \in Instances, inst' = Put(g, w, s, y)
  PROVE  /\ InstTyped'
         /\ \A h \in Groups : \A v \in Works(h) : \A r \in Slots :
              inst'[h][v][r] = IF h = g /\ v = w /\ r = s THEN y ELSE inst[h][v][r]
<1> DEFINE F == [inst[g] EXCEPT ![w][s] = y]
<1>1. inst[g] \in [Works(g) -> [Slots -> Instances]]
  BY DEF InstTyped
<1>2. F \in [Works(g) -> [Slots -> Instances]]
  BY <1>1
<1>3. \A v \in Works(g) : \A r \in Slots : F[v][r] = IF v = w /\ r = s THEN y ELSE inst[g][v][r]
  BY <1>1
<1>4. inst' = [inst EXCEPT ![g] = F]
  BY <1>1 DEF InstTyped, Put
<1> HIDE DEF F
<1>5. InstTyped' /\ \A h \in Groups : inst'[h] = IF h = g THEN F ELSE inst[h]
  BY <1>2, <1>4, GroupRewritten
<1>6. ASSUME NEW h \in Groups, NEW v \in Works(h), NEW r \in Slots
      PROVE  inst'[h][v][r] = IF h = g /\ v = w /\ r = s THEN y ELSE inst[h][v][r]
  <2>1. CASE h = g
    BY <1>3, <1>5, <2>1
  <2>2. CASE h # g
    BY <1>5, <2>2
  <2> QED
    BY <2>1, <2>2
<1> QED
  BY <1>5, <1>6

(* The stop signal changes no state and takes none back.                   *)
LEMMA SignalledKeeps ==
  ASSUME NEW g, NEW f \in [Works(g) -> [Slots -> Instances]],
         NEW q \in Seq(Works(g) \X Slots)
  PROVE  /\ Signalled(f, q) \in [Works(g) -> [Slots -> Instances]]
         /\ \A w \in Works(g) : \A s \in Slots :
              /\ Signalled(f, q)[w][s].state = f[w][s].state
              /\ f[w][s].stop => Signalled(f, q)[w][s].stop
<1>1. CASE q = <<>>
  BY <1>1 DEF Signalled
<1>2. CASE q # <<>>
  <2>1. PICK a \in Works(g), b \in Slots : Head(q)[1] = a /\ Head(q)[2] = b
    BY <1>2, ToSetSplit
  <2> DEFINE y == [f[a][b] EXCEPT !.stop = TRUE]
  <2>2. y \in Instances /\ y.state = f[a][b].state /\ y.stop = TRUE
    <3>1. f[a][b] \in Instances
      OBVIOUS
    <3> QED
      BY <3>1 DEF Instances
  <2>3. Signalled(f, q) = [f EXCEPT ![a][b] = y]
    BY <1>2, <2>1 DEF Signalled
  <2> HIDE DEF y
  <2>4. \A w \in Works(g) : \A s \in Slots :
          Signalled(f, q)[w][s] = IF w = a /\ s = b THEN y ELSE f[w][s]
    BY <2>3
  <2>5. Signalled(f, q) \in [Works(g) -> [Slots -> Instances]]
    BY <2>2, <2>3
  <2> QED
    BY <2>2, <2>4, <2>5
<1> QED
  BY <1>1, <1>2

-----------------------------------------------------------------------------
(* Steps that start nothing.                                               *)

Calm ==
  \A g \in Groups : \A w \in Works(g) : \A s \in Slots :
    /\ inst'[g][w][s].state # "off" => inst[g][w][s].state # "off"
    /\ inst'[g][w][s].state \in {"idle", "busy"} =>
         /\ inst[g][w][s].state \in {"idle", "busy"}
         /\ inst[g][w][s].stop => inst'[g][w][s].stop

LEMMA CalmUse == ASSUME WorksInv, Calm PROVE SingleUse'
  BY DEF WorksInv, SingleUse, Used, Calm

LEMMA CalmTracked ==
  ASSUME WorksInv, Calm, running' = running, service' = service,
         \A g \in Groups : ctl[g].pc = "gone" => ctl'[g].pc = "gone"
  PROVE  Tracked'
<1> SUFFICES ASSUME NEW g \in Groups, NEW w \in Works(g), NEW s \in Slots,
                    inst'[g][w][s].state # "off", <<w, s>> \notin ToSet(running'[g])
             PROVE  /\ service' = "error" /\ ctl'[g].pc = "gone"
                    /\ inst'[g][w][s].state \in {"idle", "busy"} => inst'[g][w][s].stop
  BY DEF Tracked, Used, Live, ToSet
<1>1. s \in Used(g, w) /\ <<w, s>> \notin ToSet(running[g])
  BY DEF Calm, Used, ToSet
<1>2. service = "error" /\ ctl[g].pc = "gone" /\ (s \in Live(g, w) => inst[g][w][s].stop)
  BY <1>1 DEF WorksInv, Tracked
<1> QED
  BY <1>2 DEF Live, Calm

(* A group's task that is not gone has every instance.                     *)
LEMMA Known ==
  ASSUME WorksInv, NEW g \in Groups, ctl[g].pc # "gone" \/ service # "error",
         NEW w \in Works(g), NEW s \in Slots, inst[g][w][s].state # "off"
  PROVE  <<w, s>> \in ToSet(running[g])
  BY DEF WorksInv, Tracked, Used

LEMMA SameInst == ASSUME inst' = inst PROVE Calm
  BY DEF Calm

(* One instance moves on, or is gone.                                      *)
LEMMA InstStep ==
  ASSUME WorksInv, NEW g \in Groups, NEW w \in Works(g), NEW s \in Slots,
         inst[g][w][s].state \in {"idle", "busy"},
         \/ \E x \in {"idle", "busy", "over", "dead"} : SetInst(g, w, s, x)
         \/ inst' = [inst EXCEPT ![g][w][s] = Off]
  PROVE  InstTyped' /\ Calm
<1>1. InstTyped /\ inst[g][w][s] \in Instances
  BY DEF WorksInv, InstTyped
<1>2. PICK y \in Instances :
        /\ inst' = Put(g, w, s, y)
        /\ y.state = "off" \/ y.stop = inst[g][w][s].stop
  <2>1. ASSUME NEW x \in {"idle", "busy", "over", "dead"}, SetInst(g, w, s, x)
        PROVE  \E y \in Instances : /\ inst' = Put(g, w, s, y)
                                    /\ y.stop = inst[g][w][s].stop
    <3> DEFINE z == [inst[g][w][s] EXCEPT !.state = x]
    <3>1. z \in Instances /\ z.stop = inst[g][w][s].stop
      BY <1>1 DEF Instances
    <3>2. inst' = Put(g, w, s, z)
      BY <1>1, <2>1 DEF SetInst, InstTyped, Put
    <3> QED
      BY <3>1, <3>2
  <2>2. Off \in Instances /\ Off.state = "off"
    BY DEF Off, Instances
  <2> QED
    BY <2>1, <2>2 DEF Put
<1>3. /\ InstTyped'
      /\ \A h \in Groups : \A v \in Works(h) : \A r \in Slots :
           inst'[h][v][r] = IF h = g /\ v = w /\ r = s THEN y ELSE inst[h][v][r]
  BY <1>1, <1>2, InstRewritten
<1>4. Calm
  BY <1>2, <1>3 DEF Calm
<1> QED
  BY <1>3, <1>4

LEMMA SameCtl ==
  ASSUME WorksInv, UNCHANGED <<ctl, running>>, service' = service PROVE CtlTyped' /\ PcFits'
  BY DEF WorksInv, CtlTyped, PcFits

LEMMA SameHeals == ASSUME WorksInv, UNCHANGED healVars PROVE FenceCounts'
  BY DEF WorksInv, FenceCounts, healVars

(* The works' own steps.                                                   *)
LEMMA WorkKeeps ==
  ASSUME WorksInv, NEW g \in Groups, NEW w \in Works(g), NEW s \in Slots,
         BeginPass(g, w, s) \/ EndPass(g, w, s) \/ SeeStop(g, w, s) \/ Panic(g, w, s)
  PROVE  WorksInv'
<1>1. /\ inst[g][w][s].state \in {"idle", "busy"} /\ UNCHANGED <<ctl, running, healVars, service>>
      /\ \/ \E x \in {"idle", "busy", "over", "dead"} : SetInst(g, w, s, x)
         \/ inst' = [inst EXCEPT ![g][w][s] = Off]
  BY DEF BeginPass, EndPass, SeeStop, Panic, healVars
<1>2. InstTyped' /\ Calm
  BY <1>1, InstStep
<1>3. SingleUse' /\ Tracked' /\ CtlTyped' /\ PcFits' /\ FenceCounts'
  BY <1>1, <1>2, CalmUse, CalmTracked, SameCtl, SameHeals
<1> QED
  BY <1>1, <1>2, <1>3 DEF WorksInv

LEMMA SpawnHealKeeps ==
  ASSUME WorksInv, NEW g \in Groups, NEW s \in Slots, SpawnHeal(g, s) PROVE WorksInv'
<1>1. /\ "guard" \in Works(g) /\ inst[g]["guard"][s].state \in {"idle", "busy"}
      /\ SetInst(g, "guard", s, "idle") /\ UNCHANGED <<ctl, running, service>>
  BY DEF SpawnHeal
<1>2. InstTyped' /\ Calm
  BY <1>1, InstStep
<1>3. SingleUse' /\ Tracked' /\ CtlTyped' /\ PcFits'
  BY <1>1, <1>2, CalmUse, CalmTracked, SameCtl
<1>4. FenceCounts'
  BY DEF WorksInv, FenceCounts, SpawnHeal
<1> QED
  BY <1>1, <1>2, <1>3, <1>4 DEF WorksInv

LEMMA HealEndsKeeps == ASSUME WorksInv, NEW g \in Groups, HealEnds(g) PROVE WorksInv'
<1>1. UNCHANGED <<ctl, running, service, inst>>
  BY DEF HealEnds
<1>2. InstTyped' /\ Calm
  BY <1>1, SameInst DEF WorksInv, InstTyped
<1>3. SingleUse' /\ Tracked' /\ CtlTyped' /\ PcFits'
  BY <1>1, <1>2, CalmUse, CalmTracked, SameCtl
<1>4. FenceCounts'
  BY DEF WorksInv, FenceCounts, HealEnds
<1> QED
  BY <1>1, <1>2, <1>3, <1>4 DEF WorksInv

(* Steps of raft and of the shutdown signal, and stuttering.               *)
LEMMA OutsideKeeps ==
  ASSUME WorksInv, UNCHANGED <<ctl, running, inst, healVars, service>> PROVE WorksInv'
<1>1. InstTyped' /\ Calm
  BY SameInst DEF WorksInv, InstTyped
<1>2. SingleUse' /\ Tracked' /\ CtlTyped' /\ PcFits' /\ FenceCounts'
  BY <1>1, CalmUse, CalmTracked, SameCtl, SameHeals
<1> QED
  BY <1>1, <1>2 DEF WorksInv

-----------------------------------------------------------------------------
(* The controller of a group.                                              *)

LEMMA CtlRewritten ==
  ASSUME WorksInv, NEW g \in Groups, NEW c \in Controllers, ctl' = [ctl EXCEPT ![g] = c]
  PROVE  /\ ctl' \in [Groups -> Controllers]
         /\ \A h \in Groups : ctl'[h] = IF h = g THEN c ELSE ctl[h]
  BY DEF WorksInv, CtlTyped

LEMMA NotReported ==
  ASSUME WorksInv, NEW g \in Groups, ctl[g].pc # "gone"
  PROVE  service # "ok"
  BY DEF WorksInv, PcFits

LEMMA AllStoppedTyped ==
  ASSUME NEW why \in {"role", "shutdown", "closed"}, NEW err \in BOOLEAN
  PROVE  AllStopped(why, err) \in Controllers /\ AllStopped(why, err).pc \in {"watch", "exited"}
  BY DEF AllStopped, Controllers

LEMMA StoppingKeeps ==
  ASSUME WorksInv, NEW g \in Groups, NEW why \in {"role", "shutdown", "closed"},
         ctl[g].pc # "gone", Stopping(g, why), UNCHANGED <<running, healVars, service>>
  PROVE  WorksInv'
<1>1. CtlTyped /\ InstTyped /\ PcFits /\ service # "ok"
  BY NotReported DEF WorksInv
<1>2. PICK c \in Controllers :
        /\ ctl' = [ctl EXCEPT ![g] = c]
        /\ running[g] = <<>> => c.pc \in {"watch", "exited"}
        /\ running[g] # <<>> => c.pc = "stopping"
  <2>1. CASE running[g] = <<>>
    BY <2>1, AllStoppedTyped DEF Stopping
  <2>2. CASE running[g] # <<>>
    <3> DEFINE c == [pc |-> "stopping", why |-> why, err |-> FALSE]
    <3>1. c \in Controllers /\ c.pc = "stopping"
      BY DEF Controllers
    <3>2. ctl' = [ctl EXCEPT ![g] = c]
      BY <2>2 DEF Stopping
    <3> QED
      BY <2>2, <3>1, <3>2
  <2> QED
    BY <2>1, <2>2
<1>3. /\ ctl' \in [Groups -> Controllers]
      /\ \A h \in Groups : ctl'[h] = IF h = g THEN c ELSE ctl[h]
  BY <1>2, CtlRewritten
<1>4. CtlTyped' /\ PcFits'
  BY <1>1, <1>2, <1>3 DEF CtlTyped, PcFits
<1> DEFINE F == Signalled(inst[g], running[g])
<1>5. /\ F \in [Works(g) -> [Slots -> Instances]]
      /\ \A w \in Works(g) : \A s \in Slots :
           F[w][s].state = inst[g][w][s].state /\ (inst[g][w][s].stop => F[w][s].stop)
  <2>1. inst[g] \in [Works(g) -> [Slots -> Instances]] /\ running[g] \in Seq(Works(g) \X Slots)
    BY <1>1 DEF InstTyped, CtlTyped
  <2> QED
    BY <2>1, SignalledKeeps
<1>6. inst' = [inst EXCEPT ![g] = F]
  BY <1>1 DEF Stopping, InstTyped
<1> HIDE DEF F
<1>7. InstTyped' /\ \A h \in Groups : inst'[h] = IF h = g THEN F ELSE inst[h]
  BY <1>1, <1>5, <1>6, GroupRewritten
<1>8. Calm
  BY <1>5, <1>7 DEF Calm
<1>9. SingleUse' /\ Tracked' /\ FenceCounts'
  BY <1>3, <1>8, CalmUse, CalmTracked, SameHeals
<1> QED
  BY <1>4, <1>7, <1>9 DEF WorksInv

(* A controller without works starts one instance of each: no other is     *)
(* left, ended or not.                                                     *)
LEMMA StartKeeps ==
  ASSUME WorksInv, NEW g \in Groups, ctl[g].pc \in {"start", "watch"}, running[g] = <<>>,
         StartWorks(g), ctl' = [ctl EXCEPT ![g].pc = "watch"], service' = service
  PROVE  WorksInv'
<1>1. /\ CtlTyped /\ InstTyped /\ PcFits /\ SingleUse /\ Tracked
      /\ service # "ok"
  BY NotReported DEF WorksInv
<1>2. WorksOf[g] \in Seq({"guard", "scheduler"})
  BY WorksAssumption
<1>3. /\ DOMAIN WorksOf[g] = 1 .. Len(WorksOf[g]) /\ Len(WorksOf[g]) \in Nat
      /\ \A i \in DOMAIN WorksOf[g] : WorksOf[g][i] \in Works(g)
      /\ \A w \in Works(g) : \E i \in DOMAIN WorksOf[g] : w = WorksOf[g][i]
  BY <1>2, LenProperties DEF Works, ToSet
<1>4. PICK slot : slot = [w \in Works(g) |-> CHOOSE s \in Slots : s \in Free(g, w)]
  OBVIOUS
<1>5. \A w \in Works(g) : slot[w] \in Slots
  <2>1. \A w \in Works(g) : \E s \in Slots : s \in Free(g, w)
    BY DEF StartWorks, Free
  <2> QED
    BY <1>4, <2>1
<1> DEFINE R == [i \in DOMAIN WorksOf[g] |-> <<WorksOf[g][i], slot[WorksOf[g][i]]>>]
           new == [state |-> "idle", stop |-> FALSE]
           F == [w \in Works(g) |-> [inst[g][w] EXCEPT ![slot[w]] = new]]
<1>6. running' = [running EXCEPT ![g] = R] /\ inst' = [inst EXCEPT ![g] = F] /\ UNCHANGED healVars
  BY <1>1, <1>4 DEF StartWorks, InstTyped
<1>7. new \in Instances /\ new.state = "idle"
  BY DEF Instances
<1>8. R \in Seq(Works(g) \X Slots) /\ \A w \in Works(g) : <<w, slot[w]>> \in ToSet(R)
  <2>1. R \in [1 .. Len(WorksOf[g]) -> Works(g) \X Slots]
    BY <1>3, <1>5
  <2>2. R \in Seq(Works(g) \X Slots)
    BY <1>3, <2>1
  <2>3. ASSUME NEW w \in Works(g) PROVE <<w, slot[w]>> \in ToSet(R)
    <3>1. PICK i \in DOMAIN WorksOf[g] : w = WorksOf[g][i]
      BY <1>3
    <3>2. i \in DOMAIN R /\ R[i] = <<w, slot[w]>>
      BY <3>1
    <3> HIDE DEF R
    <3> QED
      BY <3>2 DEF ToSet
  <2> QED
    BY <2>2, <2>3
<1> HIDE DEF R, new
<1>9. F \in [Works(g) -> [Slots -> Instances]]
  BY <1>1, <1>7 DEF InstTyped
<1>10. \A w \in Works(g) : \A s \in Slots : F[w][s].state # "off" => s = slot[w]
  <2>1. \A w \in Works(g) : \A s \in Slots : inst[g][w][s].state = "off"
    <3>1. ToSet(running[g]) = {}
      BY DEF ToSet
    <3> QED
      BY <3>1, Known
  <2>2. \A w \in Works(g) : \A s \in Slots : s # slot[w] => F[w][s] = inst[g][w][s]
    BY <1>1 DEF InstTyped
  <2> QED
    BY <2>1, <2>2
<1> HIDE DEF F
<1>11. InstTyped' /\ \A h \in Groups : inst'[h] = IF h = g THEN F ELSE inst[h]
  BY <1>1, <1>6, <1>9, GroupRewritten
<1>12. \A h \in Groups : running'[h] = IF h = g THEN R ELSE running[h]
  BY <1>1, <1>6 DEF CtlTyped
<1>13. SingleUse'
  <2> SUFFICES ASSUME NEW h \in Groups, NEW w \in Works(h), NEW s \in Slots, NEW r \in Slots,
                      inst'[h][w][s].state # "off", inst'[h][w][r].state # "off"
               PROVE  s = r
    BY DEF SingleUse, Used
  <2>1. CASE h = g
    BY <1>10, <1>11, <2>1
  <2>2. CASE h # g
    BY <1>1, <1>11, <2>2 DEF SingleUse, Used
  <2> QED
    BY <2>1, <2>2
<1>14. Tracked'
  <2> SUFFICES ASSUME NEW h \in Groups, NEW w \in Works(h), NEW s \in Slots,
                      inst'[h][w][s].state # "off"
               PROVE  \/ <<w, s>> \in ToSet(running'[h])
                      \/ /\ service' = "error" /\ ctl'[h].pc = "gone"
                         /\ inst'[h][w][s].state \in {"idle", "busy"} => inst'[h][w][s].stop
    BY DEF Tracked, Used, Live, ToSet
  <2>1. CASE h = g
    BY <1>8, <1>10, <1>11, <1>12, <2>1
  <2>2. CASE h # g
    <3>1. ctl'[h] = ctl[h] /\ inst'[h] = inst[h] /\ running'[h] = running[h]
      BY <1>1, <1>11, <1>12, <2>2 DEF CtlTyped
    <3> QED
      BY <1>1, <3>1 DEF Tracked, Used, Live
  <2> QED
    BY <2>1, <2>2
<1>15. CtlTyped' /\ PcFits'
  <2> DEFINE c == [ctl[g] EXCEPT !.pc = "watch"]
  <2>1. c \in Controllers /\ c.pc = "watch"
    <3>1. ctl[g] \in Controllers
      BY <1>1 DEF CtlTyped
    <3> QED
      BY <3>1 DEF Controllers
  <2>2. ctl' = [ctl EXCEPT ![g] = c]
    BY <1>1 DEF CtlTyped
  <2> HIDE DEF c
  <2>3. /\ ctl' \in [Groups -> Controllers]
        /\ \A h \in Groups : ctl'[h] = IF h = g THEN c ELSE ctl[h]
    BY <2>1, <2>2, CtlRewritten
  <2>4. DOMAIN running' = Groups
    BY <1>1, <1>6 DEF CtlTyped
  <2>5. CtlTyped'
    BY <1>1, <1>8, <1>12, <2>3, <2>4 DEF CtlTyped
  <2>6. PcFits'
    BY <1>1, <1>12, <2>1, <2>3 DEF PcFits
  <2> QED
    BY <2>5, <2>6
<1> QED
  BY <1>6, <1>11, <1>13, <1>14, <1>15, SameHeals DEF WorksInv

LEMMA StayKeeps ==
  ASSUME WorksInv, NEW g \in Groups, ctl[g].pc \in {"start", "watch"},
         ctl' = [ctl EXCEPT ![g].pc = "watch"], UNCHANGED <<running, inst, healVars, service>>
  PROVE  WorksInv'
<1>1. /\ CtlTyped /\ InstTyped /\ PcFits /\ service # "ok"
  BY NotReported DEF WorksInv
<1> DEFINE c == [ctl[g] EXCEPT !.pc = "watch"]
<1>2. c \in Controllers /\ c.pc = "watch"
  <2>1. ctl[g] \in Controllers
    BY <1>1 DEF CtlTyped
  <2> QED
    BY <2>1 DEF Controllers
<1>3. ctl' = [ctl EXCEPT ![g] = c]
  BY <1>1 DEF CtlTyped
<1> HIDE DEF c
<1>4. /\ ctl' \in [Groups -> Controllers]
      /\ \A h \in Groups : ctl'[h] = IF h = g THEN c ELSE ctl[h]
  BY <1>2, <1>3, CtlRewritten
<1>5. CtlTyped' /\ PcFits'
  BY <1>1, <1>2, <1>4 DEF CtlTyped, PcFits
<1>6. InstTyped' /\ Calm
  BY <1>1, SameInst DEF InstTyped
<1> QED
  BY <1>4, <1>5, <1>6, CalmUse, CalmTracked, SameHeals DEF WorksInv

LEMMA ApplyRoleKeeps ==
  ASSUME WorksInv, NEW g \in Groups, ctl[g].pc \in {"start", "watch"}, ApplyRole(g),
         service' = service
  PROVE  WorksInv'
<1>1. CASE running[g] = <<>> /\ StartWorks(g) /\ ctl' = [ctl EXCEPT ![g].pc = "watch"]
  BY <1>1, StartKeeps
<1>2. CASE Stopping(g, "role") /\ UNCHANGED <<running, healVars>>
  BY <1>2, StoppingKeeps
<1>3. CASE ctl' = [ctl EXCEPT ![g].pc = "watch"] /\ UNCHANGED <<running, inst, healVars>>
  BY <1>3, StayKeeps
<1> QED
  BY <1>1, <1>2, <1>3 DEF ApplyRole

LEMMA RoleKeeps ==
  ASSUME WorksInv, NEW g \in Groups, FirstRole(g) \/ SeeRole(g) PROVE WorksInv'
  BY ApplyRoleKeeps DEF FirstRole, SeeRole

LEMMA SeeEndKeeps == ASSUME WorksInv, NEW g \in Groups, SeeEnd(g) PROVE WorksInv'
  BY StoppingKeeps DEF SeeEnd

(* An awaited work is gone, and the others are still known.                *)
LEMMA AwaitKeeps == ASSUME WorksInv, NEW g \in Groups, AwaitStopped(g) PROVE WorksInv'
<1>1. /\ CtlTyped /\ InstTyped /\ PcFits /\ SingleUse /\ Tracked
      /\ ctl[g].pc = "stopping" /\ service # "ok" /\ running[g] # <<>>
  BY NotReported DEF WorksInv, AwaitStopped, PcFits
<1>2. running[g] \in Seq(Works(g) \X Slots) /\ inst[g] \in [Works(g) -> [Slots -> Instances]]
  BY <1>1 DEF CtlTyped, InstTyped
<1>3. PICK rest : rest = Tail(running[g])
  OBVIOUS
<1>4. PICK a \in Works(g), b \in Slots :
        /\ Head(running[g]) = <<a, b>> /\ rest \in Seq(Works(g) \X Slots)
        /\ \A x \in ToSet(running[g]) : x = <<a, b>> \/ x \in ToSet(rest)
  BY <1>1, <1>2, <1>3, ToSetSplit
<1>5. PICK err \in BOOLEAN : err = (ctl[g].err \/ inst[g][a][b].state = "dead")
  OBVIOUS
<1>6. Head(running[g])[1] = a /\ Head(running[g])[2] = b
  BY <1>4
<1>7. /\ ctl' = [ctl EXCEPT ![g] = IF rest = <<>> THEN AllStopped(@.why, err)
                                   ELSE [@ EXCEPT !.err = err]]
      /\ inst' = [inst EXCEPT ![g] = Signalled([@ EXCEPT ![a][b] = Off], rest)]
      /\ running' = [running EXCEPT ![g] = rest]
      /\ UNCHANGED <<healVars, service>>
  BY <1>3, <1>5, <1>6 DEF AwaitStopped
<1> DEFINE E == [inst[g] EXCEPT ![a][b] = Off]
           F == Signalled(E, rest)
<1>8. /\ E \in [Works(g) -> [Slots -> Instances]]
      /\ \A w \in Works(g) : \A s \in Slots :
           E[w][s] = IF w = a /\ s = b THEN Off ELSE inst[g][w][s]
  <2>1. Off \in Instances
    BY DEF Off, Instances
  <2> QED
    BY <1>2, <2>1
<1>9. inst' = [inst EXCEPT ![g] = F]
  BY <1>1, <1>7 DEF InstTyped
<1> HIDE DEF E
<1>10. /\ F \in [Works(g) -> [Slots -> Instances]]
       /\ \A w \in Works(g) : \A s \in Slots :
            F[w][s].state = E[w][s].state /\ (E[w][s].stop => F[w][s].stop)
  BY <1>4, <1>8, SignalledKeeps
<1> HIDE DEF F
<1>11. InstTyped' /\ \A h \in Groups : inst'[h] = IF h = g THEN F ELSE inst[h]
  BY <1>1, <1>9, <1>10, GroupRewritten
<1>12. Off.state = "off"
  BY DEF Off
<1>13. /\ \A w \in Works(g) : \A s \in Slots : F[w][s].state # "off" =>
            /\ <<w, s>> # <<a, b>> /\ inst[g][w][s].state = F[w][s].state
            /\ inst[g][w][s].stop => F[w][s].stop
  BY <1>8, <1>10, <1>12
<1>14. Calm
  BY <1>11, <1>13 DEF Calm
<1>15. \A h \in Groups : running'[h] = IF h = g THEN rest ELSE running[h]
  BY <1>1, <1>7 DEF CtlTyped
<1>17. PICK c \in Controllers :
         /\ ctl' = [ctl EXCEPT ![g] = c]
         /\ rest = <<>> => c.pc \in {"watch", "exited"}
         /\ rest # <<>> => c.pc = "stopping"
  <2>1. ctl[g] \in Controllers
    BY <1>1 DEF CtlTyped
  <2>2. CASE rest = <<>>
    <3> DEFINE c == AllStopped(ctl[g].why, err)
    <3>1. c \in Controllers /\ c.pc \in {"watch", "exited"}
      BY <2>1 DEF AllStopped, Controllers
    <3>2. ctl' = [ctl EXCEPT ![g] = c]
      BY <1>1, <1>7, <2>2 DEF CtlTyped
    <3> QED
      BY <2>2, <3>1, <3>2
  <2>3. CASE rest # <<>>
    <3> DEFINE c == [ctl[g] EXCEPT !.err = err]
    <3>1. c \in Controllers /\ c.pc = "stopping"
      BY <1>1, <2>1 DEF Controllers
    <3>2. ctl' = [ctl EXCEPT ![g] = c]
      BY <1>1, <1>7, <2>3 DEF CtlTyped
    <3> QED
      BY <2>3, <3>1, <3>2
  <2> QED
    BY <2>2, <2>3
<1>18. /\ ctl' \in [Groups -> Controllers]
       /\ \A h \in Groups : ctl'[h] = IF h = g THEN c ELSE ctl[h]
  BY <1>17, CtlRewritten
<1>16. Tracked'
  <2> SUFFICES ASSUME NEW h \in Groups, NEW w \in Works(h), NEW s \in Slots,
                      inst'[h][w][s].state # "off"
               PROVE  \/ <<w, s>> \in ToSet(running'[h])
                      \/ /\ service' = "error" /\ ctl'[h].pc = "gone"
                         /\ inst'[h][w][s].state \in {"idle", "busy"} => inst'[h][w][s].stop
    BY DEF Tracked, Used, Live, ToSet
  <2>1. CASE h = g
    <3>1. <<w, s>> # <<a, b>> /\ inst[g][w][s].state # "off"
      BY <1>11, <1>13, <2>1
    <3>2. <<w, s>> \in ToSet(running[g])
      BY <1>1, <2>1, <3>1, Known
    <3> QED
      BY <1>4, <1>15, <2>1, <3>1, <3>2
  <2>2. CASE h # g
    <3>1. ctl'[h] = ctl[h] /\ inst'[h] = inst[h] /\ running'[h] = running[h]
      BY <1>11, <1>15, <1>18, <2>2
    <3> QED
      BY <1>1, <1>7, <3>1 DEF Tracked, Used, Live
  <2> QED
    BY <2>1, <2>2
<1>19. CtlTyped'
  <2>1. DOMAIN running' = Groups
    BY <1>1, <1>7 DEF CtlTyped
  <2> QED
    BY <1>1, <1>4, <1>15, <1>18, <2>1 DEF CtlTyped
<1>20. PcFits'
  BY <1>1, <1>7, <1>15, <1>17, <1>18 DEF PcFits
<1> QED
  BY <1>7, <1>11, <1>14, <1>16, <1>19, <1>20, CalmUse, SameHeals DEF WorksInv

-----------------------------------------------------------------------------
(* The service and the process.                                            *)

(* Until the controller has failed all instances are known.                *)
LEMMA SameKnown ==
  ASSUME WorksInv, UNCHANGED <<inst, running>>, service # "error"
  PROVE  InstTyped' /\ SingleUse' /\ Tracked'
<1>1. Calm
  BY SameInst
<1>2. Tracked'
  <2> SUFFICES ASSUME NEW g \in Groups, NEW w \in Works(g), NEW s \in Slots,
                      inst'[g][w][s].state # "off"
               PROVE  <<w, s>> \in ToSet(running'[g])
    BY DEF Tracked, Used, ToSet
  <2>1. <<w, s>> \in ToSet(running[g])
    BY Known
  <2> QED
    BY <2>1
<1> QED
  BY <1>1, <1>2, CalmUse DEF WorksInv, InstTyped

(* A group's task ends.                                                    *)
LEMMA GoneTyped ==
  ASSUME WorksInv, NEW g \in Groups, ctl' = [ctl EXCEPT ![g].pc = "gone"]
  PROVE  /\ ctl' \in [Groups -> Controllers] /\ ctl'[g].pc = "gone"
         /\ \A h \in Groups : h # g => ctl'[h] = ctl[h]
<1> DEFINE c == [ctl[g] EXCEPT !.pc = "gone"]
<1>1. ctl \in [Groups -> Controllers] /\ ctl[g] \in Controllers
  BY DEF WorksInv, CtlTyped
<1>2. ctl' = [ctl EXCEPT ![g] = c] /\ c \in Controllers /\ c.pc = "gone"
  BY <1>1 DEF Controllers
<1> HIDE DEF c
<1>3. /\ ctl' \in [Groups -> Controllers]
      /\ \A h \in Groups : ctl'[h] = IF h = g THEN c ELSE ctl[h]
  BY <1>2, CtlRewritten
<1> QED
  BY <1>2, <1>3

LEMMA JoinKeeps == ASSUME WorksInv, NEW g \in Groups, JoinGroup(g) PROVE WorksInv'
<1>1. /\ CtlTyped /\ PcFits /\ service # "error" /\ ctl[g].pc = "exited"
      /\ service' \in {"running", "draining", "failing", "error"}
      /\ ctl' = [ctl EXCEPT ![g].pc = "gone"] /\ UNCHANGED <<running, inst, healVars>>
  BY DEF WorksInv, JoinGroup
<1>2. /\ ctl' \in [Groups -> Controllers] /\ ctl'[g].pc = "gone"
      /\ \A h \in Groups : h # g => ctl'[h] = ctl[h]
  BY <1>1, GoneTyped
<1>3. CtlTyped' /\ PcFits'
  BY <1>1, <1>2 DEF CtlTyped, PcFits
<1>4. InstTyped' /\ SingleUse' /\ Tracked'
  BY <1>1, SameKnown
<1> QED
  BY <1>1, <1>3, <1>4, SameHeals DEF WorksInv

(* The signals an aborted task leaves.                                     *)
LEMMA CancelledInst ==
  ASSUME WorksInv, NEW g \in Groups, Cancelled(g)
  PROVE  /\ InstTyped'
         /\ \A h \in Groups : h # g => inst'[h] = inst[h]
         /\ \A w \in Works(g) : \A s \in Slots :
              /\ inst'[g][w][s].state = inst[g][w][s].state
              /\ inst[g][w][s].stop => inst'[g][w][s].stop
              /\ <<w, s>> \in ToSet(running[g]) => inst'[g][w][s].stop
<1> DEFINE y(w, s) == IF <<w, s>> \in ToSet(running[g])
                      THEN [inst[g][w][s] EXCEPT !.stop = TRUE] ELSE inst[g][w][s]
           F == [w \in Works(g) |-> [s \in Slots |-> y(w, s)]]
<1>1. ASSUME NEW w \in Works(g), NEW s \in Slots
      PROVE  /\ y(w, s) \in Instances /\ y(w, s).state = inst[g][w][s].state
             /\ inst[g][w][s].stop => y(w, s).stop
             /\ <<w, s>> \in ToSet(running[g]) => y(w, s).stop
  <2>1. inst[g][w][s] \in Instances
    BY DEF WorksInv, InstTyped
  <2>2. CASE <<w, s>> \in ToSet(running[g])
    <3> DEFINE z == [inst[g][w][s] EXCEPT !.stop = TRUE]
    <3>1. z \in Instances /\ z.state = inst[g][w][s].state /\ z.stop = TRUE
      BY <2>1 DEF Instances
    <3>2. y(w, s) = z
      BY <2>2
    <3> QED
      BY <3>1, <3>2
  <2>3. CASE <<w, s>> \notin ToSet(running[g])
    BY <2>1, <2>3
  <2> QED
    BY <2>2, <2>3
<1>2. inst' = [inst EXCEPT ![g] = F]
  <2>1. g \in DOMAIN inst
    BY DEF WorksInv, InstTyped
  <2> QED
    BY <2>1 DEF Cancelled
<1> HIDE DEF y
<1>3. F \in [Works(g) -> [Slots -> Instances]]
  <2>1. \A w \in Works(g) : \A s \in Slots : y(w, s) \in Instances
    BY <1>1
  <2>2. \A w \in Works(g) : [s \in Slots |-> y(w, s)] \in [Slots -> Instances]
    BY <2>1
  <2> QED
    BY <2>2
<1>4. \A w \in Works(g) : \A s \in Slots : F[w][s] = y(w, s)
  OBVIOUS
<1> HIDE DEF F
<1>5. InstTyped' /\ \A h \in Groups : inst'[h] = IF h = g THEN F ELSE inst[h]
  BY <1>2, <1>3, GroupRewritten DEF WorksInv
<1> QED
  BY <1>1, <1>4, <1>5

LEMMA CancelledKeeps == ASSUME WorksInv, NEW g \in Groups, Cancelled(g) PROVE WorksInv'
<1>1. /\ CtlTyped /\ PcFits /\ Tracked /\ service = "error" /\ service' = "error"
      /\ ctl[g].pc # "gone" /\ ctl' = [ctl EXCEPT ![g].pc = "gone"]
      /\ running' = [running EXCEPT ![g] = <<>>] /\ UNCHANGED healVars
  BY DEF WorksInv, Cancelled
<1>2. /\ ctl' \in [Groups -> Controllers] /\ ctl'[g].pc = "gone"
      /\ \A h \in Groups : h # g => ctl'[h] = ctl[h]
  BY <1>1, GoneTyped
<1>3. /\ DOMAIN running' = Groups /\ running'[g] = <<>>
      /\ \A h \in Groups : h # g => running'[h] = running[h]
  BY <1>1 DEF CtlTyped
<1>4. CtlTyped'
  <2>1. <<>> \in Seq(Works(g) \X Slots)
    BY EmptySeq
  <2> QED
    BY <1>1, <1>2, <1>3, <2>1 DEF CtlTyped
<1>5. PcFits'
  BY <1>1, <1>2, <1>3 DEF PcFits
<1>6. /\ InstTyped'
      /\ \A h \in Groups : h # g => inst'[h] = inst[h]
      /\ \A w \in Works(g) : \A s \in Slots :
           /\ inst'[g][w][s].state = inst[g][w][s].state
           /\ inst[g][w][s].stop => inst'[g][w][s].stop
           /\ <<w, s>> \in ToSet(running[g]) => inst'[g][w][s].stop
  BY CancelledInst
<1>7. Calm
  <2> SUFFICES ASSUME NEW h \in Groups, NEW w \in Works(h), NEW s \in Slots
               PROVE  /\ inst'[h][w][s].state = inst[h][w][s].state
                      /\ inst[h][w][s].stop => inst'[h][w][s].stop
    BY DEF Calm
  <2> QED
    BY <1>6
<1>8. Tracked'
  <2> SUFFICES ASSUME NEW h \in Groups, NEW w \in Works(h), NEW s \in Slots,
                      inst'[h][w][s].state # "off"
               PROVE  \/ <<w, s>> \in ToSet(running'[h])
                      \/ /\ ctl'[h].pc = "gone"
                         /\ inst'[h][w][s].state \in {"idle", "busy"} => inst'[h][w][s].stop
    BY <1>1 DEF Tracked, Used, Live, ToSet
  <2>1. CASE h = g
    BY <1>1, <1>2, <1>6, <2>1, Known
  <2>2. CASE h # g
    BY <1>1, <1>2, <1>3, <1>6, <2>2 DEF Tracked, Used, Live
  <2> QED
    BY <2>1, <2>2
<1> QED
  BY <1>1, <1>4, <1>5, <1>6, <1>7, <1>8, CalmUse, SameHeals DEF WorksInv

LEMMA SeeShutdownKeeps == ASSUME WorksInv, SeeShutdown PROVE WorksInv'
<1>1. /\ service = "running" /\ service' = "draining" /\ UNCHANGED <<ctl, running, inst, healVars>>
  BY DEF SeeShutdown
<1>2. InstTyped' /\ SingleUse' /\ Tracked'
  BY <1>1, SameKnown
<1>3. CtlTyped' /\ PcFits'
  BY <1>1 DEF WorksInv, CtlTyped, PcFits
<1> QED
  BY <1>1, <1>2, <1>3, SameHeals DEF WorksInv

(* All groups are joined: no instance is left.                             *)
LEMMA ServiceEndsKeeps == ASSUME WorksInv, ServiceEnds PROVE WorksInv'
<1>1. /\ service \in {"running", "draining", "failing"} /\ service' \in {"ok", "error"}
      /\ (\A g \in Groups : ctl[g].pc = "gone") /\ UNCHANGED <<ctl, running, inst, healVars>>
  BY DEF ServiceEnds
<1>2. \A g \in Groups : \A w \in Works(g) : \A s \in Slots : inst[g][w][s].state = "off"
  <2>1. \A g \in Groups : ToSet(running[g]) = {}
    BY <1>1 DEF WorksInv, PcFits, ToSet
  <2> QED
    BY <1>1, <2>1, Known
<1>3. Tracked'
  BY <1>1, <1>2 DEF Tracked, Used, Live
<1>4. CtlTyped' /\ PcFits' /\ InstTyped' /\ SingleUse'
  BY <1>1 DEF WorksInv, CtlTyped, PcFits, InstTyped, SingleUse, Used
<1> QED
  BY <1>1, <1>3, <1>4, SameHeals DEF WorksInv

(* What a process that has just started looks like.                        *)
Blank(g)   == [w \in Works(g) |-> [s \in Slots |-> Off]]
Starting   == [pc |-> "start", why |-> "none", err |-> FALSE]

LEMMA BlankTyped ==
  /\ Starting \in Controllers /\ Starting.pc = "start" /\ Off.state = "off"
  /\ \A g \in Groups : /\ Blank(g) \in [Works(g) -> [Slots -> Instances]]
                       /\ \A w \in Works(g) : \A s \in Slots : Blank(g)[w][s] = Off
                       /\ <<>> \in Seq(Works(g) \X Slots)
<1>1. Off \in Instances /\ Off.state = "off"
  BY DEF Off, Instances
<1>2. Starting \in Controllers /\ Starting.pc = "start"
  BY DEF Starting, Controllers
<1>3. \A g \in Groups : <<>> \in Seq(Works(g) \X Slots)
  BY EmptySeq
<1> QED
  BY <1>1, <1>2, <1>3 DEF Blank

LEMMA ProcessEndsKeeps == ASSUME WorksInv, ProcessEnds PROVE WorksInv'
<1>1. /\ ctl' = [g \in Groups |-> Starting] /\ running' = [g \in Groups |-> <<>>]
      /\ inst' = [g \in Groups |-> Blank(g)]
      /\ heal' = [g \in Groups |-> 0] /\ fence' = [g \in Groups |-> FALSE]
      /\ service' = "running"
  BY DEF ProcessEnds, Fresh, Blank, Starting
<1>2. /\ \A g \in Groups : ctl'[g] = Starting /\ running'[g] = <<>> /\ inst'[g] = Blank(g)
      /\ DOMAIN running' = Groups /\ DOMAIN inst' = Groups
  BY <1>1
<1>3. CtlTyped'
  BY <1>1, <1>2, BlankTyped DEF CtlTyped
<1>4. InstTyped'
  BY <1>2, BlankTyped DEF InstTyped
<1>5. PcFits'
  BY <1>1, <1>2, BlankTyped DEF PcFits
<1>6. \A g \in Groups : \A w \in Works(g) : \A s \in Slots : inst'[g][w][s].state = "off"
  BY <1>2, BlankTyped
<1>7. SingleUse' /\ Tracked'
  BY <1>1, <1>6 DEF SingleUse, Tracked, Used
<1>8. FenceCounts'
  BY <1>1 DEF FenceCounts
<1> QED
  BY <1>1, <1>3, <1>4, <1>5, <1>7, <1>8 DEF WorksInv

LEMMA InitInv == Init => WorksInv
<1> SUFFICES ASSUME Init PROVE WorksInv
  OBVIOUS
<1>1. /\ ctl = [g \in Groups |-> Starting] /\ running = [g \in Groups |-> <<>>]
      /\ inst = [g \in Groups |-> Blank(g)]
      /\ heal = [g \in Groups |-> 0] /\ fence = [g \in Groups |-> FALSE]
      /\ service = "running"
  BY DEF Init, Blank, Starting
<1>2. /\ \A g \in Groups : ctl[g] = Starting /\ running[g] = <<>> /\ inst[g] = Blank(g)
      /\ DOMAIN running = Groups /\ DOMAIN inst = Groups
  BY <1>1
<1>3. CtlTyped
  BY <1>1, <1>2, BlankTyped DEF CtlTyped
<1>4. InstTyped
  BY <1>2, BlankTyped DEF InstTyped
<1>5. PcFits
  BY <1>1, <1>2, BlankTyped DEF PcFits
<1>6. \A g \in Groups : \A w \in Works(g) : \A s \in Slots : inst[g][w][s].state = "off"
  BY <1>2, BlankTyped
<1>7. SingleUse /\ Tracked
  BY <1>1, <1>6 DEF SingleUse, Tracked, Used
<1>8. FenceCounts
  BY <1>1 DEF FenceCounts
<1> QED
  BY <1>1, <1>3, <1>4, <1>5, <1>7, <1>8 DEF WorksInv

-----------------------------------------------------------------------------
(* The inductive argument.                                                 *)

LEMMA StepKeeps == WorksInv /\ [Next]_worksVars => WorksInv'
<1> SUFFICES ASSUME WorksInv, [Next]_worksVars PROVE WorksInv'
  OBVIOUS
<1>1. CASE Signal \/ EarlyExit \/ UNCHANGED worksVars
  BY <1>1, OutsideKeeps DEF Signal, EarlyExit, worksVars, healVars
<1>2. CASE SeeShutdown \/ ServiceEnds \/ ProcessEnds
  BY <1>2, SeeShutdownKeeps, ServiceEndsKeeps, ProcessEndsKeeps
<1>3. ASSUME NEW g \in Groups, PublishRole(g) \/ CloseMetrics(g) \/ LoseContact(g) \/ RegainContact(g)
      PROVE  WorksInv'
  BY <1>3, OutsideKeeps DEF PublishRole, CloseMetrics, LoseContact, RegainContact, healVars
<1>4. ASSUME NEW g \in Groups, Controller(g) \/ SeeEnd(g) \/ HealEnds(g) PROVE WorksInv'
  BY <1>4, RoleKeeps, AwaitKeeps, JoinKeeps, CancelledKeeps, SeeEndKeeps, HealEndsKeeps DEF Controller
<1>5. ASSUME NEW g \in Groups, NEW s \in Slots, SpawnHeal(g, s) PROVE WorksInv'
  BY <1>5, SpawnHealKeeps
<1>6. ASSUME NEW g \in Groups, NEW s \in Slots, NEW w \in Works(g),
             BeginPass(g, w, s) \/ EndPass(g, w, s) \/ SeeStop(g, w, s) \/ Panic(g, w, s)
      PROVE  WorksInv'
  BY <1>6, WorkKeeps
<1> QED
  BY <1>1, <1>2, <1>3, <1>4, <1>5, <1>6 DEF Next, Main

(* WorksInv holds in every reachable state, for any groups, lists of works *)
(* and number of faults: run_group_leader_controller has every instance of *)
(* a work that is not gone, and what an aborted one leaves has its signal. *)
THEOREM WorksInvariant == WorksSpec => []WorksInv
<1>1. Init => WorksInv
  BY InitInv
<1>2. WorksInv /\ [Next]_worksVars => WorksInv'
  BY StepKeeps
<1> QED
  BY <1>1, <1>2, PTL DEF WorksSpec

(* However the role flips, works panic and the node restarts, a leader     *)
(* work never runs twice in a process, nor do two healing changes.         *)
THEOREM WorksNeverDouble == WorksSpec => []OneOfEach
<1>1. WorksInv => OneOfEach
  BY DEF WorksInv, OneOfEach, FenceCounts, SingleUse, Used, Live
<1> QED
  BY <1>1, WorksInvariant, PTL

LEMMA ReportHolds == WorksInv => ReportIsTrue
<1> SUFFICES ASSUME WorksInv, NEW g \in Groups, NEW w \in Works(g), NEW s \in Live(g, w),
                    service = "ok" \/ ctl[g].pc = "gone"
             PROVE  service # "ok" /\ inst[g][w][s].stop
  BY DEF ReportIsTrue
<1>1. s \in Slots /\ s \in Used(g, w)
  BY DEF Live, Used
<1>2. running[g] = <<>>
  BY DEF WorksInv, PcFits
<1>3. <<w, s>> \notin ToSet(running[g])
  BY <1>2 DEF ToSet
<1> QED
  BY <1>1, <1>3 DEF WorksInv, Tracked

(* When run_leader_controller returns Ok no work is left running, and a    *)
(* group's task that was joined or aborted leaves none without its signal. *)
THEOREM ReportsAreTrue == WorksSpec => []ReportIsTrue
  BY ReportHolds, WorksInvariant, PTL

=============================================================================
