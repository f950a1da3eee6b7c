--------------------------- MODULE PeerGuardProofs ---------------------------
(***************************************************************************)
(* Proofs about PeerGuard for any number of callers, keys and permits.     *)
(* The invariant is inductive as it stands once the stamps in-flight       *)
(* permits carry are bounded; the permit counts need two facts on the      *)
(* cardinality of the set of holders.                                      *)
(***************************************************************************)
EXTENDS PeerGuard, FiniteSetTheorems, TLAPS

(* One caller more among the holders is one more to count. *)
LEMMA CountGrows ==
    ASSUME NEW S, NEW T, IsFiniteSet(S), NEW x, x \notin S, T = S \cup {x}
    PROVE  IsFiniteSet(T) /\ Cardinality(T) = Cardinality(S) + 1
  BY FS_AddElement

(* One caller less is one less. *)
LEMMA CountShrinks ==
    ASSUME NEW S, NEW T, IsFiniteSet(S), NEW x, x \in S, T = S \ {x}
    PROVE  IsFiniteSet(T) /\ Cardinality(T) = Cardinality(S) - 1
  BY FS_RemoveElement

\* The holder sets counted by PermitsConserved are finite.
LEMMA HoldersFinite ==
    /\ IsFiniteSet(GlobalHolders) /\ Cardinality(GlobalHolders) \in Nat
    /\ \A k \in Keys : IsFiniteSet(SlotHolders(k)) /\ Cardinality(SlotHolders(k)) \in Nat
<1>1. GlobalHolders \subseteq Callers
  BY DEF GlobalHolders
<1>2. \A k \in Keys : SlotHolders(k) \subseteq Callers
  BY DEF SlotHolders
<1> QED
  BY <1>1, <1>2, FS_Subset, FS_CardinalityType, PeerGuardAssumption

\* A fresh guard (PeerRpcGuard::new) satisfies the invariant.
LEMMA InitGuard == Init => GuardInv
<1> SUFFICES ASSUME Init PROVE GuardInv
  OBVIOUS
<1> USE DEF Init
<1>1. rpc \in [Callers -> Rpcs(Keys)]
  <2>1. \A k \in Keys : AtRest(k) \in Rpcs(Keys)
    BY DEF AtRest, Rpcs, Steps
  <2> QED
    BY <2>1
<1>2. \A c \in Callers : rpc[c].pc = "idle" /\ rpc[c].open_at = 0
  BY DEF AtRest
<1>3. GuardTypeOK
  BY <1>1, PeerGuardAssumption DEF GuardTypeOK
<1>4. PermitsConserved
  <2>1. \A k \in Keys : SlotHolders(k) = {}
    BY <1>2 DEF SlotHolders, HasSlot, Holding
  <2>2. GlobalHolders = {}
    BY <1>2 DEF GlobalHolders, HasGlobal, Holding
  <2> QED
    BY <2>1, <2>2, FS_EmptySet, PeerGuardAssumption DEF PermitsConserved
<1>5. StreakIsActedOn
  BY PeerGuardAssumption DEF StreakIsActedOn
<1>6. OpenIsBounded /\ StampsAreBounded
  BY <1>2, PeerGuardAssumption DEF OpenIsBounded, StampsAreBounded
<1> QED
  BY <1>3, <1>4, <1>5, <1>6 DEF GuardInv

-----------------------------------------------------------------------------
(* A step that moves one caller between places with the same permits       *)
(* leaves every count as it is.                                            *)
LEMMA SameHolders ==
    ASSUME GuardTypeOK, PermitsConserved, NEW c \in Callers, NEW r \in Rpcs(Keys),
           rpc' = [rpc EXCEPT ![c] = r],
           r.pc \in Holding <=> rpc[c].pc \in Holding,
           r.pc = "admitted" <=> rpc[c].pc = "admitted",
           r.key = rpc[c].key \/ r.pc \notin Holding \cup {"admitted"},
           bulkhead' = bulkhead, global' = global
    PROVE  PermitsConserved'
<1>1. rpc'[c] = r /\ \A d \in Callers \ {c} : rpc'[d] = rpc[d]
  BY DEF GuardTypeOK
<1>2. \A k \in Keys : SlotHolders(k)' = SlotHolders(k)
  BY <1>1 DEF SlotHolders, HasSlot
<1>3. GlobalHolders' = GlobalHolders
  BY <1>1 DEF GlobalHolders, HasGlobal
<1> QED
  BY <1>2, <1>3 DEF PermitsConserved

(* Taking a slot of the caller's key. *)
LEMMA SlotTaken ==
    ASSUME GuardTypeOK, PermitsConserved, NEW c \in Callers, NEW r \in Rpcs(Keys),
           rpc' = [rpc EXCEPT ![c] = r],
           rpc[c].pc \notin Holding \cup {"admitted"}, r.pc = "admitted",
           r.key = rpc[c].key,
           bulkhead' = [bulkhead EXCEPT ![rpc[c].key] = @ - 1], global' = global
    PROVE  PermitsConserved'
<1>1. rpc'[c] = r /\ \A d \in Callers \ {c} : rpc'[d] = rpc[d]
  BY DEF GuardTypeOK
<1>2. rpc[c].key \in Keys
  BY DEF GuardTypeOK, Rpcs
<1>3. GlobalHolders' = GlobalHolders
  BY <1>1 DEF GlobalHolders, HasGlobal, Holding
<1>4. SlotHolders(r.key)' = SlotHolders(r.key) \cup {c} /\ c \notin SlotHolders(r.key)
  BY <1>1 DEF SlotHolders, HasSlot
<1>5. \A k \in Keys \ {r.key} : SlotHolders(k)' = SlotHolders(k)
  BY <1>1 DEF SlotHolders, HasSlot
<1>6. Cardinality(SlotHolders(r.key)') = Cardinality(SlotHolders(r.key)) + 1
  BY <1>2, <1>4, HoldersFinite, CountGrows
<1>7. bulkhead'[r.key] = bulkhead[r.key] - 1 /\ \A k \in Keys \ {r.key} : bulkhead'[k] = bulkhead[k]
  BY <1>2 DEF GuardTypeOK
<1>8. bulkhead'[r.key] + Cardinality(SlotHolders(r.key)') = PerPeerMax
  BY <1>2, <1>6, <1>7, HoldersFinite DEF PermitsConserved, GuardTypeOK
<1> QED
  BY <1>3, <1>5, <1>7, <1>8 DEF PermitsConserved

(* Taking the shared permit while holding the slot. *)
LEMMA GlobalTaken ==
    ASSUME GuardTypeOK, PermitsConserved, NEW c \in Callers, NEW r \in Rpcs(Keys),
           rpc' = [rpc EXCEPT ![c] = r],
           rpc[c].pc = "admitted", r.pc \in Holding, r.key = rpc[c].key,
           bulkhead' = bulkhead, global' = global - 1
    PROVE  PermitsConserved'
<1>1. rpc'[c] = r /\ \A d \in Callers \ {c} : rpc'[d] = rpc[d]
  BY DEF GuardTypeOK
<1>2. \A k \in Keys : SlotHolders(k)' = SlotHolders(k)
  BY <1>1 DEF SlotHolders, HasSlot, Holding
<1>3. GlobalHolders' = GlobalHolders \cup {c} /\ c \notin GlobalHolders
  BY <1>1 DEF GlobalHolders, HasGlobal, Holding
<1>4. Cardinality(GlobalHolders') = Cardinality(GlobalHolders) + 1
  BY <1>3, HoldersFinite, CountGrows
<1>5. global' + Cardinality(GlobalHolders') = GlobalMax
  BY <1>4, HoldersFinite DEF PermitsConserved, GuardTypeOK
<1> QED
  BY <1>2, <1>5 DEF PermitsConserved

(* Giving the slot back without the shared permit. *)
LEMMA SlotReleased ==
    ASSUME GuardTypeOK, PermitsConserved, NEW c \in Callers, NEW r \in Rpcs(Keys),
           rpc' = [rpc EXCEPT ![c] = r],
           rpc[c].pc \in Holding \cup {"admitted"}, r.pc = "idle",
           r.key = rpc[c].key, ReleaseSlot(c),
           \/ rpc[c].pc = "admitted" /\ global' = global
           \/ rpc[c].pc \in Holding /\ global' = global + 1
    PROVE  PermitsConserved'
<1>1. rpc'[c] = r /\ \A d \in Callers \ {c} : rpc'[d] = rpc[d]
  BY DEF GuardTypeOK
<1>2. rpc[c].key \in Keys
  BY DEF GuardTypeOK, Rpcs
<1>3. SlotHolders(r.key)' = SlotHolders(r.key) \ {c} /\ c \in SlotHolders(r.key)
  BY <1>1 DEF SlotHolders, HasSlot, Holding
<1>4. \A k \in Keys \ {r.key} : SlotHolders(k)' = SlotHolders(k)
  BY <1>1 DEF SlotHolders, HasSlot
<1>5. Cardinality(SlotHolders(r.key)') = Cardinality(SlotHolders(r.key)) - 1
  BY <1>2, <1>3, HoldersFinite, CountShrinks
<1>6. bulkhead'[r.key] = bulkhead[r.key] + 1 /\ \A k \in Keys \ {r.key} : bulkhead'[k] = bulkhead[k]
  BY <1>2 DEF GuardTypeOK, ReleaseSlot
<1>7. bulkhead'[r.key] + Cardinality(SlotHolders(r.key)') = PerPeerMax
  BY <1>2, <1>5, <1>6, HoldersFinite DEF PermitsConserved, GuardTypeOK
<1>8. global' + Cardinality(GlobalHolders') = GlobalMax
  <2>1. CASE rpc[c].pc = "admitted"
    <3>1. GlobalHolders' = GlobalHolders
      BY <1>1, <2>1 DEF GlobalHolders, HasGlobal, Holding
    <3> QED
      BY <2>1, <3>1 DEF PermitsConserved, Holding
  <2>2. CASE rpc[c].pc \in Holding
    <3>1. GlobalHolders' = GlobalHolders \ {c} /\ c \in GlobalHolders
      BY <1>1, <2>2 DEF GlobalHolders, HasGlobal, Holding
    <3>2. Cardinality(GlobalHolders') = Cardinality(GlobalHolders) - 1
      BY <3>1, HoldersFinite, CountShrinks
    <3>3. global' = global + 1
      BY <2>2 DEF Holding
    <3> QED
      BY <3>2, <3>3, HoldersFinite DEF PermitsConserved, GuardTypeOK
  <2> QED
    BY <2>1, <2>2
<1> QED
  BY <1>4, <1>6, <1>7, <1>8 DEF PermitsConserved

-----------------------------------------------------------------------------
(* A caller's move keeps the streak invariant unless it raises a count to  *)
(* the threshold, or leaves the two places that act on one.                *)
LEMMA StreakKept ==
    ASSUME GuardTypeOK, StreakIsActedOn, NEW c \in Callers, NEW r \in Rpcs(Keys),
           rpc' = [rpc EXCEPT ![c] = r],
           \/ rpc[c].pc \notin {"tripping", "resetting"}
           \/ r.key = rpc[c].key /\ r.pc \in {"tripping", "resetting"}
           \/ failures'[rpc[c].key] < Threshold,
           failures' \in [Keys -> Nat],
           \A k \in Keys :
              \/ failures'[k] = failures[k]
              \/ failures'[k] < Threshold
              \/ r.key = k /\ r.pc \in {"tripping", "resetting"}
    PROVE  StreakIsActedOn'
<1>1. rpc'[c] = r /\ \A d \in Callers \ {c} : rpc'[d] = rpc[d]
  BY DEF GuardTypeOK
<1> SUFFICES ASSUME NEW k \in Keys, failures'[k] >= Threshold
             PROVE  \E d \in Callers : rpc'[d].key = k
                                         /\ rpc'[d].pc \in {"tripping", "resetting"}
  BY DEF StreakIsActedOn
<1>2. ~(failures'[k] < Threshold)
  BY PeerGuardAssumption
<1>3. CASE r.key = k /\ r.pc \in {"tripping", "resetting"}
  BY <1>1, <1>3
<1>4. CASE failures'[k] = failures[k]
  <2>1. PICK d \in Callers : rpc[d].key = k /\ rpc[d].pc \in {"tripping", "resetting"}
    BY <1>4 DEF StreakIsActedOn
  <2>2. CASE d # c
    BY <1>1, <2>1, <2>2
  <2>3. CASE d = c
    BY <1>1, <1>2, <2>1, <2>3
  <2> QED
    BY <2>2, <2>3
<1> QED
  BY <1>2, <1>3, <1>4

(* The stamps and deadlines stay within one cooldown while the clock does  *)
(* not go back.                                                            *)
LEMMA BoundsKept ==
    ASSUME GuardTypeOK, OpenIsBounded, StampsAreBounded, NEW c \in Callers,
           NEW r \in Rpcs(Keys), rpc' = [rpc EXCEPT ![c] = r], now' = now,
           r.open_at <= now + OpenDuration,
           \A k \in Keys : open_until'[k] \in {open_until[k], 0, rpc[c].open_at}
    PROVE  OpenIsBounded' /\ StampsAreBounded'
<1>1. rpc'[c] = r /\ \A d \in Callers \ {c} : rpc'[d] = rpc[d]
  BY DEF GuardTypeOK
<1>2. StampsAreBounded'
  BY <1>1 DEF StampsAreBounded
<1>3. 0 <= now + OpenDuration
  BY PeerGuardAssumption DEF GuardTypeOK
<1>4. OpenIsBounded'
  BY <1>3 DEF OpenIsBounded, StampsAreBounded
<1> QED
  BY <1>2, <1>4

\* try_acquire, reading open_until_ms, keeps the invariant.
LEMMA LoadCircuitKeeps ==
    ASSUME GuardInv, NEW c \in Callers, NEW k \in Keys, LoadCircuit(c, k)
    PROVE  GuardInv'
<1> USE DEF GuardInv
<1>0. rpc[c] \in Rpcs(Keys) /\ rpc[c].open_at <= now + OpenDuration /\ now \in Nat
  BY PeerGuardAssumption DEF GuardTypeOK, StampsAreBounded
<1> DEFINE r == [rpc[c] EXCEPT !.pc = "checking", !.key = k, !.seen = open_until[k]]
<1>1. r \in Rpcs(Keys)
  BY <1>0, PeerGuardAssumption DEF LoadCircuit, AtRest, Rpcs, Steps, Holding, GuardTypeOK
<1>2. rpc' = [rpc EXCEPT ![c] = r]
  BY Zenon DEF LoadCircuit, Goto, Return, Drop
<1>3. r.open_at <= now + OpenDuration
  BY <1>0, PeerGuardAssumption DEF AtRest, Rpcs
<1>4. GuardTypeOK'
  BY <1>0, <1>1, <1>2, PeerGuardAssumption DEF LoadCircuit, GuardTypeOK, Drop, ReleaseSlot, Rpcs
<1>5. PermitsConserved'
  BY <1>0, <1>1, <1>2, SameHolders DEF LoadCircuit, AtRest, Drop, Rpcs, Holding
<1>6. StreakIsActedOn'
  BY <1>0, <1>1, <1>2, <1>4, StreakKept, PeerGuardAssumption DEF LoadCircuit, AtRest, GuardTypeOK, Rpcs, Trips
<1>7. OpenIsBounded' /\ StampsAreBounded'
  BY <1>0, <1>1, <1>2, <1>3, BoundsKept DEF LoadCircuit, GuardTypeOK, Rpcs
<1> QED
  BY <1>4, <1>5, <1>6, <1>7

\* The CircuitOpen return of try_acquire keeps the invariant.
LEMMA RejectOpenKeeps ==
    ASSUME GuardInv, NEW c \in Callers, RejectOpen(c)
    PROVE  GuardInv'
<1> USE DEF GuardInv
<1>0. rpc[c] \in Rpcs(Keys) /\ rpc[c].open_at <= now + OpenDuration /\ now \in Nat
  BY PeerGuardAssumption DEF GuardTypeOK, StampsAreBounded
<1> DEFINE r == AtRest(rpc[c].key)
<1>1. r \in Rpcs(Keys)
  BY <1>0, PeerGuardAssumption DEF RejectOpen, AtRest, Rpcs, Steps, Holding, GuardTypeOK
<1>2. rpc' = [rpc EXCEPT ![c] = r]
  BY Zenon DEF RejectOpen, Goto, Return, Drop
<1>3. r.open_at <= now + OpenDuration
  BY <1>0, PeerGuardAssumption DEF AtRest, Rpcs
<1>4. GuardTypeOK'
  BY <1>0, <1>1, <1>2, PeerGuardAssumption DEF RejectOpen, GuardTypeOK, Drop, ReleaseSlot, Rpcs
<1>5. PermitsConserved'
  BY <1>0, <1>1, <1>2, SameHolders DEF RejectOpen, AtRest, Drop, Rpcs, Holding
<1>6. StreakIsActedOn'
  BY <1>0, <1>1, <1>2, <1>4, StreakKept, PeerGuardAssumption DEF RejectOpen, AtRest, GuardTypeOK, Rpcs, Trips
<1>7. OpenIsBounded' /\ StampsAreBounded'
  BY <1>0, <1>1, <1>2, <1>3, BoundsKept DEF RejectOpen, GuardTypeOK, Rpcs
<1> QED
  BY <1>4, <1>5, <1>6, <1>7

\* Taking a permit of the key's bulkhead keeps the invariant.
LEMMA AcquireSlotKeeps ==
    ASSUME GuardInv, NEW c \in Callers, AcquireSlot(c)
    PROVE  GuardInv'
<1> USE DEF GuardInv
<1>0. rpc[c] \in Rpcs(Keys) /\ rpc[c].open_at <= now + OpenDuration /\ now \in Nat
  BY PeerGuardAssumption DEF GuardTypeOK, StampsAreBounded
<1> DEFINE r == [rpc[c] EXCEPT !.pc = "admitted"]
<1>1. r \in Rpcs(Keys)
  BY <1>0, PeerGuardAssumption DEF AcquireSlot, AtRest, Rpcs, Steps, Holding, GuardTypeOK
<1>2. rpc' = [rpc EXCEPT ![c] = r]
  BY Zenon DEF AcquireSlot, Goto, Return, Drop
<1>3. r.open_at <= now + OpenDuration
  BY <1>0, PeerGuardAssumption DEF AtRest, Rpcs
<1>4. GuardTypeOK'
  BY <1>0, <1>1, <1>2, PeerGuardAssumption DEF AcquireSlot, GuardTypeOK, Drop, ReleaseSlot, Rpcs
<1>5. PermitsConserved'
  BY <1>0, <1>1, <1>2, SlotTaken DEF AcquireSlot, AtRest, Drop, Rpcs, Holding
<1>6. StreakIsActedOn'
  BY <1>0, <1>1, <1>2, <1>4, StreakKept, PeerGuardAssumption DEF AcquireSlot, AtRest, GuardTypeOK, Rpcs, Trips
<1>7. OpenIsBounded' /\ StampsAreBounded'
  BY <1>0, <1>1, <1>2, <1>3, BoundsKept DEF AcquireSlot, GuardTypeOK, Rpcs
<1> QED
  BY <1>4, <1>5, <1>6, <1>7

\* The BulkheadFull return of try_acquire keeps the invariant.
LEMMA BulkheadFullKeeps ==
    ASSUME GuardInv, NEW c \in Callers, BulkheadFull(c)
    PROVE  GuardInv'
<1> USE DEF GuardInv
<1>0. rpc[c] \in Rpcs(Keys) /\ rpc[c].open_at <= now + OpenDuration /\ now \in Nat
  BY PeerGuardAssumption DEF GuardTypeOK, StampsAreBounded
<1> DEFINE r == AtRest(rpc[c].key)
<1>1. r \in Rpcs(Keys)
  BY <1>0, PeerGuardAssumption DEF BulkheadFull, AtRest, Rpcs, Steps, Holding, GuardTypeOK
<1>2. rpc' = [rpc EXCEPT ![c] = r]
  BY Zenon DEF BulkheadFull, Goto, Return, Drop
<1>3. r.open_at <= now + OpenDuration
  BY <1>0, PeerGuardAssumption DEF AtRest, Rpcs
<1>4. GuardTypeOK'
  BY <1>0, <1>1, <1>2, PeerGuardAssumption DEF BulkheadFull, GuardTypeOK, Drop, ReleaseSlot, Rpcs
<1>5. PermitsConserved'
  BY <1>0, <1>1, <1>2, SameHolders DEF BulkheadFull, AtRest, Drop, Rpcs, Holding
<1>6. StreakIsActedOn'
  BY <1>0, <1>1, <1>2, <1>4, StreakKept, PeerGuardAssumption DEF BulkheadFull, AtRest, GuardTypeOK, Rpcs, Trips
<1>7. OpenIsBounded' /\ StampsAreBounded'
  BY <1>0, <1>1, <1>2, <1>3, BoundsKept DEF BulkheadFull, GuardTypeOK, Rpcs
<1> QED
  BY <1>4, <1>5, <1>6, <1>7

\* Taking a permit of the shared bulkhead keeps the invariant.
LEMMA AcquireGlobalKeeps ==
    ASSUME GuardInv, NEW c \in Callers, AcquireGlobal(c)
    PROVE  GuardInv'
<1> USE DEF GuardInv
<1>0. rpc[c] \in Rpcs(Keys) /\ rpc[c].open_at <= now + OpenDuration /\ now \in Nat
  BY PeerGuardAssumption DEF GuardTypeOK, StampsAreBounded
<1> DEFINE r == [rpc[c] EXCEPT !.pc = "inflight", !.open_at = now + OpenDuration]
<1>1. r \in Rpcs(Keys)
  <2>1. now + OpenDuration \in Nat
    BY <1>0, PeerGuardAssumption
  <2> QED
    BY <1>0, <2>1 DEF Rpcs, Steps, Holding
<1>2. rpc' = [rpc EXCEPT ![c] = r]
  BY Zenon DEF AcquireGlobal, Goto, Return, Drop
<1>3. r.open_at <= now + OpenDuration
  BY <1>0, PeerGuardAssumption DEF AtRest, Rpcs
<1>4. GuardTypeOK'
  BY <1>0, <1>1, <1>2, PeerGuardAssumption DEF AcquireGlobal, GuardTypeOK, Drop, ReleaseSlot, Rpcs
<1>5. PermitsConserved'
  BY <1>0, <1>1, <1>2, GlobalTaken DEF AcquireGlobal, AtRest, Drop, Rpcs, Holding
<1>6. StreakIsActedOn'
  BY <1>0, <1>1, <1>2, <1>4, StreakKept, PeerGuardAssumption DEF AcquireGlobal, AtRest, GuardTypeOK, Rpcs, Trips
<1>7. OpenIsBounded' /\ StampsAreBounded'
  BY <1>0, <1>1, <1>2, <1>3, BoundsKept DEF AcquireGlobal, GuardTypeOK, Rpcs
<1> QED
  BY <1>4, <1>5, <1>6, <1>7

\* The GlobalLimit return, which drops the key's permit, keeps the invariant.
LEMMA GlobalLimitFullKeeps ==
    ASSUME GuardInv, NEW c \in Callers, GlobalLimitFull(c)
    PROVE  GuardInv'
<1> USE DEF GuardInv
<1>0. rpc[c] \in Rpcs(Keys) /\ rpc[c].open_at <= now + OpenDuration /\ now \in Nat
  BY PeerGuardAssumption DEF GuardTypeOK, StampsAreBounded
<1> DEFINE r == AtRest(rpc[c].key)
<1>1. r \in Rpcs(Keys)
  BY <1>0, PeerGuardAssumption DEF GlobalLimitFull, AtRest, Rpcs, Steps, Holding, GuardTypeOK
<1>2. rpc' = [rpc EXCEPT ![c] = r]
  BY Zenon DEF GlobalLimitFull, Goto, Return, Drop
<1>3. r.open_at <= now + OpenDuration
  BY <1>0, PeerGuardAssumption DEF AtRest, Rpcs
<1>4. GuardTypeOK'
  BY <1>0, <1>1, <1>2, PeerGuardAssumption DEF GlobalLimitFull, GuardTypeOK, Drop, ReleaseSlot, Rpcs
<1>5. PermitsConserved'
  BY <1>0, <1>1, <1>2, SlotReleased DEF GlobalLimitFull, AtRest, Drop, Rpcs, Holding
<1>6. StreakIsActedOn'
  BY <1>0, <1>1, <1>2, <1>4, StreakKept, PeerGuardAssumption DEF GlobalLimitFull, AtRest, GuardTypeOK, Rpcs, Trips
<1>7. OpenIsBounded' /\ StampsAreBounded'
  BY <1>0, <1>1, <1>2, <1>3, BoundsKept DEF GlobalLimitFull, GuardTypeOK, Rpcs
<1> QED
  BY <1>4, <1>5, <1>6, <1>7

\* A caller that drops its RPC keeps the invariant.
LEMMA CancelKeeps ==
    ASSUME GuardInv, NEW c \in Callers, Cancel(c)
    PROVE  GuardInv'
<1> USE DEF GuardInv
<1>0. rpc[c] \in Rpcs(Keys) /\ rpc[c].open_at <= now + OpenDuration /\ now \in Nat
  BY PeerGuardAssumption DEF GuardTypeOK, StampsAreBounded
<1> DEFINE r == AtRest(rpc[c].key)
<1>1. r \in Rpcs(Keys)
  BY <1>0, PeerGuardAssumption DEF Cancel, AtRest, Rpcs, Steps, Holding, GuardTypeOK
<1>2. rpc' = [rpc EXCEPT ![c] = r]
  BY Zenon DEF Cancel, Goto, Return, Drop
<1>3. r.open_at <= now + OpenDuration
  BY <1>0, PeerGuardAssumption DEF AtRest, Rpcs
<1>4. GuardTypeOK'
  BY <1>0, <1>1, <1>2, PeerGuardAssumption DEF Cancel, GuardTypeOK, Drop, ReleaseSlot, Rpcs
<1>5. PermitsConserved'
  BY <1>0, <1>1, <1>2, SlotReleased DEF Cancel, AtRest, Drop, Rpcs, Holding
<1>6. StreakIsActedOn'
  BY <1>0, <1>1, <1>2, <1>4, StreakKept, PeerGuardAssumption DEF Cancel, AtRest, GuardTypeOK, Rpcs, Trips
<1>7. OpenIsBounded' /\ StampsAreBounded'
  BY <1>0, <1>1, <1>2, <1>3, BoundsKept DEF Cancel, GuardTypeOK, Rpcs
<1> QED
  BY <1>4, <1>5, <1>6, <1>7

\* The first store of record_success keeps the invariant.
LEMMA record_successKeeps ==
    ASSUME GuardInv, NEW c \in Callers, record_success(c)
    PROVE  GuardInv'
<1> USE DEF GuardInv
<1>0. rpc[c] \in Rpcs(Keys) /\ rpc[c].open_at <= now + OpenDuration /\ now \in Nat
  BY PeerGuardAssumption DEF GuardTypeOK, StampsAreBounded
<1> DEFINE r == [rpc[c] EXCEPT !.pc = "closing"]
<1>1. r \in Rpcs(Keys)
  BY <1>0, PeerGuardAssumption DEF record_success, AtRest, Rpcs, Steps, Holding, GuardTypeOK
<1>2. rpc' = [rpc EXCEPT ![c] = r]
  BY Zenon DEF record_success, Goto, Return, Drop
<1>3. r.open_at <= now + OpenDuration
  BY <1>0, PeerGuardAssumption DEF AtRest, Rpcs
<1>4. GuardTypeOK'
  BY <1>0, <1>1, <1>2, PeerGuardAssumption DEF record_success, GuardTypeOK, Drop, ReleaseSlot, Rpcs
<1>5. PermitsConserved'
  BY <1>0, <1>1, <1>2, SameHolders DEF record_success, AtRest, Drop, Rpcs, Holding
<1>6. StreakIsActedOn'
  BY <1>0, <1>1, <1>2, <1>4, StreakKept, PeerGuardAssumption DEF record_success, AtRest, GuardTypeOK, Rpcs, Trips
<1>7. OpenIsBounded' /\ StampsAreBounded'
  BY <1>0, <1>1, <1>2, <1>3, BoundsKept DEF record_success, GuardTypeOK, Rpcs
<1> QED
  BY <1>4, <1>5, <1>6, <1>7

\* The second store of record_success and the drop keep the invariant.
LEMMA CloseCircuitKeeps ==
    ASSUME GuardInv, NEW c \in Callers, CloseCircuit(c)
    PROVE  GuardInv'
<1> USE DEF GuardInv
<1>0. rpc[c] \in Rpcs(Keys) /\ rpc[c].open_at <= now + OpenDuration /\ now \in Nat
  BY PeerGuardAssumption DEF GuardTypeOK, StampsAreBounded
<1> DEFINE r == AtRest(rpc[c].key)
<1>1. r \in Rpcs(Keys)
  BY <1>0, PeerGuardAssumption DEF CloseCircuit, AtRest, Rpcs, Steps, Holding, GuardTypeOK
<1>2. rpc' = [rpc EXCEPT ![c] = r]
  BY Zenon DEF CloseCircuit, Goto, Return, Drop
<1>3. r.open_at <= now + OpenDuration
  BY <1>0, PeerGuardAssumption DEF AtRest, Rpcs
<1>4. GuardTypeOK'
  BY <1>0, <1>1, <1>2, PeerGuardAssumption DEF CloseCircuit, GuardTypeOK, Drop, ReleaseSlot, Rpcs
<1>5. PermitsConserved'
  BY <1>0, <1>1, <1>2, SlotReleased DEF CloseCircuit, AtRest, Drop, Rpcs, Holding
<1>6. StreakIsActedOn'
  BY <1>0, <1>1, <1>2, <1>4, StreakKept, PeerGuardAssumption DEF CloseCircuit, AtRest, GuardTypeOK, Rpcs, Trips
<1>7. OpenIsBounded' /\ StampsAreBounded'
  BY <1>0, <1>1, <1>2, <1>3, BoundsKept DEF CloseCircuit, GuardTypeOK, Rpcs
<1> QED
  BY <1>4, <1>5, <1>6, <1>7

\* The load of record_failure keeps the invariant.
LEMMA record_failureKeeps ==
    ASSUME GuardInv, NEW c \in Callers, record_failure(c)
    PROVE  GuardInv'
<1> USE DEF GuardInv
<1>0. rpc[c] \in Rpcs(Keys) /\ rpc[c].open_at <= now + OpenDuration /\ now \in Nat
  BY PeerGuardAssumption DEF GuardTypeOK, StampsAreBounded
<1> DEFINE r == [rpc[c] EXCEPT !.pc = "counting", !.half_open = open_until[rpc[c].key] # 0]
<1>1. r \in Rpcs(Keys)
  BY <1>0, PeerGuardAssumption DEF record_failure, AtRest, Rpcs, Steps, Holding, GuardTypeOK
<1>2. rpc' = [rpc EXCEPT ![c] = r]
  BY Zenon DEF record_failure, Goto, Return, Drop
<1>3. r.open_at <= now + OpenDuration
  BY <1>0, PeerGuardAssumption DEF AtRest, Rpcs
<1>4. GuardTypeOK'
  BY <1>0, <1>1, <1>2, PeerGuardAssumption DEF record_failure, GuardTypeOK, Drop, ReleaseSlot, Rpcs
<1>5. PermitsConserved'
  BY <1>0, <1>1, <1>2, SameHolders DEF record_failure, AtRest, Drop, Rpcs, Holding
<1>6. StreakIsActedOn'
  BY <1>0, <1>1, <1>2, <1>4, StreakKept, PeerGuardAssumption DEF record_failure, AtRest, GuardTypeOK, Rpcs, Trips
<1>7. OpenIsBounded' /\ StampsAreBounded'
  BY <1>0, <1>1, <1>2, <1>3, BoundsKept DEF record_failure, GuardTypeOK, Rpcs
<1> QED
  BY <1>4, <1>5, <1>6, <1>7

\* The fetch_add of record_failure, tripping or not, keeps the invariant.
LEMMA CountFailureKeeps ==
    ASSUME GuardInv, NEW c \in Callers, CountFailure(c)
    PROVE  GuardInv'
<1> USE DEF GuardInv
<1>0. rpc[c] \in Rpcs(Keys) /\ rpc[c].open_at <= now + OpenDuration /\ now \in Nat
  BY PeerGuardAssumption DEF GuardTypeOK, StampsAreBounded
<1>1. CASE Trips(c)
  <2> DEFINE r == [rpc[c] EXCEPT !.pc = "tripping"]
  <2>1. r \in Rpcs(Keys)
    BY <1>0, <1>1, PeerGuardAssumption DEF CountFailure, AtRest, Rpcs, Steps, Holding, GuardTypeOK
  <2>2. rpc' = [rpc EXCEPT ![c] = r]
    BY <1>1, Zenon DEF CountFailure, Goto, Return, Drop
  <2>3. r.open_at <= now + OpenDuration
    BY <1>0, PeerGuardAssumption DEF AtRest, Rpcs
  <2>4. GuardTypeOK'
    BY <1>0, <1>1, <2>1, <2>2, PeerGuardAssumption DEF CountFailure, GuardTypeOK, Drop, ReleaseSlot, Rpcs
  <2>5. PermitsConserved'
    BY <1>0, <1>1, <2>1, <2>2, SameHolders DEF CountFailure, AtRest, Drop, Rpcs, Holding
  <2>6. StreakIsActedOn'
    BY <1>0, <1>1, <2>1, <2>2, <2>4, StreakKept, PeerGuardAssumption DEF CountFailure, AtRest, GuardTypeOK, Rpcs, Trips
  <2>7. OpenIsBounded' /\ StampsAreBounded'
    BY <1>0, <1>1, <2>1, <2>2, <2>3, BoundsKept DEF CountFailure, GuardTypeOK, Rpcs
  <2> QED
    BY <2>4, <2>5, <2>6, <2>7
<1>2. CASE ~Trips(c)
  <2> DEFINE r == AtRest(rpc[c].key)
  <2>1. r \in Rpcs(Keys)
    BY <1>0, <1>2, PeerGuardAssumption DEF CountFailure, AtRest, Rpcs, Steps, Holding, GuardTypeOK
  <2>2. rpc' = [rpc EXCEPT ![c] = r]
    BY <1>2, Zenon DEF CountFailure, Goto, Return, Drop
  <2>3. r.open_at <= now + OpenDuration
    BY <1>0, PeerGuardAssumption DEF AtRest, Rpcs
  <2>4. GuardTypeOK'
    BY <1>0, <1>2, <2>1, <2>2, PeerGuardAssumption DEF CountFailure, GuardTypeOK, Drop, ReleaseSlot, Rpcs
  <2>5. PermitsConserved'
    BY <1>0, <1>2, <2>1, <2>2, SlotReleased DEF CountFailure, AtRest, Drop, Rpcs, Holding
  <2>6. StreakIsActedOn'
    <3>1. failures' \in [Keys -> Nat] /\ rpc[c].key \in Keys
      BY <1>0, <2>4 DEF GuardTypeOK, Rpcs
    <3>2. failures'[rpc[c].key] < Threshold
      BY <1>2, <3>1, PeerGuardAssumption DEF CountFailure, GuardTypeOK, Trips
    <3>3. \A k \in Keys : failures'[k] = failures[k] \/ failures'[k] < Threshold
      BY <3>1, <3>2 DEF CountFailure, GuardTypeOK
    <3>4. rpc[c].pc \notin {"tripping", "resetting"}
      BY DEF CountFailure
    <3> QED
      BY <2>1, <2>2, <3>1, <3>2, <3>3, <3>4, StreakKept
  <2>7. OpenIsBounded' /\ StampsAreBounded'
    BY <1>0, <1>2, <2>1, <2>2, <2>3, BoundsKept DEF CountFailure, GuardTypeOK, Rpcs
  <2> QED
    BY <2>4, <2>5, <2>6, <2>7
<1> QED
  BY <1>1, <1>2

\* Storing the open-until deadline keeps the invariant.
LEMMA OpenCircuitKeeps ==
    ASSUME GuardInv, NEW c \in Callers, OpenCircuit(c)
    PROVE  GuardInv'
<1> USE DEF GuardInv
<1>0. rpc[c] \in Rpcs(Keys) /\ rpc[c].open_at <= now + OpenDuration /\ now \in Nat
  BY PeerGuardAssumption DEF GuardTypeOK, StampsAreBounded
<1> DEFINE r == [rpc[c] EXCEPT !.pc = "resetting"]
<1>1. r \in Rpcs(Keys)
  BY <1>0, PeerGuardAssumption DEF OpenCircuit, AtRest, Rpcs, Steps, Holding, GuardTypeOK
<1>2. rpc' = [rpc EXCEPT ![c] = r]
  BY Zenon DEF OpenCircuit, Goto, Return, Drop
<1>3. r.open_at <= now + OpenDuration
  BY <1>0, PeerGuardAssumption DEF AtRest, Rpcs
<1>4. GuardTypeOK'
  BY <1>0, <1>1, <1>2, PeerGuardAssumption DEF OpenCircuit, GuardTypeOK, Drop, ReleaseSlot, Rpcs
<1>5. PermitsConserved'
  BY <1>0, <1>1, <1>2, SameHolders DEF OpenCircuit, AtRest, Drop, Rpcs, Holding
<1>6. StreakIsActedOn'
  BY <1>0, <1>1, <1>2, <1>4, StreakKept, PeerGuardAssumption DEF OpenCircuit, AtRest, GuardTypeOK, Rpcs, Trips
<1>7. OpenIsBounded' /\ StampsAreBounded'
  BY <1>0, <1>1, <1>2, <1>3, BoundsKept DEF OpenCircuit, GuardTypeOK, Rpcs
<1> QED
  BY <1>4, <1>5, <1>6, <1>7

\* Resetting the streak after a trip keeps the invariant.
LEMMA ResetFailuresKeeps ==
    ASSUME GuardInv, NEW c \in Callers, ResetFailures(c)
    PROVE  GuardInv'
<1> USE DEF GuardInv
<1>0. rpc[c] \in Rpcs(Keys) /\ rpc[c].open_at <= now + OpenDuration /\ now \in Nat
  BY PeerGuardAssumption DEF GuardTypeOK, StampsAreBounded
<1> DEFINE r == AtRest(rpc[c].key)
<1>1. r \in Rpcs(Keys)
  BY <1>0, PeerGuardAssumption DEF ResetFailures, AtRest, Rpcs, Steps, Holding, GuardTypeOK
<1>2. rpc' = [rpc EXCEPT ![c] = r]
  BY Zenon DEF ResetFailures, Goto, Return, Drop
<1>3. r.open_at <= now + OpenDuration
  BY <1>0, PeerGuardAssumption DEF AtRest, Rpcs
<1>4. GuardTypeOK'
  BY <1>0, <1>1, <1>2, PeerGuardAssumption DEF ResetFailures, GuardTypeOK, Drop, ReleaseSlot, Rpcs
<1>5. PermitsConserved'
  BY <1>0, <1>1, <1>2, SlotReleased DEF ResetFailures, AtRest, Drop, Rpcs, Holding
<1>6. StreakIsActedOn'
  <2>1. failures' \in [Keys -> Nat] /\ rpc[c].key \in Keys
    BY <1>0, <1>4 DEF GuardTypeOK, Rpcs
  <2>2. failures'[rpc[c].key] < Threshold
    BY <2>1, PeerGuardAssumption DEF ResetFailures, GuardTypeOK
  <2>3. \A k \in Keys : failures'[k] = failures[k] \/ failures'[k] < Threshold
    BY <2>1, <2>2 DEF ResetFailures, GuardTypeOK
  <2> QED
    BY <1>1, <1>2, <2>1, <2>2, <2>3, StreakKept
<1>7. OpenIsBounded' /\ StampsAreBounded'
  BY <1>0, <1>1, <1>2, <1>3, BoundsKept DEF ResetFailures, GuardTypeOK, Rpcs
<1> QED
  BY <1>4, <1>5, <1>6, <1>7

\* Time passing keeps the invariant.
LEMMA TickKeeps == GuardInv /\ Tick => GuardInv'
<1> SUFFICES ASSUME GuardInv, Tick PROVE GuardInv'
  OBVIOUS
<1> USE DEF GuardInv, Tick
<1>1. GuardTypeOK'
  BY PeerGuardAssumption DEF GuardTypeOK
<1>2. PermitsConserved'
  <2>1. GlobalHolders' = GlobalHolders /\ \A k \in Keys : SlotHolders(k)' = SlotHolders(k)
    BY DEF GlobalHolders, SlotHolders, HasGlobal, HasSlot
  <2> QED
    BY <2>1 DEF PermitsConserved
<1>3. StreakIsActedOn'
  BY DEF StreakIsActedOn
<1>4. OpenIsBounded' /\ StampsAreBounded'
  BY PeerGuardAssumption DEF OpenIsBounded, StampsAreBounded, GuardTypeOK, Rpcs
<1> QED
  BY <1>1, <1>2, <1>3, <1>4

\* A step that changes nothing keeps the invariant.
LEMMA StutterKeeps == GuardInv /\ UNCHANGED guardVars => GuardInv'
  BY DEF GuardInv, guardVars, GuardTypeOK, PermitsConserved, StreakIsActedOn, OpenIsBounded,
         StampsAreBounded, SlotHolders, GlobalHolders, HasSlot, HasGlobal

\* Every step of the guard keeps the invariant.
LEMMA StepKeeps == GuardInv /\ [Next]_guardVars => GuardInv'
<1> SUFFICES ASSUME GuardInv, [Next]_guardVars PROVE GuardInv'
  OBVIOUS
<1>1. CASE Tick
  BY <1>1, TickKeeps
<1>2. CASE \E c \in Callers : Call(c)
  <2>1. PICK c \in Callers : Call(c)
    BY <1>2
  <2> QED
    BY <2>1, LoadCircuitKeeps, RejectOpenKeeps, AcquireSlotKeeps, BulkheadFullKeeps,
       AcquireGlobalKeeps, GlobalLimitFullKeeps, CancelKeeps, record_successKeeps,
       CloseCircuitKeeps, record_failureKeeps, CountFailureKeeps, OpenCircuitKeeps,
       ResetFailuresKeeps DEF Call
<1>3. CASE UNCHANGED guardVars
  BY <1>3, StutterKeeps
<1> QED
  BY <1>1, <1>2, <1>3 DEF Next

-----------------------------------------------------------------------------
(* The guard's invariant holds in every reachable state: types, permit     *)
(* counts, streaks, deadlines and stamps together.                         *)
THEOREM GuardInvariant == GuardSpec => []GuardInv
  BY InitGuard, StepKeeps, PTL DEF GuardSpec

(* The atomics and permits of peer_guard.rs keep their types: no semaphore *)
(* of try_acquire falls below zero, and a deadline is a time.              *)
THEOREM GuardTypeCorrect == GuardSpec => []GuardTypeOK
<1>1. GuardInv => GuardTypeOK
  BY DEF GuardInv
<1> QED
  BY <1>1, GuardInvariant, PTL

(* peer_guard.rs never leaks or invents an RPC permit, whatever the number *)
(* of callers, keys and permits and however rejected, failed and cancelled *)
(* calls overlap.                                                          *)
THEOREM PermitsStayConserved == GuardSpec => []PermitsConserved
<1>1. GuardInv => PermitsConserved
  BY DEF GuardInv
<1> QED
  BY <1>1, GuardInvariant, PTL

(* A failure streak at the threshold is always being turned into an open   *)
(* circuit, although record_failure is four separate atomic accesses.      *)
THEOREM StreaksAreActedOn == GuardSpec => []StreakIsActedOn
<1>1. GuardInv => StreakIsActedOn
  BY DEF GuardInv
<1> QED
  BY <1>1, GuardInvariant, PTL

(* No circuit is ever open for longer than one cooldown from now.          *)
THEOREM OpenStaysBounded == GuardSpec => []OpenIsBounded
<1>1. GuardInv => OpenIsBounded
  BY DEF GuardInv
<1> QED
  BY <1>1, GuardInvariant, PTL
=============================================================================
