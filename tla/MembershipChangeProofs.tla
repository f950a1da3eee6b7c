------------------------ MODULE MembershipChangeProofs ------------------------
(***************************************************************************)
(* Proofs about MembershipChange.  The membership fence does the work:     *)
(* only its holder changes the configuration, so the goal an operation     *)
(* computed from the voters stays right until it is reached, whatever      *)
(* joint set the change before it left behind.                             *)
(***************************************************************************)
EXTENDS MembershipChange, TLAPS

(* The invariant, by the state it is about.                                *)

ConfigRight ==
    config \in Configs /\ config.old # {} /\ config.new # {} /\ VotersAreMembers

ObservedRight ==
    /\ conn \subseteq Nodes /\ acks \subseteq Nodes /\ down \in [Nodes -> -1 .. ReplaceAfter]
    /\ tick \in {Resting} \cup Ticks

HealRight == heal \in {Resting} \cup Heals /\ (heal.pc = "change" => heal.goal # {})

Operations == {Resting} \cup Additions \cup Changes

(* A goal computed from a set of voters that contains V.                   *)
FreshFor(r, V) ==
    r.pc # "idle" /\ (r.pc = "change" \/ r.op \notin {"learner", "join"}) =>
      r \in Changes /\ r.goal # {} /\ V \ r.goal \subseteq r.named

AdminRight == admin \in [Admins -> Operations] /\ \A a \in Admins : FreshFor(admin[a], Voters)

CountsRight == flaps \in 0 .. MaxFlaps /\ ops \in 0 .. MaxOps /\ faults \in 0 .. MaxFaults

FenceRight == fence \in Admins \cup {"free", "guard"} /\ FenceIsHeld

LEMMA OperationCases ==
  ASSUME NEW r \in Operations
  PROVE  /\ r.pc \in {"idle", "learn", "catchup", "change"}
         /\ r.pc = "idle" <=> r = Resting
         /\ r.pc # "idle" => r \in Additions \cup Changes
  BY DEF Operations, Resting, Additions, Changes

LEMMA Parts ==
  MemberInv <=> ConfigRight /\ ObservedRight /\ HealRight /\ AdminRight /\ CountsRight /\ FenceRight
<1>1. ASSUME MemberInv
      PROVE  ConfigRight /\ ObservedRight /\ HealRight /\ AdminRight /\ CountsRight /\ FenceRight
  BY <1>1 DEF MemberInv, MemberTypeOK, RecordsFit, GoalsAreFresh, ConfigRight, ObservedRight,
     HealRight, AdminRight, FreshFor, Operations, CountsRight, FenceRight
<1>2. ASSUME ConfigRight, ObservedRight, HealRight, AdminRight, CountsRight, FenceRight
      PROVE  MemberInv
  <2>1. config.old \subseteq Nodes /\ config.new \subseteq Nodes /\ config.nodes \subseteq Nodes
    BY <1>2 DEF ConfigRight, Configs
  <2>2. tick.pc \in {"idle", "captured", "expired"}
    BY <1>2 DEF ObservedRight, Ticks, Resting
  <2>3. heal.pc \in {"idle", "change", "remove", "backfill"}
    BY <1>2 DEF HealRight, Heals, Resting
  <2>4. \A a \in Admins : admin[a].pc \in {"idle", "learn", "catchup", "change"}
    BY <1>2, OperationCases DEF AdminRight
  <2>5. MemberTypeOK
    BY <1>2, <2>1, <2>2, <2>3, <2>4
    DEF MemberTypeOK, ConfigRight, ObservedRight, CountsRight, FenceRight
  <2>6. RecordsFit
    BY <1>2 DEF RecordsFit, ConfigRight, ObservedRight, HealRight, AdminRight, Operations
  <2>7. GoalsAreFresh
    BY <1>2 DEF GoalsAreFresh, HealRight, AdminRight, FreshFor
  <2> QED
    BY <1>2, <2>5, <2>6, <2>7 DEF MemberInv, ConfigRight, FenceRight
<1> QED
  BY <1>1, <1>2

LEMMA PartsNext ==
  (ConfigRight /\ ObservedRight /\ HealRight /\ AdminRight /\ CountsRight /\ FenceRight)' => MemberInv'
  BY Parts, PTL

-----------------------------------------------------------------------------
(* The calls of openraft.                                                  *)

(* change_membership loses no voter that is in the goal, whichever of its  *)
(* two steps is taken, and strands none.                                   *)
LEMMA ChangeStep ==
  ASSUME ConfigRight, NEW goal \in SUBSET Nodes, goal # {}, change_membership(goal)
  PROVE  /\ ConfigRight'
         /\ Voters \ Voters' \subseteq Voters \ goal
         /\ Voters' \ goal \subseteq Voters \ goal
<1> DEFINE o == IF goal \in {config.old, config.new} THEN goal ELSE config.new
           m == config.nodes \ ((config.old \cup config.new) \ (o \cup goal))
<1>1. config = [old |-> config.old, new |-> config.new, nodes |-> config.nodes]
  BY DEF ConfigRight, Configs
<1>2. config' = [old |-> o, new |-> goal, nodes |-> m]
  <2>1. CASE goal \in {config.old, config.new}
    BY <1>1, <2>1 DEF change_membership, Coherent, VotersOf, Voters
  <2>2. CASE goal \notin {config.old, config.new}
    BY <1>1, <2>2 DEF change_membership, Coherent, VotersOf, Voters
  <2> QED
    BY <2>1, <2>2
<1>3. /\ config.old \subseteq Nodes /\ config.new \subseteq Nodes /\ config.nodes \subseteq Nodes
      /\ config.old # {} /\ config.new # {} /\ config.old \cup config.new \subseteq config.nodes
      /\ goal \subseteq config.nodes
  BY DEF ConfigRight, Configs, VotersAreMembers, Voters, VotersOf, change_membership
<1>4. o \subseteq config.nodes /\ o # {} /\ o \cup goal \subseteq m /\ m \subseteq Nodes
  BY <1>3
<1>5. o \subseteq config.new \cup goal
  OBVIOUS
<1>6. config'.old = o /\ config'.new = goal /\ config'.nodes = m
  BY <1>2
<1>7. config' \in Configs
  <2> HIDE DEF o, m
  <2> QED
    BY <1>2, <1>3, <1>4 DEF Configs
<1>8. Voters = config.old \cup config.new /\ Voters' = o \cup goal
  BY <1>6 DEF Voters, VotersOf
<1> HIDE DEF o, m
<1>9. ConfigRight'
  BY <1>3, <1>4, <1>6, <1>7, <1>8 DEF ConfigRight, VotersAreMembers
<1> QED
  BY <1>5, <1>8, <1>9

LEMMA AddStep ==
  ASSUME ConfigRight, NEW n \in Nodes, add_learner(n)
  PROVE  ConfigRight' /\ Voters' = Voters
<1>1. config' = [old |-> config.old, new |-> config.new, nodes |-> config.nodes \cup {n}]
  BY DEF ConfigRight, Configs, add_learner
<1>2. config'.old = config.old /\ config'.new = config.new /\ config'.nodes = config.nodes \cup {n}
  BY <1>1
<1>3. config' \in Configs
  BY <1>1 DEF ConfigRight, Configs
<1> QED
  BY <1>2, <1>3 DEF ConfigRight, VotersAreMembers, Voters, VotersOf

LEMMA RemoveStep ==
  ASSUME ConfigRight, NEW n \in Learners, config' = [config EXCEPT !.nodes = @ \ {n}]
  PROVE  ConfigRight' /\ Voters' = Voters
<1>1. config' = [old |-> config.old, new |-> config.new, nodes |-> config.nodes \ {n}]
  BY DEF ConfigRight, Configs
<1>2. config'.old = config.old /\ config'.new = config.new /\ config'.nodes = config.nodes \ {n}
  BY <1>1
<1>3. config' \in Configs
  BY <1>1 DEF ConfigRight, Configs
<1> QED
  BY <1>2, <1>3 DEF ConfigRight, VotersAreMembers, Voters, VotersOf, Learners

-----------------------------------------------------------------------------
(* Frames.                                                                 *)

LEMMA SameConfig == ASSUME ConfigRight, config' = config PROVE ConfigRight' /\ Voters' = Voters
  BY DEF ConfigRight, VotersAreMembers, Voters, VotersOf

LEMMA SameAdmin ==
  ASSUME AdminRight, admin' = admin, Voters' = Voters PROVE AdminRight'
  BY DEF AdminRight

LEMMA SameObserved ==
  ASSUME ObservedRight, UNCHANGED <<conn, acks, down>>, tick' \in {tick, Resting} PROVE ObservedRight'
  BY DEF ObservedRight, Ticks, Resting

LEMMA SameCounts ==
  ASSUME CountsRight, UNCHANGED counts PROVE CountsRight'
  BY DEF CountsRight, counts

LEMMA SameFence ==
  ASSUME FenceRight, fence' = fence, heal'.pc = "idle" <=> heal.pc = "idle",
         \A a \in Admins : admin'[a].pc = "idle" <=> admin[a].pc = "idle"
  PROVE  FenceRight'
  BY DEF FenceRight, FenceIsHeld

(* Whoever holds the fence is alone.                                       *)
LEMMA GuardHolds ==
  ASSUME FenceRight, heal.pc # "idle"
  PROVE  fence = "guard" /\ \A a \in Admins : admin[a].pc = "idle"
  BY MembershipAssumption DEF FenceRight, FenceIsHeld

LEMMA AdminHolds ==
  ASSUME FenceRight, NEW a \in Admins, admin[a].pc # "idle"
  PROVE  fence = a /\ heal.pc = "idle" /\ \A b \in Admins \ {a} : admin[b].pc = "idle"
  BY MembershipAssumption DEF FenceRight, FenceIsHeld

(* The guard observes, or gives up for this tick.                          *)
LEMMA QuietKeeps ==
  ASSUME MemberInv, UNCHANGED <<config, fence, heal, admin>>, ObservedRight', CountsRight'
  PROVE  MemberInv'
<1>1. ConfigRight' /\ Voters' = Voters
  BY Parts, SameConfig
<1>2. AdminRight'
  BY <1>1, Parts, SameAdmin
<1>3. HealRight'
  BY Parts DEF HealRight
<1>4. FenceRight'
  BY Parts, SameFence
<1> QED
  BY <1>1, <1>2, <1>3, <1>4, PartsNext

LEMMA Observe_Keeps == ASSUME MemberInv, Observe PROVE MemberInv'
<1>1. ObservedRight'
  BY Parts DEF ObservedRight, Observe, guardState, Ticks, Resting
<1>2. CountsRight'
  BY Parts, MembershipAssumption DEF CountsRight, Observe
<1> QED
  BY <1>1, <1>2, QuietKeeps DEF Observe, guardState

LEMMA ReadMetrics_Keeps == ASSUME MemberInv, ReadMetrics PROVE MemberInv'
<1>1. Voters \in SUBSET Nodes /\ config.nodes \in SUBSET Nodes
  BY Parts DEF ConfigRight, Configs, Voters, VotersOf
<1>2. acks \in SUBSET Nodes
  BY Parts DEF ObservedRight
<1>3. tick' \in Ticks
  BY <1>1, <1>2 DEF ReadMetrics, Ticks
<1>4. ObservedRight'
  BY <1>3, Parts DEF ObservedRight, ReadMetrics
<1>5. CountsRight'
  BY Parts, SameCounts DEF ReadMetrics
<1> QED
  BY <1>4, <1>5, QuietKeeps DEF ReadMetrics

LEMMA ClearTracking_Keeps == ASSUME MemberInv, ClearTracking PROVE MemberInv'
<1>1. ObservedRight'
  BY Parts, MembershipAssumption DEF ObservedRight, ClearTracking, guardState
<1>2. CountsRight'
  BY Parts, SameCounts DEF ClearTracking
<1> QED
  BY <1>1, <1>2, QuietKeeps DEF ClearTracking, guardState

(* What a tick that finds somebody expired has seen.                       *)
LEMMA Expired ==
  ASSUME MemberInv, TrackDown
  PROVE  /\ down' \in [Nodes -> -1 .. ReplaceAfter]
         /\ tick \in Ticks /\ tick.pc = "captured"
         /\ tick' # Resting => tick' \in Ticks /\ tick'.dead \in Nodes
<1> DEFINE clock(n) == IF n \notin tick.nodes \ {Leader} \/ Alive(n) THEN -1
                       ELSE IF down[n] < ReplaceAfter THEN down[n] + 1 ELSE down[n]
<1>1. /\ tick.pc = "captured" /\ tick \in {Resting} \cup Ticks
      /\ down \in [Nodes -> -1 .. ReplaceAfter] /\ ReplaceAfter \in Nat \ {0}
  BY Parts, MembershipAssumption DEF ObservedRight, TrackDown
<1>2. /\ tick \in Ticks /\ tick.voters \in SUBSET Nodes /\ tick.nodes \in SUBSET Nodes
      /\ tick.acked \in SUBSET Nodes
  BY <1>1 DEF Ticks, Resting
<1>3. down' = [n \in Nodes |-> clock(n)]
  BY DEF TrackDown
<1>4. \A n \in Nodes : clock(n) \in -1 .. ReplaceAfter
  BY <1>1
<1>5. down' \in [Nodes -> -1 .. ReplaceAfter]
  BY <1>3, <1>4
<1>6. \/ tick' = Resting
      \/ \E dead \in Nodes :
           tick' = [pc |-> "expired", voters |-> tick.voters, nodes |-> tick.nodes,
                    acked |-> tick.acked, dead |-> dead]
  BY DEF TrackDown
<1>7. tick' # Resting => tick' \in Ticks /\ tick'.dead \in Nodes
  BY <1>2, <1>6 DEF Ticks
<1> QED
  BY <1>1, <1>2, <1>5, <1>7

LEMMA TrackDown_Keeps == ASSUME MemberInv, TrackDown PROVE MemberInv'
<1>1. ObservedRight'
  BY Expired, Parts DEF ObservedRight, TrackDown
<1>2. CountsRight'
  BY Parts, SameCounts DEF TrackDown
<1> QED
  BY <1>1, <1>2, QuietKeeps DEF TrackDown

LEMMA DeferAction_Keeps == ASSUME MemberInv, DeferAction PROVE MemberInv'
<1>1. ObservedRight'
  BY Parts, SameObserved DEF DeferAction
<1>2. CountsRight'
  BY Parts, SameCounts DEF DeferAction
<1> QED
  BY <1>1, <1>2, QuietKeeps DEF DeferAction

-----------------------------------------------------------------------------
(* The guard acts.                                                         *)

LEMMA Spawn_Keeps ==
  ASSUME MemberInv, NEW r \in Heals, r.pc = "change" => r.goal # {}, Spawn(r), fence = "free",
         UNCHANGED <<config, conn, acks, down, admin, counts>>
  PROVE  MemberInv'
<1>1. ConfigRight' /\ Voters' = Voters
  BY Parts, SameConfig
<1>2. AdminRight'
  BY <1>1, Parts, SameAdmin
<1>3. HealRight'
  BY DEF HealRight, Spawn
<1>4. ObservedRight' /\ CountsRight'
  BY Parts, SameObserved, SameCounts DEF Spawn
<1>5. FenceRight'
  <2>1. r.pc # "idle"
    BY DEF Heals
  <2>2. \A a \in Admins : admin[a].pc = "idle"
    BY Parts, MembershipAssumption DEF FenceRight, FenceIsHeld
  <2> QED
    BY <2>1, <2>2, MembershipAssumption DEF FenceRight, FenceIsHeld, Spawn
<1> QED
  BY <1>1, <1>2, <1>3, <1>4, <1>5, PartsNext

LEMMA ExpiredTick ==
  ASSUME MemberInv, tick.pc = "expired"
  PROVE  /\ tick.dead \in Nodes /\ tick.nodes \in SUBSET Nodes /\ tick.voters \in SUBSET Nodes
         /\ tick.acked \in SUBSET Nodes
  BY Parts DEF ObservedRight, Ticks, Resting

LEMMA ReplaceVoter_Keeps == ASSUME MemberInv, ReplaceVoter PROVE MemberInv'
<1>1. /\ tick.dead \in Nodes /\ tick.nodes \in SUBSET Nodes /\ tick.voters \in SUBSET Nodes
  BY ExpiredTick DEF ReplaceVoter
<1>2. PICK learner \in Promotable(tick.nodes \ tick.voters, tick.acked) :
        Spawn([pc |-> "change", dead |-> tick.dead, nodes |-> tick.nodes,
               goal |-> (tick.voters \ {tick.dead}) \cup {learner}])
  BY DEF ReplaceVoter
<1> DEFINE g == (tick.voters \ {tick.dead}) \cup {learner}
           r == [pc |-> "change", dead |-> tick.dead, nodes |-> tick.nodes, goal |-> g]
<1>3. g \in SUBSET Nodes /\ g # {}
  BY <1>1 DEF Promotable
<1>4. r \in Heals /\ r.goal # {}
  BY <1>1, <1>3 DEF Heals
<1> HIDE DEF g
<1>5. Spawn(r)
  BY <1>2 DEF g
<1> HIDE DEF r
<1> QED
  BY <1>4, <1>5, Spawn_Keeps DEF ReplaceVoter

LEMMA RemoveLearner_Keeps == ASSUME MemberInv, RemoveLearner PROVE MemberInv'
<1> DEFINE r == [pc |-> "remove", dead |-> tick.dead, nodes |-> tick.nodes, goal |-> {}]
<1>1. /\ tick.dead \in Nodes /\ tick.nodes \in SUBSET Nodes
  BY ExpiredTick DEF RemoveLearner
<1>2. r \in Heals /\ r.pc # "change"
  BY <1>1 DEF Heals
<1>3. Spawn(r)
  BY DEF RemoveLearner
<1> HIDE DEF r
<1> QED
  BY <1>2, <1>3, Spawn_Keeps DEF RemoveLearner

LEMMA HealFacts ==
  ASSUME MemberInv, heal.pc # "idle"
  PROVE  /\ heal \in Heals /\ heal.dead \in Nodes /\ heal.goal \in SUBSET Nodes
         /\ heal.pc \in {"change", "remove", "backfill"} /\ (heal.pc = "change" => heal.goal # {})
         /\ \A a \in Admins : admin[a].pc = "idle"
  BY Parts, GuardHolds DEF HealRight, Heals, Resting

(* While the guard holds the fence no operation has a goal to keep.        *)
LEMMA HealKeeps ==
  ASSUME MemberInv, heal.pc # "idle", ConfigRight', HealRight',
         \/ heal'.pc # "idle" /\ fence' = fence
         \/ heal'.pc = "idle" /\ fence' = "free",
         UNCHANGED <<conn, acks, down, tick, admin>>, CountsRight'
  PROVE  MemberInv'
<1>1. fence = "guard" /\ \A a \in Admins : admin[a].pc = "idle"
  BY Parts, GuardHolds
<1>2. AdminRight'
  BY <1>1, Parts DEF AdminRight, FreshFor
<1>3. ObservedRight'
  BY Parts, SameObserved
<1>4. FenceRight'
  BY <1>1, MembershipAssumption DEF FenceRight, FenceIsHeld
<1> QED
  BY <1>2, <1>3, <1>4, PartsNext

LEMMA HealChange_Keeps == ASSUME MemberInv, HealChange PROVE MemberInv'
<1>1. /\ heal \in Heals /\ heal.goal \in SUBSET Nodes /\ heal.goal # {} /\ heal.pc = "change"
  BY HealFacts DEF HealChange
<1>2. ConfigRight'
  BY <1>1, Parts, ChangeStep DEF HealChange
<1>3. heal' \in Heals /\ heal'.pc # "idle" /\ heal'.goal # {}
  BY <1>1 DEF HealChange, Heals
<1>4. HealRight' /\ CountsRight'
  BY <1>3, Parts, SameCounts DEF HealRight, HealChange
<1> QED
  BY <1>1, <1>2, <1>3, <1>4, HealKeeps DEF HealChange

LEMMA HealRemove_Keeps == ASSUME MemberInv, HealRemove PROVE MemberInv'
<1>1. heal \in Heals /\ heal.pc = "remove"
  BY HealFacts DEF HealRemove
<1>2. ConfigRight'
  BY Parts, RemoveStep DEF HealRemove
<1>3. heal' \in Heals /\ heal'.pc = "backfill"
  BY <1>1 DEF HealRemove, Heals
<1>4. HealRight' /\ CountsRight'
  BY <1>3, Parts, SameCounts DEF HealRight, HealRemove
<1> QED
  BY <1>1, <1>2, <1>3, <1>4, HealKeeps DEF HealRemove

LEMMA backfill_learner_Keeps == ASSUME MemberInv, backfill_learner PROVE MemberInv'
<1>1. ConfigRight'
  <2>1. CASE config' = config
    BY <2>1, Parts, SameConfig
  <2>2. CASE \E n \in SpareWorkers : add_learner(n)
    <3>1. SpareWorkers \subseteq Nodes
      BY Parts DEF SpareWorkers, ObservedRight
    <3> QED
      BY <2>2, <3>1, Parts, AddStep
  <2> QED
    BY <2>1, <2>2 DEF backfill_learner
<1>2. heal'.pc = "idle" /\ heal.pc # "idle" /\ fence' = "free"
  BY DEF backfill_learner, Resting
<1>3. HealRight' /\ CountsRight'
  BY <1>2, Parts, SameCounts DEF HealRight, backfill_learner
<1> QED
  BY <1>1, <1>2, <1>3, HealKeeps DEF backfill_learner

LEMMA HealFails_Keeps == ASSUME MemberInv, HealFails PROVE MemberInv'
<1>1. ConfigRight'
  BY Parts, SameConfig DEF HealFails
<1>2. heal'.pc = "idle" /\ heal.pc # "idle" /\ fence' = "free"
  BY DEF HealFails, Resting
<1>3. HealRight' /\ CountsRight'
  BY <1>2, Parts, MembershipAssumption DEF HealRight, HealFails, CountsRight
<1> QED
  BY <1>1, <1>2, <1>3, HealKeeps DEF HealFails

-----------------------------------------------------------------------------
(* The admin operations.                                                   *)

LEMMA Begin_Keeps ==
  ASSUME MemberInv, NEW a \in Admins, NEW r \in Additions \cup Changes, FreshFor(r, Voters),
         Begin(a, r)
  PROVE  MemberInv'
<1>1. ConfigRight' /\ Voters' = Voters
  BY Parts, SameConfig DEF Begin
<1>2. r.pc # "idle" /\ r \in Operations
  BY DEF Additions, Changes, Operations
<1>3. /\ admin' \in [Admins -> Operations] /\ admin'[a] = r
      /\ \A b \in Admins \ {a} : admin'[b] = admin[b]
  BY <1>2, Parts DEF Begin, AdminRight
<1>4. AdminRight'
  BY <1>1, <1>3, Parts DEF AdminRight
<1>5. HealRight' /\ ObservedRight'
  BY Parts, SameObserved DEF HealRight, Begin, guardState
<1>6. CountsRight'
  BY Parts, MembershipAssumption DEF CountsRight, Begin
<1>7. FenceRight'
  <2>1. heal.pc = "idle" /\ \A b \in Admins : admin[b].pc = "idle"
    BY Parts, MembershipAssumption DEF FenceRight, FenceIsHeld, Begin
  <2>2. fence' = a /\ heal' = heal
    BY DEF Begin, guardState
  <2> QED
    BY <1>2, <1>3, <2>1, <2>2, MembershipAssumption DEF FenceRight, FenceIsHeld
<1> QED
  BY <1>1, <1>4, <1>5, <1>6, <1>7, PartsNext

LEMMA VotersTyped == ASSUME MemberInv PROVE Voters \in SUBSET Nodes
  BY Parts DEF ConfigRight, Configs, Voters, VotersOf

LEMMA Added_Keeps ==
  ASSUME MemberInv, NEW a \in Admins, NEW n \in Nodes,
         AddLearner(a, n) \/ AddMember(a, n) \/ JoinCluster(a, n)
  PROVE  MemberInv'
<1>1. PICK r : /\ r \in {[pc |-> "learn", op |-> "learner", node |-> n, named |-> {}], Promotion(n)}
               /\ Begin(a, r)
  BY DEF AddLearner, AddMember, JoinCluster
<1>2. r \in Additions /\ r.pc = "learn" /\ r.op \in {"learner", "join"}
  BY <1>1 DEF Additions, Promotion
<1>3. FreshFor(r, Voters)
  BY <1>2 DEF FreshFor
<1> QED
  BY <1>1, <1>2, <1>3, Begin_Keeps

LEMMA Goal_Keeps ==
  ASSUME MemberInv, NEW a \in Admins, NEW n \in Nodes, NEW m \in Nodes,
         Replace(a, m, n) \/ Remove(a, n)
  PROVE  MemberInv'
<1>1. CASE Replace(a, m, n)
  <2> DEFINE g == (Voters \ {m}) \cup {n}
             r == [pc |-> "learn", op |-> "replace", node |-> n, named |-> {m}, goal |-> g]
  <2>1. g \in SUBSET Nodes /\ g # {} /\ Voters \ g \subseteq {m}
    BY VotersTyped
  <2>2. r \in Changes
    <3> HIDE DEF g
    <3> QED
      BY <2>1 DEF Changes
  <2>3. r.goal = g /\ r.named = {m}
    OBVIOUS
  <2>4. Begin(a, r)
    BY <1>1 DEF Replace
  <2> HIDE DEF g, r
  <2>5. FreshFor(r, Voters)
    BY <2>1, <2>2, <2>3 DEF FreshFor
  <2> QED
    BY <2>2, <2>4, <2>5, Begin_Keeps
<1>2. CASE Remove(a, n)
  <2> DEFINE g == Voters \ {n}
             r == [pc |-> "change", op |-> "remove", node |-> n, named |-> {n}, goal |-> g]
  <2>1. g \in SUBSET Nodes /\ g # {} /\ Voters \ g \subseteq {n}
    BY <1>2, VotersTyped DEF Remove
  <2>2. r \in Changes
    <3> HIDE DEF g
    <3> QED
      BY <2>1 DEF Changes
  <2>3. r.goal = g /\ r.named = {n}
    OBVIOUS
  <2>4. Begin(a, r)
    BY <1>2 DEF Remove
  <2> HIDE DEF g, r
  <2>5. FreshFor(r, Voters)
    BY <2>1, <2>2, <2>3 DEF FreshFor
  <2> QED
    BY <2>2, <2>4, <2>5, Begin_Keeps
<1> QED
  BY <1>1, <1>2

(* The holder's operation goes on or ends; the others stay at rest.        *)
LEMMA AdminKeeps ==
  ASSUME MemberInv, NEW a \in Admins, admin[a].pc # "idle", ConfigRight',
         NEW r \in Operations, admin' = [admin EXCEPT ![a] = r], FreshFor(r, Voters'),
         \/ r.pc # "idle" /\ fence' = fence
         \/ r.pc = "idle" /\ fence' = "free",
         UNCHANGED <<conn, acks, down, guardState>>, CountsRight'
  PROVE  MemberInv'
<1>1. fence = a /\ heal.pc = "idle" /\ \A b \in Admins \ {a} : admin[b].pc = "idle"
  BY Parts, AdminHolds
<1>2. /\ admin' \in [Admins -> Operations] /\ admin'[a] = r
      /\ \A b \in Admins \ {a} : admin'[b] = admin[b]
  BY Parts DEF AdminRight
<1>3. AdminRight'
  <2>1. \A b \in Admins \ {a} : FreshFor(admin'[b], Voters')
    BY <1>1, <1>2 DEF FreshFor
  <2> QED
    BY <1>2, <2>1 DEF AdminRight
<1>4. HealRight' /\ ObservedRight'
  BY Parts, SameObserved DEF HealRight, guardState
<1>5. FenceRight'
  BY <1>1, <1>2, MembershipAssumption DEF FenceRight, FenceIsHeld, guardState
<1> QED
  BY <1>3, <1>4, <1>5, PartsNext

LEMMA RestFits == Resting \in Operations /\ Resting.pc = "idle" /\ \A V : FreshFor(Resting, V)
  BY DEF Resting, Operations, FreshFor

LEMMA AdminFacts ==
  ASSUME MemberInv, NEW a \in Admins, admin[a].pc # "idle"
  PROVE  /\ admin[a] \in Additions \cup Changes /\ admin[a].node \in Nodes
         /\ admin[a].named \in SUBSET Nodes /\ FreshFor(admin[a], Voters)
         /\ admin[a] \in Changes => admin[a].goal \in SUBSET Nodes
<1>1. admin[a] \in Operations /\ FreshFor(admin[a], Voters)
  BY Parts DEF AdminRight
<1>2. admin[a] \in Additions \cup Changes
  BY <1>1, OperationCases
<1> QED
  BY <1>1, <1>2 DEF Additions, Changes

LEMMA Learn_Keeps == ASSUME MemberInv, NEW a \in Admins, Learn(a) PROVE MemberInv'
<1>1. /\ admin[a] \in Additions \cup Changes /\ admin[a].node \in Nodes /\ admin[a].pc = "learn"
      /\ FreshFor(admin[a], Voters)
  BY AdminFacts DEF Learn
<1>2. ConfigRight' /\ Voters' = Voters
  BY <1>1, Parts, AddStep DEF Learn
<1>3. CountsRight'
  BY Parts, SameCounts DEF Learn
<1>4. CASE Finish(a)
  BY <1>1, <1>2, <1>3, <1>4, RestFits, AdminKeeps DEF Learn, Finish
<1>5. CASE admin[a].op # "learner" /\ admin' = [admin EXCEPT ![a] = [@ EXCEPT !.pc = "catchup"]] /\ UNCHANGED fence
  <2> DEFINE r == [admin[a] EXCEPT !.pc = "catchup"]
  <2>1. /\ r \in Additions \cup Changes /\ r.pc = "catchup" /\ r.op = admin[a].op
        /\ r.named = admin[a].named
        /\ admin[a] \in Changes => r \in Changes /\ r.goal = admin[a].goal
    <3>1. CASE admin[a] \in Changes
      BY <1>1, <3>1 DEF Changes
    <3>2. CASE admin[a] \in Additions
      <4>1. admin[a] \in [pc : {"learn", "catchup"}, op : {"join"}, node : Nodes, named : SUBSET Nodes]
        BY <1>5, <3>2 DEF Additions
      <4>2. r \in Additions /\ r.pc = "catchup" /\ r.op = admin[a].op /\ r.named = admin[a].named
        BY <4>1 DEF Additions
      <4>3. admin[a] \notin Changes
        BY <4>1 DEF Changes
      <4> QED
        BY <4>2, <4>3
    <3> QED
      BY <1>1, <3>1, <3>2
  <2>2. FreshFor(r, Voters')
    BY <1>1, <1>2, <2>1 DEF FreshFor
  <2>3. r \in Operations /\ r.pc # "idle" /\ admin' = [admin EXCEPT ![a] = r]
    BY <1>5, <2>1 DEF Operations
  <2> HIDE DEF r
  <2> QED
    BY <1>1, <1>2, <1>3, <1>5, <2>2, <2>3, AdminKeeps DEF Learn
<1> QED
  BY <1>4, <1>5 DEF Learn

LEMMA CatchUp_Keeps == ASSUME MemberInv, NEW a \in Admins, CatchUp(a) PROVE MemberInv'
<1> DEFINE g == IF admin[a].op = "join" THEN Voters \cup {admin[a].node} ELSE admin[a].goal
           r == [pc |-> "change", op |-> admin[a].op, node |-> admin[a].node,
                 named |-> admin[a].named, goal |-> g]
<1>1. /\ admin[a] \in Additions \cup Changes /\ admin[a].node \in Nodes /\ admin[a].pc = "catchup"
      /\ FreshFor(admin[a], Voters) /\ admin[a].named \in SUBSET Nodes
      /\ admin[a] \in Changes => admin[a].goal \in SUBSET Nodes
  BY AdminFacts DEF CatchUp
<1>2. ConfigRight' /\ Voters' = Voters
  BY Parts, SameConfig DEF CatchUp
<1>3. CountsRight'
  BY Parts, SameCounts DEF CatchUp
<1>4. admin[a].op \in {"join", "replace", "remove"}
  BY <1>1 DEF Additions, Changes
<1>5. g \in SUBSET Nodes /\ g # {} /\ Voters \ g \subseteq admin[a].named
  <2>1. CASE admin[a].op = "join"
    BY <1>1, <2>1, VotersTyped
  <2>2. CASE admin[a].op \in {"replace", "remove"}
    BY <1>1, <2>2 DEF FreshFor
  <2> QED
    BY <1>4, <2>1, <2>2
<1> HIDE DEF g
<1>6. r \in Changes /\ r.goal = g /\ r.named = admin[a].named /\ r.pc = "change"
  BY <1>1, <1>4, <1>5 DEF Changes
<1>7. admin' = [admin EXCEPT ![a] = r]
  BY DEF CatchUp, g
<1> HIDE DEF r
<1>8. FreshFor(r, Voters') /\ r \in Operations
  BY <1>2, <1>5, <1>6 DEF FreshFor, Operations
<1> QED
  BY <1>1, <1>2, <1>3, <1>6, <1>7, <1>8, AdminKeeps DEF CatchUp

LEMMA Change_Keeps == ASSUME MemberInv, NEW a \in Admins, Change(a) PROVE MemberInv'
<1>1. /\ admin[a] \in Changes /\ admin[a].goal \in SUBSET Nodes /\ admin[a].goal # {}
      /\ Voters \ admin[a].goal \subseteq admin[a].named /\ admin[a].pc = "change"
  BY AdminFacts DEF Change, FreshFor
<1>2. ConfigRight' /\ Voters' \ admin[a].goal \subseteq Voters \ admin[a].goal
  BY <1>1, Parts, ChangeStep DEF Change
<1>3. CountsRight'
  BY Parts, SameCounts DEF Change
<1>4. CASE Finish(a)
  BY <1>1, <1>2, <1>3, <1>4, RestFits, AdminKeeps DEF Change, Finish
<1>5. CASE UNCHANGED <<admin, fence>>
  <2>1. admin' = [admin EXCEPT ![a] = admin[a]] /\ admin[a] \in Operations
    BY <1>1, <1>5, Parts DEF AdminRight, Operations
  <2>2. FreshFor(admin[a], Voters')
    BY <1>1, <1>2 DEF FreshFor
  <2> QED
    BY <1>1, <1>2, <1>3, <1>5, <2>1, <2>2, AdminKeeps DEF Change
<1> QED
  BY <1>4, <1>5 DEF Change

LEMMA OpFails_Keeps == ASSUME MemberInv, NEW a \in Admins, OpFails(a) PROVE MemberInv'
<1>1. ConfigRight'
  BY Parts, SameConfig DEF OpFails
<1>2. CountsRight'
  BY Parts, MembershipAssumption DEF CountsRight, OpFails
<1> QED
  BY <1>1, <1>2, RestFits, AdminKeeps DEF OpFails, Finish

-----------------------------------------------------------------------------
LEMMA InitInv == Init => MemberInv
<1> SUFFICES ASSUME Init PROVE MemberInv
  OBVIOUS
<1>1. ConfigRight
  <2>1. /\ config.old = InitialVoters /\ config.new = InitialVoters /\ config.nodes = InitialNodes
        /\ config \in Configs
    BY MembershipAssumption DEF Init, Configs
  <2> QED
    BY <2>1, MembershipAssumption DEF ConfigRight, VotersAreMembers, Voters, VotersOf
<1>2. ObservedRight /\ CountsRight
  BY MembershipAssumption DEF Init, ObservedRight, CountsRight
<1>3. HealRight /\ AdminRight
  BY RestFits DEF Init, HealRight, AdminRight, Resting
<1>4. FenceRight
  BY MembershipAssumption DEF Init, FenceRight, FenceIsHeld, Resting
<1> QED
  BY <1>1, <1>2, <1>3, <1>4, Parts

LEMMA StutterKeeps == MemberInv /\ UNCHANGED memberVars => MemberInv'
<1> SUFFICES ASSUME MemberInv, UNCHANGED memberVars PROVE MemberInv'
  OBVIOUS
<1>1. ObservedRight' /\ CountsRight'
  BY Parts, SameObserved, SameCounts DEF memberVars, counts
<1> QED
  BY <1>1, QuietKeeps DEF memberVars

LEMMA StepKeeps == MemberInv /\ [Next]_memberVars => MemberInv'
<1> SUFFICES ASSUME MemberInv, [Next]_memberVars PROVE MemberInv'
  OBVIOUS
<1>1. CASE GuardTick
  BY <1>1, ReadMetrics_Keeps, ClearTracking_Keeps, TrackDown_Keeps, ReplaceVoter_Keeps,
     RemoveLearner_Keeps, DeferAction_Keeps DEF GuardTick
<1>2. CASE Heal
  BY <1>2, HealChange_Keeps, HealRemove_Keeps, backfill_learner_Keeps, HealFails_Keeps DEF Heal
<1>3. ASSUME NEW a \in Admins, AdminStep(a) PROVE MemberInv'
  BY <1>3, Learn_Keeps, CatchUp_Keeps, Change_Keeps, OpFails_Keeps DEF AdminStep
<1> QED
  BY <1>1, <1>2, <1>3, Observe_Keeps, Added_Keeps, Goal_Keeps, StutterKeeps DEF Next

(* The invariant of the membership operations: the fence is held exactly   *)
(* while a change is under way, and goals stay fresh under it.             *)
THEOREM MemberInvariant == MemberSpec => []MemberInv
  BY InitInv, StepKeeps, PTL DEF MemberSpec

(* Every state is well typed, and neither half of a configuration is ever  *)
(* without voters.                                                         *)
THEOREM MemberTypeCorrect == MemberSpec => []MemberTypeOK
<1>1. MemberInv => MemberTypeOK
  BY DEF MemberInv
<1> QED
  BY <1>1, MemberInvariant, PTL

-----------------------------------------------------------------------------
(* The action property.                                                    *)

RemovesOnlyNamed ==
    \A a \in Admins : admin'[a] # admin[a] \/ fence = a =>
        Voters \ Voters' \subseteq (IF admin[a].pc = "idle" THEN {} ELSE admin[a].named)

(* Steps after which the same nodes vote.                                  *)
LEMMA SameVoters ==
  ASSUME MemberInv,
         \/ Observe \/ GuardTick
         \/ \E a \in Admins : \E n \in Nodes : \/ AddLearner(a, n) \/ AddMember(a, n)
                                             \/ JoinCluster(a, n) \/ Remove(a, n)
                                             \/ \E m \in Nodes : Replace(a, m, n)
         \/ \E a \in Admins : Learn(a) \/ CatchUp(a) \/ OpFails(a)
  PROVE  Voters' = Voters
<1>1. CASE \E a \in Admins : Learn(a)
  <2>1. PICK a \in Admins : Learn(a)
    BY <1>1
  <2>2. admin[a].node \in Nodes
    BY <2>1, AdminFacts DEF Learn
  <2> QED
    BY <2>1, <2>2, Parts, AddStep DEF Learn
<1>2. CASE config' = config
  BY <1>2 DEF Voters, VotersOf
<1>3. CASE GuardTick
  BY <1>2, <1>3 DEF GuardTick, ReadMetrics, ClearTracking, TrackDown, ReplaceVoter, RemoveLearner,
     DeferAction
<1>4. CASE \E a \in Admins : \E n \in Nodes : \/ AddLearner(a, n) \/ AddMember(a, n)
                                            \/ JoinCluster(a, n) \/ Remove(a, n)
                                            \/ \E m \in Nodes : Replace(a, m, n)
  BY <1>2, <1>4 DEF AddLearner, AddMember, JoinCluster, Remove, Replace, Begin
<1>5. CASE Observe \/ \E a \in Admins : CatchUp(a) \/ OpFails(a)
  BY <1>2, <1>5 DEF Observe, CatchUp, OpFails
<1> QED
  BY <1>1, <1>3, <1>4, <1>5

LEMMA NamedStep == MemberInv /\ [Next]_memberVars => RemovesOnlyNamed
<1> SUFFICES ASSUME MemberInv, [Next]_memberVars PROVE RemovesOnlyNamed
  OBVIOUS
<1>1. CASE Voters' = Voters
  BY <1>1 DEF RemovesOnlyNamed
<1>2. CASE Heal
  <2>1. fence = "guard" /\ admin' = admin
    BY <1>2, Parts, GuardHolds
    DEF Heal, HealChange, HealRemove, backfill_learner, HealFails
  <2> QED
    BY <2>1, MembershipAssumption DEF RemovesOnlyNamed
<1>3. ASSUME NEW a \in Admins, Change(a) PROVE RemovesOnlyNamed
  <2>1. /\ admin[a].goal \in SUBSET Nodes /\ admin[a].goal # {}
        /\ Voters \ admin[a].goal \subseteq admin[a].named /\ admin[a].pc = "change"
    BY <1>3, AdminFacts DEF Change, FreshFor
  <2>2. Voters \ Voters' \subseteq admin[a].named
    BY <1>3, <2>1, Parts, ChangeStep DEF Change
  <2>3. fence = a
    BY <2>1, Parts, AdminHolds
  <2>4. \A b \in Admins \ {a} : admin'[b] = admin[b] /\ fence # b
    BY <1>3, <2>3, Parts DEF Change, Finish, AdminRight
  <2> QED
    BY <2>1, <2>2, <2>4 DEF RemovesOnlyNamed
<1>4. CASE UNCHANGED memberVars
  BY <1>1, <1>4 DEF memberVars, Voters, VotersOf
<1> QED
  BY <1>1, <1>2, <1>3, <1>4, SameVoters DEF Next, AdminStep

(* add, remove, replace and join take the vote from nobody they do not     *)
(* name, whatever joint set they start from: their goal is computed from   *)
(* the voters under the fence and nobody else moves them until the end.    *)
THEOREM AdminsRemoveOnlyNamed == MemberSpec => AdminRemovesOnlyNamed
<1>1. MemberInv /\ [Next]_memberVars => [RemovesOnlyNamed]_memberVars
  BY NamedStep
<1> QED
  BY <1>1, MemberInvariant, PTL DEF MemberSpec, AdminRemovesOnlyNamed, RemovesOnlyNamed

=============================================================================
