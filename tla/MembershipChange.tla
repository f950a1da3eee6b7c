--------------------------- MODULE MembershipChange ---------------------------
(***************************************************************************)
(* Membership changes of one raft group on its leader: the self-healing    *)
(* guard (membership_guard.rs), the HTTP operations add, remove and        *)
(* replace (http/membership.rs) and the AddLearner and JoinCluster RPCs    *)
(* (network/openraft_dispatcher.rs), all behind the group's membership     *)
(* fence.  How openraft answers a change is external.                      *)
(***************************************************************************)
EXTENDS Integers, FiniteSets

CONSTANTS
    Nodes,          \* every node the leader knows
    Leader,         \* this node
    InitialVoters,
    InitialNodes,   \* voters and learners at the start; the rest are spare workers
    MaxVoters,      \* max_voters of the JoinCluster requests
    Admins,         \* concurrent HTTP or RPC membership requests
    ReplaceAfter,   \* voter_replace_timeout, in guard ticks
    MaxFlaps,       \* bound: changes of what an observer sees
    MaxOps,         \* bound: admin operations started
    MaxFaults       \* bound: membership calls that fail or time out

ASSUME MembershipAssumption ==
    /\ Leader \in InitialVoters /\ InitialVoters \subseteq InitialNodes
    /\ InitialNodes \subseteq Nodes
    /\ "guard" \notin Admins /\ "free" \notin Admins
    /\ ReplaceAfter \in Nat \ {0} /\ MaxVoters \in Nat
    /\ MaxFlaps \in Nat /\ MaxOps \in Nat /\ MaxFaults \in Nat

VARIABLES
    config,   \* openraft's effective membership: old and new voters, all nodes
    fence,    \* membership_fence: its holder, or "free"
    conn,     \* nodes the libp2p view calls alive
    acks,     \* nodes with a fresh raft acknowledgement
    down,     \* down_since: guard ticks a member has been down, -1 for none
    tick,     \* the guard tick under way and what it captured
    heal,     \* the change the guard spawned
    admin,    \* the admin operations
    flaps, ops, faults

guardState == <<tick, heal>>
counts     == <<flaps, ops, faults>>
memberVars == <<config, fence, conn, acks, down, tick, heal, admin, flaps, ops, faults>>

VotersOf(c) == c.old \cup c.new
Voters   == VotersOf(config)
Learners == config.nodes \ Voters

(* A leader that is no voter any more steps down.                          *)
Leading == Leader \in Voters

Resting == [pc |-> "idle"]

Init ==
    /\ config = [old |-> InitialVoters, new |-> InitialVoters, nodes |-> InitialNodes]
    /\ fence = "free"
    /\ conn = Nodes /\ acks = Nodes
    /\ down = [n \in Nodes |-> -1]
    /\ tick = Resting /\ heal = Resting
    /\ admin = [a \in Admins |-> Resting]
    /\ flaps = 0 /\ ops = 0 /\ faults = 0

-----------------------------------------------------------------------------
(* openraft: change_membership(goal, retain = false).  From one set of     *)
(* voters it first goes to the joint set; from a set that already holds    *)
(* the goal, to the goal.  Voters that leave are dropped from the nodes.   *)

Coherent(goal) ==
    LET c == IF goal \in {config.old, config.new}
             THEN [config EXCEPT !.old = goal, !.new = goal]
             ELSE [config EXCEPT !.old = config.new, !.new = goal]
    IN  [c EXCEPT !.nodes = @ \ (Voters \ VotersOf(c))]

change_membership(goal) ==
    /\ Leading
    /\ goal \subseteq config.nodes
    /\ config' = Coherent(goal)

Settled(goal) == config'.old = goal /\ config'.new = goal

add_learner(n) ==
    /\ Leading
    /\ config' = [config EXCEPT !.nodes = @ \cup {n}]

Observe ==
    /\ flaps < MaxFlaps
    /\ flaps' = flaps + 1
    /\ \E n \in Nodes \ {Leader} :
          \/ conn' = (conn \ {n}) \cup ({n} \ conn) /\ UNCHANGED acks
          \/ acks' = (acks \ {n}) \cup ({n} \ acks) /\ UNCHANGED conn
    /\ UNCHANGED <<config, fence, down, guardState, admin, ops, faults>>

-----------------------------------------------------------------------------
(* guard_tick: read the metrics, membership and acknowledgements alike, ... *)
ReadMetrics ==
    /\ tick.pc = "idle" /\ Leading
    /\ tick' = [pc |-> "captured", voters |-> Voters, nodes |-> config.nodes, acked |-> acks]
    /\ UNCHANGED <<config, fence, conn, acks, down, heal, admin, counts>>

ClearTracking ==
    /\ tick.pc = "idle" /\ ~Leading
    /\ down' = [n \in Nodes |-> -1]
    /\ UNCHANGED <<config, fence, conn, acks, guardState, admin, counts>>

Alive(n) == n \in conn \cup tick.acked

(* ... advance the down clock of every member both observers call dead and *)
(* clear the others', pick one past the timeout (the code takes the        *)
(* longest down; the clocks here saturate, so any), ...                    *)
TrackDown ==
    /\ tick.pc = "captured"
    /\ LET clock(n)  == IF n \notin tick.nodes \ {Leader} \/ Alive(n) THEN -1
                        ELSE IF down[n] < ReplaceAfter THEN down[n] + 1 ELSE down[n]
           next      == [n \in Nodes |-> clock(n)]
           expired   == {n \in Nodes : next[n] = ReplaceAfter}
       IN  /\ down' = next
           /\ \/ expired = {} /\ tick' = Resting
              \/ \E dead \in expired :
                    tick' = [pc |-> "expired", voters |-> tick.voters, nodes |-> tick.nodes,
                             acked |-> tick.acked, dead |-> dead]
    /\ UNCHANGED <<config, fence, conn, acks, heal, admin, counts>>

(* pick_promotable_learner: connected and acking before merely connected.  *)
Promotable(learners, acked) ==
    IF learners \cap conn \cap acked # {} THEN learners \cap conn \cap acked
    ELSE learners \cap conn

Spawn(change) ==
    /\ fence' = "guard"
    /\ heal' = change
    /\ tick' = Resting

(* ... and, if the fence is free, spawn the change: replace a dead voter   *)
(* by a learner, or drop a dead learner.  Voters and learners are the ones *)
(* captured at the start of the tick.                                      *)
ReplaceVoter ==
    /\ tick.pc = "expired" /\ fence = "free"
    /\ tick.dead \in tick.voters
    /\ \E learner \in Promotable(tick.nodes \ tick.voters, tick.acked) :
          Spawn([pc |-> "change", dead |-> tick.dead, nodes |-> tick.nodes,
                 goal |-> (tick.voters \ {tick.dead}) \cup {learner}])
    /\ UNCHANGED <<config, conn, acks, down, admin, counts>>

RemoveLearner ==
    /\ tick.pc = "expired" /\ fence = "free"
    /\ tick.dead \notin tick.voters
    /\ Spawn([pc |-> "remove", dead |-> tick.dead, nodes |-> tick.nodes, goal |-> {}])
    /\ UNCHANGED <<config, conn, acks, down, admin, counts>>

(* Busy fence, or no connected learner: the clocks are kept.               *)
DeferAction ==
    /\ tick.pc = "expired"
    /\ \/ fence # "free"
       \/ tick.dead \in tick.voters /\ Promotable(tick.nodes \ tick.voters, tick.acked) = {}
    /\ tick' = Resting
    /\ UNCHANGED <<config, fence, conn, acks, down, heal, admin, counts>>

GuardTick == ReadMetrics \/ ClearTracking \/ TrackDown \/ ReplaceVoter \/ RemoveLearner \/ DeferAction

(* execute_membership_change *)
HealChange ==
    /\ heal.pc = "change"
    /\ change_membership(heal.goal)
    /\ heal' = IF Settled(heal.goal) THEN [heal EXCEPT !.pc = "backfill"] ELSE heal
    /\ UNCHANGED <<fence, conn, acks, down, tick, admin, counts>>

HealRemove ==
    /\ heal.pc = "remove"
    /\ Leading /\ heal.dead \in Learners
    /\ config' = [config EXCEPT !.nodes = @ \ {heal.dead}]
    /\ heal' = [heal EXCEPT !.pc = "backfill"]
    /\ UNCHANGED <<fence, conn, acks, down, tick, admin, counts>>

SpareWorkers == (conn \ heal.nodes) \ {heal.dead}

backfill_learner ==
    /\ heal.pc = "backfill"
    /\ \/ SpareWorkers = {} /\ UNCHANGED config
       \/ \E n \in SpareWorkers : add_learner(n)
    /\ heal' = Resting /\ fence' = "free"
    /\ UNCHANGED <<conn, acks, down, tick, admin, counts>>

(* openraft rejects a call on a follower, a set with a node it does not    *)
(* know, and removing a voter or an unknown node; any call may also time   *)
(* out.  The spawned task ends and the fence is released.                  *)
HealRejected ==
    \/ ~Leading
    \/ heal.pc = "change" /\ ~(heal.goal \subseteq config.nodes)
    \/ heal.pc = "remove" /\ heal.dead \notin Learners

\* MUTANT: a failed change keeps the fence.
HealFails_fenceKept ==
    /\ heal.pc # "idle"
    /\ \/ HealRejected /\ UNCHANGED faults
       \/ ~HealRejected /\ faults < MaxFaults /\ faults' = faults + 1
    /\ heal' = Resting
    /\ UNCHANGED <<config, fence, conn, acks, down, tick, admin, flaps, ops>>

HealFails ==
    /\ heal.pc # "idle"
    /\ \/ HealRejected /\ UNCHANGED faults
       \/ ~HealRejected /\ faults < MaxFaults /\ faults' = faults + 1
    /\ heal' = Resting /\ fence' = "free"
    /\ UNCHANGED <<config, conn, acks, down, tick, admin, flaps, ops>>

Heal == HealChange \/ HealRemove \/ backfill_learner \/ HealFails

-----------------------------------------------------------------------------
(* The admin operations: take the fence, read the voters under it, then go *)
(* through add_learner, catch-up and change_membership.                    *)

Begin(a, operation) ==
    /\ admin[a].pc = "idle" /\ fence = "free" /\ ops < MaxOps
    /\ Leading
    /\ fence' = a
    /\ admin' = [admin EXCEPT ![a] = operation]
    /\ ops' = ops + 1
    /\ UNCHANGED <<config, conn, acks, down, guardState, flaps, faults>>

(* The AddLearner RPC, and add_openraft_member_to_group without promotion. *)
(* Only the latter looks whether the node votes already; adding a voter as *)
(* a learner changes nothing.                                              *)
AddLearner(a, n) ==
    Begin(a, [pc |-> "learn", op |-> "learner", node |-> n, named |-> {}])

Promotion(n) == [pc |-> "learn", op |-> "join", node |-> n, named |-> {}]

(* add_openraft_member_to_group with promotion *)
AddMember(a, n) ==
    /\ n \notin Voters
    /\ Begin(a, Promotion(n))

(* the JoinCluster RPC, which alone limits the number of voters *)
JoinCluster(a, n) ==
    /\ n \notin Voters /\ Cardinality(Voters) < MaxVoters
    /\ Begin(a, Promotion(n))

(* replace_openraft_member_in_group *)
Replace(a, m, n) ==
    /\ m \in Voters /\ n # m
    /\ Begin(a, [pc |-> "learn", op |-> "replace", node |-> n, named |-> {m},
                 goal |-> (Voters \ {m}) \cup {n}])

\* MUTANT: the last voter may be removed.
Remove_last(a, n) ==
    /\ n \in Voters
    /\ Begin(a, [pc |-> "change", op |-> "remove", node |-> n, named |-> {n},
                 goal |-> Voters \ {n}])

(* remove_openraft_member_from_group *)
Remove(a, n) ==
    /\ n \in Voters /\ Voters # {n}
    /\ Begin(a, [pc |-> "change", op |-> "remove", node |-> n, named |-> {n},
                 goal |-> Voters \ {n}])

Finish(a) == fence' = "free" /\ admin' = [admin EXCEPT ![a] = Resting]

Learn(a) ==
    /\ admin[a].pc = "learn"
    /\ add_learner(admin[a].node)
    /\ IF admin[a].op = "learner" THEN Finish(a)
       ELSE admin' = [admin EXCEPT ![a] = [@ EXCEPT !.pc = "catchup"]] /\ UNCHANGED fence
    /\ UNCHANGED <<conn, acks, down, guardState, counts>>

\* MUTANT: a join starts from the newer half of a joint configuration.
CatchUp_staleJoin(a) ==
    /\ admin[a].pc = "catchup"
    /\ admin' = [admin EXCEPT ![a] =
                   [pc |-> "change", op |-> @.op, node |-> @.node, named |-> @.named,
                    goal |-> IF @.op = "join" THEN config.new \cup {@.node} ELSE @.goal]]
    /\ UNCHANGED <<config, fence, conn, acks, down, guardState, counts>>

(* The learner caught up: a join reads the voters again, a replacement     *)
(* uses the ones it read under the fence.                                  *)
CatchUp(a) ==
    /\ admin[a].pc = "catchup"
    /\ admin' = [admin EXCEPT ![a] =
                   [pc |-> "change", op |-> @.op, node |-> @.node, named |-> @.named,
                    goal |-> IF @.op = "join" THEN Voters \cup {@.node} ELSE @.goal]]
    /\ UNCHANGED <<config, fence, conn, acks, down, guardState, counts>>

Change(a) ==
    /\ admin[a].pc = "change"
    /\ change_membership(admin[a].goal)
    /\ IF Settled(admin[a].goal) THEN Finish(a) ELSE UNCHANGED <<admin, fence>>
    /\ UNCHANGED <<conn, acks, down, guardState, counts>>

(* An openraft error, a catch-up timeout or a lost leadership: the fence   *)
(* is released where the operation stands.                                 *)
OpFails(a) ==
    /\ admin[a].pc # "idle"
    /\ \/ ~Leading /\ UNCHANGED faults
       \/ Leading /\ faults < MaxFaults /\ faults' = faults + 1
    /\ Finish(a)
    /\ UNCHANGED <<config, conn, acks, down, guardState, flaps, ops>>

AdminStep(a) == Learn(a) \/ CatchUp(a) \/ Change(a) \/ OpFails(a)

-----------------------------------------------------------------------------
Next ==
    \/ Observe \/ GuardTick \/ Heal
    \/ \E a \in Admins :
          \/ AdminStep(a)
          \/ \E n \in Nodes : \/ AddLearner(a, n) \/ AddMember(a, n) \/ JoinCluster(a, n) \/ Remove(a, n)
                              \/ \E m \in Nodes : Replace(a, m, n)

MemberSpec == Init /\ [][Next]_memberVars

(* The guard task ticks for as long as this node leads; an operation that  *)
(* started runs on.                                                        *)
FairMemberSpec ==
    /\ MemberSpec
    /\ WF_memberVars(GuardTick) /\ WF_memberVars(Heal)
    /\ \A a \in Admins : WF_memberVars(AdminStep(a))

-----------------------------------------------------------------------------
(* Every variable has its type; no set of voters is ever empty.            *)
MemberTypeOK ==
    /\ config.old \subseteq Nodes /\ config.new \subseteq Nodes /\ config.nodes \subseteq Nodes
    /\ config.old # {} /\ config.new # {}
    /\ fence \in Admins \cup {"free", "guard"}
    /\ conn \subseteq Nodes /\ acks \subseteq Nodes
    /\ down \in [Nodes -> -1 .. ReplaceAfter]
    /\ tick.pc \in {"idle", "captured", "expired"}
    /\ heal.pc \in {"idle", "change", "remove", "backfill"}
    /\ \A a \in Admins : admin[a].pc \in {"idle", "learn", "catchup", "change"}
    /\ flaps \in 0 .. MaxFlaps /\ ops \in 0 .. MaxOps /\ faults \in 0 .. MaxFaults

(* An admin operation takes the vote only from the node it names, whatever *)
(* half-finished change it starts from and whatever the guard did before.  *)
AdminRemovesOnlyNamed ==
    [][\A a \in Admins : admin'[a] # admin[a] \/ fence = a =>
          Voters \ Voters' \subseteq (IF admin[a].pc = "idle" THEN {} ELSE admin[a].named)]_memberVars

(* A voter both observers keep calling dead is replaced in the end, when   *)
(* there is always a connected learner to promote.                         *)
DeadVoterIsReplaced ==
    \A d \in Nodes \ {Leader} :
        <>[](Leading /\ d \notin conn \cup acks /\ Learners \cap conn # {}) => []<>(d \notin Voters)

(* What the guard's documentation says of a replacement: the change        *)
(* removes the dead voter and promotes the learner, nothing else.          *)
GuardRemovesOnlyDead ==
    [][heal' # heal \/ fence = "guard" =>
          Voters \ Voters' \subseteq (IF heal.pc = "idle" THEN {} ELSE {heal.dead})]_memberVars

-----------------------------------------------------------------------------
(* Why these hold: the inductive invariant.                                *)

Configs == [old : SUBSET Nodes, new : SUBSET Nodes, nodes : SUBSET Nodes]

Ticks ==
    [pc : {"captured"}, voters : SUBSET Nodes, nodes : SUBSET Nodes, acked : SUBSET Nodes]
    \cup [pc : {"expired"}, voters : SUBSET Nodes, nodes : SUBSET Nodes, acked : SUBSET Nodes,
          dead : Nodes]

Heals ==
    [pc : {"change", "remove", "backfill"}, dead : Nodes, nodes : SUBSET Nodes, goal : SUBSET Nodes]

(* Operations that have no goal yet, and those that have one.              *)
Additions ==
    [pc : {"learn"}, op : {"learner"}, node : Nodes, named : SUBSET Nodes]
    \cup [pc : {"learn", "catchup"}, op : {"join"}, node : Nodes, named : SUBSET Nodes]
Changes   ==
    [pc : {"learn", "catchup", "change"}, op : {"join", "replace", "remove"},
     node : Nodes, named : SUBSET Nodes, goal : SUBSET Nodes]

(* Every voter is a known member, also in a joint set.                     *)
VotersAreMembers == Voters \subseteq config.nodes

RecordsFit ==
    /\ config \in Configs
    /\ tick \in {Resting} \cup Ticks /\ heal \in {Resting} \cup Heals
    /\ admin \in [Admins -> {Resting} \cup Additions \cup Changes]

(* The fence is held by whoever has a change under way, and by one only.   *)
FenceIsHeld ==
    /\ heal.pc # "idle" <=> fence = "guard"
    /\ \A a \in Admins : admin[a].pc # "idle" <=> fence = a

(* No goal is empty, and an operation's goal leaves out no voter but the   *)
(* ones it names: nobody else changed the voters since it was computed.    *)
GoalsAreFresh ==
    /\ heal.pc = "change" => heal.goal # {}
    /\ \A a \in Admins :
          admin[a].pc # "idle" /\ (admin[a].pc = "change" \/ admin[a].op \notin {"learner", "join"}) =>
            /\ admin[a] \in Changes /\ admin[a].goal # {}
            /\ Voters \ admin[a].goal \subseteq admin[a].named

MemberInv ==
    MemberTypeOK /\ VotersAreMembers /\ RecordsFit /\ FenceIsHeld /\ GoalsAreFresh
=============================================================================
