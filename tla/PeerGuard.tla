------------------------------ MODULE PeerGuard ------------------------------
(***************************************************************************)
(* The guard on outbound RPCs (network/peer_guard.rs) and the wrapper that *)
(* runs one RPC under it (`guarded` in network/transport.rs): a bulkhead   *)
(* and a circuit breaker per (protocol, peer) key, one bulkhead shared by  *)
(* all keys.  Callers run on several threads and the circuit is a pair of  *)
(* atomics, so every atomic access is a step of its own.                   *)
(***************************************************************************)
EXTENDS Integers, FiniteSets

CONSTANTS
    Keys,           \* (RpcKind, PeerId) pairs
    Callers,        \* concurrent calls of `guarded`
    PerPeerMax,     \* PER_PEER_MAX_CONCURRENT_RPCS
    GlobalMax,      \* global_max_concurrent_rpcs()
    Threshold,      \* CIRCUIT_BREAKER_FAILURE_THRESHOLD
    OpenDuration,   \* CIRCUIT_BREAKER_OPEN_DURATION, in ticks
    MaxNow          \* bound: the clock stops here

ASSUME PeerGuardAssumption ==
    /\ IsFiniteSet(Callers)
    /\ PerPeerMax \in Nat \ {0} /\ GlobalMax \in Nat \ {0}
    /\ Threshold \in Nat \ {0} /\ OpenDuration \in Nat \ {0}
    /\ MaxNow \in Nat

VARIABLES
    now,        \* milliseconds since the guard was created
    bulkhead,   \* free permits of each key's semaphore
    global,     \* free permits of the shared semaphore
    failures,   \* consecutive_failures
    open_until, \* open_until_ms; 0 = closed, in the past = half-open
    rpc         \* each caller's program counter and locals

guardVars == <<now, bulkhead, global, failures, open_until, rpc>>

(* Where a caller can be.  The last four are inside record_success or      *)
(* record_failure, between two atomic accesses.                            *)
Holding == {"inflight", "closing", "counting", "tripping", "resetting"}
Steps == {"idle", "checking", "admitted"} \cup Holding

Rpcs(K) == [pc: Steps, key: K, seen: Nat, half_open: BOOLEAN, open_at: Nat]

HasSlot(c, k) == rpc[c].pc \in Holding \cup {"admitted"} /\ rpc[c].key = k
HasGlobal(c)  == rpc[c].pc \in Holding

SlotHolders(k) == {c \in Callers : HasSlot(c, k)}
GlobalHolders  == {c \in Callers : HasGlobal(c)}

AtRest(k) == [pc |-> "idle", key |-> k, seen |-> 0, half_open |-> FALSE, open_at |-> 0]

Init ==
    /\ now = 0
    /\ bulkhead = [k \in Keys |-> PerPeerMax]
    /\ global = GlobalMax
    /\ failures = [k \in Keys |-> 0]
    /\ open_until = [k \in Keys |-> 0]
    /\ rpc \in [Callers -> {AtRest(k) : k \in Keys}]

Goto(c, step) == [rpc EXCEPT ![c] = [@ EXCEPT !.pc = step]]
Return(c)     == [rpc EXCEPT ![c] = AtRest(@.key)]

(* Dropping a permit gives back its slot, and the global one once held.    *)
ReleaseSlot(c) == bulkhead' = [bulkhead EXCEPT ![rpc[c].key] = @ + 1]

Drop(c) ==
    /\ ReleaseSlot(c)
    /\ global' = global + 1
    /\ rpc' = Return(c)

-----------------------------------------------------------------------------
(* try_acquire *)

LoadCircuit(c, k) ==
    /\ rpc[c].pc = "idle"
    /\ rpc' = [rpc EXCEPT ![c] = [@ EXCEPT !.pc = "checking", !.key = k,
                                           !.seen = open_until[k]]]
    /\ UNCHANGED <<now, bulkhead, global, failures, open_until>>

CircuitOpen(c) == rpc[c].seen # 0 /\ now < rpc[c].seen

RejectOpen(c) ==
    /\ rpc[c].pc = "checking" /\ CircuitOpen(c)
    /\ rpc' = Return(c)
    /\ UNCHANGED <<now, bulkhead, global, failures, open_until>>

\* MUTANT: the slot is taken without a free permit.
AcquireSlot_unchecked(c) ==
    /\ rpc[c].pc = "checking" /\ ~CircuitOpen(c)
    /\ bulkhead' = [bulkhead EXCEPT ![rpc[c].key] = @ - 1]
    /\ rpc' = Goto(c, "admitted")
    /\ UNCHANGED <<now, global, failures, open_until>>

AcquireSlot(c) ==
    /\ rpc[c].pc = "checking" /\ ~CircuitOpen(c)
    /\ bulkhead[rpc[c].key] > 0
    /\ bulkhead' = [bulkhead EXCEPT ![rpc[c].key] = @ - 1]
    /\ rpc' = Goto(c, "admitted")
    /\ UNCHANGED <<now, global, failures, open_until>>

BulkheadFull(c) ==
    /\ rpc[c].pc = "checking" /\ ~CircuitOpen(c)
    /\ bulkhead[rpc[c].key] = 0
    /\ rpc' = Return(c)
    /\ UNCHANGED <<now, bulkhead, global, failures, open_until>>

(* The permit is stamped with the instant the circuit would stay open      *)
(* until; the clock is read here, not when the RPC fails.                  *)
AcquireGlobal(c) ==
    /\ rpc[c].pc = "admitted"
    /\ global > 0
    /\ global' = global - 1
    /\ rpc' = [rpc EXCEPT ![c] = [@ EXCEPT !.pc = "inflight",
                                           !.open_at = now + OpenDuration]]
    /\ UNCHANGED <<now, bulkhead, failures, open_until>>

\* MUTANT: the key's permit is forgotten on the early return.
GlobalLimitFull_leaking(c) ==
    /\ rpc[c].pc = "admitted"
    /\ global = 0
    /\ rpc' = Return(c)
    /\ UNCHANGED <<now, bulkhead, global, failures, open_until>>

(* The early return drops the key's permit taken just before.              *)
GlobalLimitFull(c) ==
    /\ rpc[c].pc = "admitted"
    /\ global = 0
    /\ ReleaseSlot(c)
    /\ rpc' = Return(c)
    /\ UNCHANGED <<now, global, failures, open_until>>

-----------------------------------------------------------------------------
(* The RPC itself: an answer, an error, or the caller drops the future at  *)
(* the await and nothing is recorded.                                      *)

Cancel(c) ==
    /\ rpc[c].pc = "inflight"
    /\ Drop(c)
    /\ UNCHANGED <<now, failures, open_until>>

(* record_success: two stores. *)
record_success(c) ==
    /\ rpc[c].pc = "inflight"
    /\ failures' = [failures EXCEPT ![rpc[c].key] = 0]
    /\ rpc' = Goto(c, "closing")
    /\ UNCHANGED <<now, bulkhead, global, open_until>>

CloseCircuit(c) ==
    /\ rpc[c].pc = "closing"
    /\ open_until' = [open_until EXCEPT ![rpc[c].key] = 0]
    /\ Drop(c)
    /\ UNCHANGED <<now, failures>>

(* record_failure: a load, a fetch_add, then two stores if it trips. *)
record_failure(c) ==
    /\ rpc[c].pc = "inflight"
    /\ rpc' = [rpc EXCEPT ![c] = [@ EXCEPT !.pc = "counting",
                                    !.half_open = open_until[rpc[c].key] # 0]]
    /\ UNCHANGED <<now, bulkhead, global, failures, open_until>>

\* MUTANT: one failure too late.
Trips_offByOne(c) == rpc[c].half_open \/ failures[rpc[c].key] + 1 > Threshold

Trips(c) == rpc[c].half_open \/ failures[rpc[c].key] + 1 >= Threshold

CountFailure(c) ==
    /\ rpc[c].pc = "counting"
    /\ failures' = [failures EXCEPT ![rpc[c].key] = @ + 1]
    /\ \/ /\ Trips(c)
          /\ rpc' = Goto(c, "tripping")
          /\ UNCHANGED <<bulkhead, global>>
       \/ /\ ~Trips(c)
          /\ Drop(c)
    /\ UNCHANGED <<now, open_until>>

\* MUTANT: the cooldown is added to the old deadline.
OpenCircuit_extending(c) ==
    /\ rpc[c].pc = "tripping"
    /\ open_until' = [open_until EXCEPT ![rpc[c].key] = @ + OpenDuration]
    /\ rpc' = Goto(c, "resetting")
    /\ UNCHANGED <<now, bulkhead, global, failures>>

OpenCircuit(c) ==
    /\ rpc[c].pc = "tripping"
    /\ open_until' = [open_until EXCEPT ![rpc[c].key] = rpc[c].open_at]
    /\ rpc' = Goto(c, "resetting")
    /\ UNCHANGED <<now, bulkhead, global, failures>>

ResetFailures(c) ==
    /\ rpc[c].pc = "resetting"
    /\ failures' = [failures EXCEPT ![rpc[c].key] = 0]
    /\ Drop(c)
    /\ UNCHANGED <<now, open_until>>

Tick ==
    /\ now < MaxNow
    /\ now' = now + 1
    /\ UNCHANGED <<bulkhead, global, failures, open_until, rpc>>

-----------------------------------------------------------------------------
Call(c) ==
    \/ \E k \in Keys : LoadCircuit(c, k)
    \/ RejectOpen(c) \/ AcquireSlot(c) \/ BulkheadFull(c)
    \/ AcquireGlobal(c) \/ GlobalLimitFull(c)
    \/ Cancel(c) \/ record_success(c) \/ CloseCircuit(c)
    \/ record_failure(c) \/ CountFailure(c)
    \/ OpenCircuit(c) \/ ResetFailures(c)

Next == Tick \/ \E c \in Callers : Call(c)

GuardSpec == Init /\ [][Next]_guardVars

-----------------------------------------------------------------------------
(* Every variable has its type; a free-permit count never goes below zero. *)
GuardTypeOK ==
    /\ now \in 0 .. MaxNow
    /\ bulkhead \in [Keys -> Nat]
    /\ global \in Nat
    /\ failures \in [Keys -> Nat]
    /\ open_until \in [Keys -> Nat]
    /\ rpc \in [Callers -> Rpcs(Keys)]

(* No path through try_acquire, the outcome recording or a cancelled call  *)
(* leaks or invents a permit: free permits and holders always add up, for  *)
(* each key's bulkhead and for the shared one.                             *)
PermitsConserved ==
    /\ \A k \in Keys : bulkhead[k] + Cardinality(SlotHolders(k)) = PerPeerMax
    /\ global + Cardinality(GlobalHolders) = GlobalMax

(* A failure streak that reached the threshold is always being acted on:   *)
(* however record_success and record_failure of several callers overlap,   *)
(* the count is at the threshold only while some caller is opening that    *)
(* circuit.                                                                *)
StreakIsActedOn ==
    \A k \in Keys :
        failures[k] >= Threshold =>
            \E c \in Callers : rpc[c].key = k /\ rpc[c].pc \in {"tripping", "resetting"}

(* An open circuit never outlasts one cooldown from now, however stale the *)
(* failure that opened it: a peer is locked out for at most OpenDuration.  *)
OpenIsBounded == \A k \in Keys : open_until[k] <= now + OpenDuration

(* What OpenIsBounded rests on: the stamps that in-flight permits carry.   *)
StampsAreBounded == \A c \in Callers : rpc[c].open_at <= now + OpenDuration

GuardInv ==
    GuardTypeOK /\ PermitsConserved /\ StreakIsActedOn /\ OpenIsBounded /\ StampsAreBounded

=============================================================================
