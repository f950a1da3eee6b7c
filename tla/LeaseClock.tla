------------------------------ MODULE LeaseClock ------------------------------
(***************************************************************************)
(* Time in the life of one worker: its lease renewals                      *)
(* (run_lease_renewal, tasks/worker.rs), the runtime configuration they    *)
(* read (apply_patch, runtime_config.rs), and what the scheduler of the    *)
(* leader makes of the lease and of its own connections (worker_view,      *)
(* tasks/scheduler.rs).                                                    *)
(*                                                                         *)
(* Instants are kept as distances from now: how long a lease still runs,   *)
(* how long the worker still sleeps, how long the worker has been dark.    *)
(* Tick lets one unit of time pass and waits for what is due.              *)
(***************************************************************************)
EXTENDS Integers, FiniteSets, FiniteSetsExt

CONSTANTS
  Patchers,     \* concurrent POST /config requests
  Patches,      \* [interval, ttl], a field being Keep when the patch omits it
  InitConfig,   \* [interval, ttl] from the command line
  MaxTtl,       \* no ttl, configured or patched, is greater
  MaxDelay,     \* a submission is applied or lost within this time
  MaxLag,       \* how far the leader's local data may be behind
  MaxMisses,    \* renewal rounds in a row that may fail
  PassEvery,    \* SCHEDULER_FALLBACK_SECS
  Grace,        \* WORKER_DISCONNECT_GRACE_SECS
  MaxLate,      \* bound: copies of a renewal that nobody waits for
  MaxPatches,   \* bound: patches accepted
  MaxTurns,     \* bound: crashes and changes of leader
  Keep, None

Configs == [interval : Nat, ttl : 0 .. MaxTtl]

ASSUME ClockAssumption ==
  /\ InitConfig \in Configs /\ 0 < InitConfig.interval /\ InitConfig.interval < InitConfig.ttl
  /\ Patches \subseteq [interval : Nat \cup {Keep}, ttl : (0 .. MaxTtl) \cup {Keep}]
  /\ {MaxTtl, MaxDelay, MaxLag, MaxMisses, PassEvery, Grace, MaxLate, MaxPatches, MaxTurns} \subseteq Nat
  /\ Keep \notin Nat /\ None \notin Int

VARIABLES
  config,    \* RUNTIME_CONFIG of the worker's process
  patcher,   \* the patch each request validated and has yet to store
  low, high, \* history: the least ttl and the greatest interval configured so far
  patches,   \* history: patches accepted
  worker,    \* the renewal loop: pc, config captured, wait, lease submitted, missed rounds
  late,      \* copies of renewals still under way, with their age
  lease,     \* how long the applied lease runs, -1 once expired; None without one
  before,    \* leases replaced not longer than MaxLag ago, with their age
  since,     \* history: time since the first lease of this incarnation, up to MaxLag + 1
  dead,      \* history: how long the worker has been down, None when up
  down,      \* down_since of the worker, as a duration; None when absent
  dark,      \* history: time since the scheduler last had news of the worker or started
  passed,    \* time since the last scheduler pass
  verdict,   \* what that pass made of the worker
  turns      \* history: crashes and changes of leader

configVars == <<config, patcher, low, high, patches>>
workerVars == <<worker, late, lease, before, since, dead>>
schedVars  == <<down, dark, passed, verdict>>
clockVars  == <<configVars, workerVars, schedVars, turns>>

DeadBound == MaxTtl + PassEvery + 1

(* A round of the loop starts by reading the configuration.                *)
Round(cfg, missed) ==
  [pc |-> "sleep", captured |-> cfg, wait |-> cfg.interval, left |-> 0, missed |-> missed]

Init ==
  /\ config = InitConfig /\ patcher = [p \in Patchers |-> None]
  /\ low = InitConfig.ttl /\ high = InitConfig.interval /\ patches = 0
  /\ worker = Round(InitConfig, 0) /\ late = {} /\ lease = None /\ before = {}
  /\ since = None /\ dead = None
  /\ down = None /\ dark = 0 /\ passed = 0 /\ verdict = "none"
  /\ turns = 0

-----------------------------------------------------------------------------
(* apply_patch: validate against current(), then store with rcu.  Another  *)
(* patch may be stored in between, and the result then have an interval    *)
(* that is not below its ttl.                                              *)
Patched(patch, cfg) ==
  [interval |-> IF patch.interval = Keep THEN cfg.interval ELSE patch.interval,
   ttl      |-> IF patch.ttl = Keep THEN cfg.ttl ELSE patch.ttl]

Valid(patch, cfg) ==
  /\ patch.interval # Keep => patch.interval >= 1
  /\ Patched(patch, cfg).ttl > Patched(patch, cfg).interval

Validate(p, patch) ==
  /\ dead = None /\ patcher[p] = None /\ patches < MaxPatches
  /\ Valid(patch, config)
  /\ patcher' = [patcher EXCEPT ![p] = patch]
  /\ patches' = patches + 1
  /\ UNCHANGED <<config, low, high, workerVars, schedVars, turns>>

Store(p) ==
  /\ dead = None /\ patcher[p] # None
  /\ config' = Patched(patcher[p], config)
  /\ low' = Min({low, config'.ttl}) /\ high' = Max({high, config'.interval})
  /\ patcher' = [patcher EXCEPT ![p] = None]
  /\ UNCHANGED <<patches, workerVars, schedVars, turns>>

-----------------------------------------------------------------------------
(* run_lease_renewal                                                       *)

\* MUTANT: the expiry is computed before the sleep.
Granted_early == worker.captured.ttl - worker.captured.interval

(* expires_at, relative to the moment of waking up.                        *)
Granted == worker.captured.ttl

Wake ==
  /\ dead = None /\ worker.pc = "sleep" /\ worker.wait = 0
  /\ worker' = [worker EXCEPT !.pc = "submit", !.left = Granted]
  /\ UNCHANGED <<configVars, late, lease, before, since, dead, schedVars, turns>>

(* While it submits, worker.left is how long the submitted lease will run, *)
(* worker.wait how long the submission has taken.                          *)
Submitting == dead = None /\ worker.pc \in {"submit", "applied"}
Copy == [left |-> worker.left, age |-> worker.wait]

(* apply_worker_lease overwrites whatever lease there is.                  *)
ApplyLease(left) ==
  /\ lease' = left
  /\ before' = IF lease = None THEN before ELSE before \cup {[left |-> lease, age |-> 0]}

(* The state machine applies the renewal; its reply is still under way.    *)
Applied ==
  /\ dead = None /\ worker.pc = "submit"
  /\ ApplyLease(worker.left)
  /\ worker' = [worker EXCEPT !.pc = "applied"]
  /\ UNCHANGED <<configVars, late, since, dead, schedVars, turns>>

(* The reply arrives, and the next round starts from there; a second copy  *)
(* of the command may be under way.                                        *)
Renewed ==
  /\ dead = None /\ worker.pc = "applied"
  /\ late' \in {late, late \cup {Copy}}
  /\ Cardinality(late') <= MaxLate
  /\ since' = IF since = None THEN 0 ELSE since
  /\ worker' = Round(config, 0)
  /\ UNCHANGED <<configVars, lease, before, dead, schedVars, turns>>

(* No answer comes back; the command may have been applied, or be yet.     *)
Missed ==
  /\ Submitting /\ worker.missed < MaxMisses
  /\ late' \in {late, late \cup {Copy}}
  /\ Cardinality(late') <= MaxLate
  /\ worker' = Round(config, worker.missed + 1)
  /\ UNCHANGED <<configVars, lease, before, since, dead, schedVars, turns>>

(* A copy that nobody waits for is applied, or lost.                       *)
LateCopy(m) ==
  /\ late' = late \ {m}
  /\ ApplyLease(m.left)
  /\ UNCHANGED <<configVars, worker, since, dead, schedVars, turns>>

(* The process dies; its configuration goes with it.                       *)
Crash ==
  /\ dead = None /\ turns < MaxTurns /\ turns' = turns + 1
  /\ dead' = 0 /\ since' = None
  /\ \/ late' = late
     \/ Submitting /\ late' = late \cup {Copy} /\ Cardinality(late') <= MaxLate
  /\ worker' = Round(InitConfig, 0)
  /\ config' = InitConfig /\ patcher' = [p \in Patchers |-> None]
  /\ UNCHANGED <<low, high, patches, lease, before, schedVars>>

Restart ==
  /\ dead # None /\ dead' = None
  /\ UNCHANGED <<configVars, worker, late, lease, before, since, schedVars, turns>>

-----------------------------------------------------------------------------
(* worker_view, on a lease read from the leader's local data.              *)
Readable == {lease} \cup {b.left : b \in before}

\* MUTANT: a worker that is alive is kept although its lease expired.
View_aliveFirst(left, alive) ==
  IF left = None THEN [down |-> None, verdict |-> "none"]
  ELSE IF alive THEN [down |-> None, verdict |-> "kept"]
  ELSE IF left < 0 THEN [down |-> None, verdict |-> "expired"]
  ELSE LET d == IF down = None THEN 0 ELSE down
       IN  [down |-> d, verdict |-> IF d < Grace THEN "kept" ELSE "dark"]

\* MUTANT: the disconnect clock survives the lease.
View_clockSurvives(left, alive) ==
  IF left = None THEN [down |-> None, verdict |-> "none"]
  ELSE IF left < 0 THEN [down |-> down, verdict |-> "expired"]
  ELSE IF alive THEN [down |-> None, verdict |-> "kept"]
  ELSE LET d == IF down = None THEN 0 ELSE down
       IN  [down |-> d, verdict |-> IF d < Grace THEN "kept" ELSE "dark"]

View(left, alive) ==
  IF left = None THEN [down |-> None, verdict |-> "none"]
  ELSE IF left < 0 THEN [down |-> None, verdict |-> "expired"]
  ELSE IF alive THEN [down |-> None, verdict |-> "kept"]
  ELSE LET d == IF down = None THEN 0 ELSE down
       IN  [down |-> d, verdict |-> IF d < Grace THEN "kept" ELSE "dark"]

Pass(left, alive) ==
  /\ left \in Readable
  /\ down' = View(left, alive).down /\ verdict' = View(left, alive).verdict
  /\ dark' = IF left = None \/ left < 0 \/ alive THEN 0 ELSE dark
  /\ passed' = 0
  /\ UNCHANGED <<configVars, workerVars, turns>>

(* Another node leads; its run_task_scheduler starts with an empty map.    *)
NewLeader ==
  /\ turns < MaxTurns /\ turns' = turns + 1
  /\ down' = None /\ dark' = 0 /\ passed' = 0 /\ verdict' = "none"
  /\ UNCHANGED <<configVars, workerVars>>

-----------------------------------------------------------------------------
Less(d)      == IF d \in {None, -1} THEN d ELSE d - 1
More(d, cap) == IF d \in {None, cap} THEN d ELSE d + 1
Older(S, cap) == {[left |-> Less(m.left), age |-> m.age + 1] : m \in {x \in S : x.age < cap}}

(* A tick waits for what is due: the end of the worker's sleep, the answer *)
(* to its submission, the scheduler's pass.                                *)
Tick ==
  /\ dead = None => IF worker.pc = "sleep" THEN worker.wait > 0 ELSE worker.wait < MaxDelay
  /\ passed < PassEvery
  /\ worker' = IF dead # None THEN worker
               ELSE IF worker.pc = "sleep" THEN [worker EXCEPT !.wait = @ - 1]
               ELSE [worker EXCEPT !.left = Less(@), !.wait = @ + 1]
  /\ late' = Older(late, MaxDelay) /\ before' = Older(before, MaxLag)
  /\ lease' = Less(lease)
  /\ since' = More(since, MaxLag + 1) /\ dead' = More(dead, DeadBound)
  /\ down' = More(down, Grace) /\ dark' = More(dark, Grace) /\ passed' = passed + 1
  /\ UNCHANGED <<configVars, verdict, turns>>

Next ==
  \/ \E p \in Patchers : Store(p) \/ \E patch \in Patches : Validate(p, patch)
  \/ Wake \/ Applied \/ Renewed \/ Missed \/ Crash \/ Restart \/ NewLeader \/ Tick
  \/ \E m \in late : LateCopy(m)
  \/ \E left \in Readable, alive \in BOOLEAN : Pass(left, alive)

ClockSpec == Init /\ [][Next]_clockVars

-----------------------------------------------------------------------------
(* Properties                                                              *)

(* How long a lease must run for a worker to miss MaxMisses rounds: the    *)
(* rounds, the lag of the reader, and twice the delay of a submission,     *)
(* because the next round starts when the reply comes, and until then an   *)
(* older copy may have overwritten the lease.                              *)
Needed == (MaxMisses + 1) * (high + MaxDelay) + 2 * MaxDelay + MaxLag

(* If the shortest ttl ever configured leaves that room for the longest    *)
(* interval, no scheduler ever sees the lease of a running worker expired, *)
(* whatever is patched, lost, repeated or read late.                       *)
LiveIsKept ==
  low >= Needed /\ dead = None /\ since = MaxLag + 1 => \A left \in Readable : left >= 0

(* "Lease expiry remains the authoritative kill signal": the work of a     *)
(* worker that stays down is released within one ttl and one pass of the   *)
(* scheduler, whatever this leader believes of its connection and however  *)
(* late the worker's last renewals are applied.                            *)
DeadIsReleased == dead = DeadBound => verdict # "kept"

(* A worker with a fresh lease is given up only after it was dark for the  *)
(* whole grace under this scheduler; neither an earlier disconnect nor an  *)
(* earlier leader's clock shortens it.                                     *)
GraceIsFull == verdict = "dark" => dark = Grace

-----------------------------------------------------------------------------
(* Why they hold: the inductive invariant.                                 *)

ConfigInv ==
  /\ config \in Configs /\ config.interval >= 1
  /\ patcher \in [Patchers -> {None} \cup Patches]
  /\ \A p \in Patchers : patcher[p] # None => patcher[p].interval # 0

(* low and high bound every configuration in use, the one a crashed worker *)
(* starts again with too.                                                  *)
Within(cfg) == cfg \in Configs /\ low <= cfg.ttl /\ cfg.interval <= high
RangeInv ==
  low \in Nat /\ high \in Nat /\ Within(config) /\ Within(InitConfig) /\ Within(worker.captured)

(* A lease on its way runs for the ttl it was granted less its age, and a  *)
(* worker that is down has sent none since.                                *)
Down == IF dead = None THEN 0 ELSE dead
RunsFor(left, age, least) ==
  left \in Int /\ left >= least - age /\ (left = -1 \/ left + age <= MaxTtl)

SendInv ==
  /\ worker \in [pc : {"sleep", "submit", "applied"}, captured : Configs, wait : Nat, left : Int,
                 missed : 0 .. MaxMisses]
  /\ worker.pc = "sleep" => worker.wait <= worker.captured.interval
  /\ worker.pc # "sleep" =>
       dead = None /\ worker.wait <= MaxDelay /\ RunsFor(worker.left, worker.wait, low)
  /\ late \subseteq [left : Int, age : 0 .. MaxDelay]
  /\ \A m \in late : RunsFor(m.left, m.age, low) /\ Down <= m.age

(* A lease that can be read has run down while the worker was down.        *)
Spent(left, time) == left = -1 \/ left + time <= MaxTtl

(* A lease has run for no longer than MaxDelay when it is applied, and at  *)
(* most as long again when the reply comes.  The time since that reply is  *)
(* at most that of the rounds missed and of this one; a lease replaced     *)
(* since the incarnation's first was still within the time of all rounds.  *)
Rounds(n, h) == n * (h + MaxDelay)
Elapsed(w, h) == Rounds(w.missed, h) + (IF w.pc = "sleep" THEN h - w.wait ELSE h + w.wait)

LeaseInv ==
  /\ lease \in Int \cup {None} /\ (lease # None => Spent(lease, Down))
  /\ before \subseteq [left : Int, age : 0 .. MaxLag] /\ \A b \in before : Spent(b.left, Down)
  /\ since \in {None} \cup 0 .. MaxLag + 1 /\ dead \in {None} \cup 0 .. DeadBound
  /\ since # None =>
       /\ dead = None /\ lease # None /\ lease + Elapsed(worker, high) >= low - 2 * MaxDelay
       /\ \A b \in before : b.age < since =>
            b.left + b.age + Rounds(MaxMisses + 1, high) >= low - 2 * MaxDelay
  /\ worker.pc = "applied" => lease # None /\ lease + worker.wait >= low - MaxDelay

(* The disconnect clock started when the scheduler last had news or later; *)
(* a worker kept was so by a lease that ran at the last pass.              *)
SchedInv ==
  /\ down \in {None} \cup 0 .. Grace /\ dark \in 0 .. Grace /\ passed \in 0 .. PassEvery
  /\ down # None => down <= dark
  /\ verdict = "dark" => dark = Grace
  /\ verdict = "kept" => Down <= MaxTtl + passed

ClockInv == ConfigInv /\ RangeInv /\ SendInv /\ LeaseInv /\ SchedInv
=============================================================================
