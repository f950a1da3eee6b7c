-------------------------- MODULE LeaseClockProofs --------------------------
(***************************************************************************)
(* Proofs about LeaseClock, for every configuration, delay, lag, grace and *)
(* number of patches, crashes and changes of leader.  Each part of         *)
(* ClockInv rests on the parts before it.                                  *)
(***************************************************************************)
EXTENDS LeaseClock, TLAPS

(* The parameters are natural numbers.                                     *)
LEMMA Parameters ==
  /\ MaxTtl \in Nat /\ MaxDelay \in Nat /\ MaxLag \in Nat /\ MaxMisses \in Nat
  /\ PassEvery \in Nat /\ Grace \in Nat /\ None \notin Int /\ Keep \notin Nat
  /\ DeadBound \in Nat
  BY ClockAssumption DEF DeadBound

LEMMA LeastOfTwo ==
  ASSUME NEW a \in Nat, NEW b \in Nat
  PROVE  Min({a, b}) \in {a, b} /\ Min({a, b}) <= a /\ Min({a, b}) <= b
<1>1. \E x \in {a, b} : \A y \in {a, b} : x <= y
  BY SMT
<1> QED
  BY <1>1 DEF Min

LEMMA GreatestOfTwo ==
  ASSUME NEW a \in Nat, NEW b \in Nat
  PROVE  Max({a, b}) \in {a, b} /\ Max({a, b}) >= a /\ Max({a, b}) >= b
<1>1. \E x \in {a, b} : \A y \in {a, b} : x >= y
  BY SMT
<1> QED
  BY <1>1 DEF Max

(* The time of n rounds of at most h is linear in n ...                    *)
LEMMA RoundsMore ==
  ASSUME NEW n \in Nat, NEW h \in Nat
  PROVE  Rounds(n, h) \in Nat /\ Rounds(n + 1, h) = Rounds(n, h) + h + MaxDelay
<1>1. PICK x \in Nat : x = h + MaxDelay
  BY Parameters
<1>2. n * x \in Nat /\ (n + 1) * x = n * x + x
  BY SMT
<1> QED
  BY <1>1, <1>2, Parameters DEF Rounds

(* ... and grows with both.                                                *)
LEMMA RoundsGrow ==
  ASSUME NEW n \in Nat, NEW m \in Nat, NEW h \in Nat, NEW k \in Nat, n <= m, h <= k
  PROVE  Rounds(n, h) <= Rounds(m, k)
<1>1. PICK x \in Nat, y \in Nat, d \in Nat, e \in Nat :
        x = h + MaxDelay /\ y = k + MaxDelay /\ y = x + e /\ m = n + d
  <2>1. h + MaxDelay \in Nat /\ k + MaxDelay \in Nat /\ k - h \in Nat /\ m - n \in Nat
    BY Parameters
  <2>2. k + MaxDelay = (h + MaxDelay) + (k - h) /\ m = n + (m - n)
    BY Parameters
  <2> QED
    BY <2>1, <2>2
<1>2. /\ (n + d) * (x + e) = n * x + n * e + d * x + d * e
      /\ n * x \in Nat /\ n * e \in Nat /\ d * x \in Nat /\ d * e \in Nat
  BY SMT
<1>3. Rounds(n, h) = n * x /\ Rounds(m, k) = (n + d) * (x + e)
  BY <1>1 DEF Rounds
<1> QED
  BY <1>2, <1>3

-----------------------------------------------------------------------------
(* Which actions touch the configuration.                                  *)

LEMMA Configuring ==
  ASSUME [Next]_clockVars
  PROVE  \/ UNCHANGED configVars \/ Crash
         \/ \E p \in Patchers : Store(p) \/ \E patch \in Patches : Validate(p, patch)
  BY DEF Next, clockVars, Wake, Applied, Renewed, Missed, LateCopy, Restart, NewLeader, Tick, Pass

LEMMA PatchedTyped ==
  ASSUME NEW patch \in Patches, NEW cfg \in Configs
  PROVE  Patched(patch, cfg) \in Configs
  BY ClockAssumption DEF Patched, Configs

(* No patch makes the interval zero.                                       *)
LEMMA ConfigKeeps == ConfigInv /\ [Next]_clockVars => ConfigInv'
<1> SUFFICES ASSUME ConfigInv, [Next]_clockVars PROVE ConfigInv'
  OBVIOUS
<1>1. CASE UNCHANGED configVars
  BY <1>1 DEF ConfigInv, configVars
<1>2. CASE Crash
  <2>1. config' = InitConfig /\ patcher' = [p \in Patchers |-> None]
    BY <1>2 DEF Crash
  <2> QED
    BY <2>1, ClockAssumption DEF ConfigInv, Configs
<1>3. ASSUME NEW p \in Patchers, Store(p) PROVE ConfigInv'
  <2>1. PICK patch \in Patches : patcher[p] = patch /\ patch.interval # 0
    BY <1>3 DEF Store, ConfigInv
  <2>2. config' = Patched(patch, config) /\ patcher' = [patcher EXCEPT ![p] = None]
    BY <1>3, <2>1 DEF Store
  <2>3. config' \in Configs /\ config \in Configs /\ config.interval >= 1
    BY <2>2, PatchedTyped DEF ConfigInv
  <2>4. config'.interval # 0
    BY <2>1, <2>2, <2>3 DEF Patched
  <2>5. config'.interval >= 1
    BY <2>3, <2>4 DEF Configs
  <2>6. /\ patcher' \in [Patchers -> {None} \cup Patches]
        /\ \A q \in Patchers : patcher'[q] # None => patcher'[q].interval # 0
    BY <2>2 DEF ConfigInv
  <2> QED
    BY <2>3, <2>5, <2>6 DEF ConfigInv
<1>4. ASSUME NEW p \in Patchers, NEW patch \in Patches, Validate(p, patch) PROVE ConfigInv'
  <2>1. patch.interval # 0
    <3>1. CASE patch.interval = Keep
      BY <3>1, Parameters
    <3>2. CASE patch.interval # Keep
      BY <1>4, <3>2 DEF Validate, Valid
    <3> QED
      BY <3>1, <3>2
  <2> QED
    BY <1>4, <2>1 DEF Validate, ConfigInv
<1> QED
  BY <1>1, <1>2, <1>3, <1>4, Configuring

(* What Store does to the bounds.                                          *)
LEMMA StoreBounds ==
  ASSUME ConfigInv, RangeInv, NEW p \in Patchers, Store(p)
  PROVE  /\ low' \in Nat /\ high' \in Nat /\ low' <= low /\ high <= high'
         /\ config' \in Configs /\ low' <= config'.ttl /\ config'.interval <= high'
<1>1. PICK patch \in Patches : config' = Patched(patch, config)
  BY DEF Store, ConfigInv
<1>2. config' \in Configs
  BY <1>1, PatchedTyped DEF ConfigInv
<1>3. PICK t \in Nat, i \in Nat : config'.ttl = t /\ config'.interval = i
  BY <1>2 DEF Configs
<1>4. low' = Min({low, t}) /\ high' = Max({high, i}) /\ low \in Nat /\ high \in Nat
  BY <1>3 DEF Store, RangeInv
<1>5. low' \in {low, t} /\ low' <= low /\ low' <= t
  BY <1>4, LeastOfTwo
<1>6. high' \in {high, i} /\ high' >= high /\ high' >= i
  BY <1>4, GreatestOfTwo
<1> QED
  BY <1>2, <1>3, <1>4, <1>5, <1>6

LEMMA BoundsMove ==
  ASSUME ConfigInv, RangeInv, [Next]_clockVars
  PROVE  low' \in Nat /\ high' \in Nat /\ low' <= low /\ high <= high'
<1>1. ASSUME NEW p \in Patchers, Store(p)
      PROVE  low' \in Nat /\ high' \in Nat /\ low' <= low /\ high <= high'
  BY <1>1, StoreBounds
<1>2. CASE low' = low /\ high' = high
  BY <1>2 DEF RangeInv
<1> QED
  BY <1>1, <1>2, Configuring DEF configVars, Crash, Validate

-----------------------------------------------------------------------------
(* What every step does to the worker's loop.                              *)

Records == [pc : {"sleep", "submit", "applied"}, captured : Configs, wait : Nat, left : Int,
            missed : 0 .. MaxMisses]

(* One tick of the loop of a worker that is up.                            *)
Later(w) ==
  IF w.pc = "sleep" THEN [w EXCEPT !.wait = @ - 1]
  ELSE [w EXCEPT !.left = Less(@), !.wait = @ + 1]

(* The loop stays where it is, wakes up, has its lease applied, starts a   *)
(* round, or lets time pass.                                               *)
Loops ==
  \/ worker' = worker
  \/ Wake \/ Applied \/ Renewed \/ Missed \/ Crash
  \/ Tick /\ dead = None /\ worker' = Later(worker)

LEMMA Looping == ASSUME [Next]_clockVars PROVE Loops
  BY DEF Loops, Later, Next, clockVars, workerVars, Validate, Store, LateCopy, Restart, NewLeader,
     Tick, Pass

LEMMA LessBounds ==
  ASSUME NEW d \in Int
  PROVE  Less(d) \in Int /\ Less(d) >= d - 1 /\ (Less(d) = -1 \/ Less(d) = d - 1)
  BY Parameters DEF Less

LEMMA RoundTyped ==
  ASSUME NEW cfg \in Configs, NEW n \in 0 .. MaxMisses
  PROVE  /\ Round(cfg, n) \in Records /\ Round(cfg, n).captured = cfg
         /\ Round(cfg, n).pc = "sleep" /\ Round(cfg, n).wait = cfg.interval
         /\ Round(cfg, n).missed = n
  BY DEF Round, Records, Configs

LEMMA LaterTyped ==
  ASSUME NEW w \in Records, w.pc = "sleep" => w.wait > 0
  PROVE  /\ Later(w) \in Records /\ Later(w).pc = w.pc /\ Later(w).captured = w.captured
         /\ Later(w).missed = w.missed
         /\ w.pc = "sleep" => Later(w).wait = w.wait - 1
         /\ w.pc # "sleep" => Later(w).wait = w.wait + 1 /\ Later(w).left = Less(w.left)
<1>1. w.left \in Int /\ Less(w.left) \in Int /\ w.wait \in Nat
  BY LessBounds DEF Records
<1>2. CASE w.pc = "sleep"
  BY <1>1, <1>2 DEF Later, Records
<1>3. CASE w.pc # "sleep"
  <2>1. PICK z \in Int : z = Less(w.left)
    BY <1>1
  <2>2. PICK n \in Nat : n = w.wait + 1
    BY <1>1
  <2>3. Later(w) = [w EXCEPT !.left = z, !.wait = n]
    BY <1>3, <2>1, <2>2 DEF Later
  <2>4. Later(w) = [pc |-> w.pc, captured |-> w.captured, wait |-> n, left |-> z, missed |-> w.missed]
    BY <2>3 DEF Records
  <2>5. /\ w.pc \in {"sleep", "submit", "applied"} /\ w.captured \in Configs /\ w.missed \in 0 .. MaxMisses
    BY DEF Records
  <2>6. Later(w) \in Records
    BY <2>4, <2>5 DEF Records
  <2> QED
    BY <1>3, <2>1, <2>2, <2>4, <2>6
<1> QED
  BY <1>2, <1>3

(* The loop's record after a step: its type, and where its configuration   *)
(* comes from.                                                             *)
LEMMA LoopTyped ==
  ASSUME ConfigInv, SendInv, [Next]_clockVars
  PROVE  worker' \in Records /\ worker'.captured \in {worker.captured, config, InitConfig}
<1>1. worker \in Records /\ config \in Configs /\ InitConfig \in Configs /\ worker.missed \in Nat
  BY ClockAssumption DEF ConfigInv, SendInv, Records
<1>2. CASE worker' = worker
  BY <1>1, <1>2
<1>3. CASE Wake
  <2>1. worker.captured.ttl \in Int
    BY <1>1, Parameters DEF Records, Configs
  <2> QED
    BY <1>1, <1>3, <2>1 DEF Wake, Granted, Records
<1>4. CASE Renewed
  BY <1>1, <1>4, RoundTyped, Parameters DEF Renewed
<1>8. CASE Applied
  BY <1>1, <1>8 DEF Applied, Records
<1>5. CASE Missed
  <2>1. worker.missed + 1 \in 0 .. MaxMisses /\ worker' = Round(config, worker.missed + 1)
    BY <1>1, <1>5, Parameters DEF Missed
  <2> QED
    BY <1>1, <2>1, RoundTyped
<1>6. CASE Crash
  BY <1>1, <1>6, RoundTyped, Parameters DEF Crash
<1>7. CASE Tick /\ dead = None /\ worker' = Later(worker)
  <2>1. worker.pc = "sleep" => worker.wait > 0
    BY <1>7 DEF Tick
  <2> QED
    BY <1>1, <1>7, <2>1, LaterTyped
<1> QED
  BY <1>2, <1>3, <1>4, <1>5, <1>6, <1>7, <1>8, Looping DEF Loops

(* low and high bound the configurations after the step.                   *)
LEMMA RangeKeeps == ConfigInv /\ RangeInv /\ SendInv /\ [Next]_clockVars => RangeInv'
<1> SUFFICES ASSUME ConfigInv, RangeInv, SendInv, [Next]_clockVars PROVE RangeInv'
  OBVIOUS
<1>1. low' \in Nat /\ high' \in Nat /\ low' <= low /\ high <= high' /\ low \in Nat /\ high \in Nat
  BY BoundsMove DEF RangeInv
<1>2. ASSUME NEW cfg, Within(cfg)
      PROVE  cfg \in Configs /\ low' <= cfg.ttl /\ cfg.interval <= high'
  BY <1>1, <1>2, Parameters DEF Within, Configs
<1>3. Within(config) /\ Within(InitConfig) /\ Within(worker.captured)
  BY DEF RangeInv
<1>4. \A cfg \in {config, InitConfig, worker.captured} :
        cfg \in Configs /\ low' <= cfg.ttl /\ cfg.interval <= high'
  BY <1>2, <1>3
<1>5. config' \in Configs /\ low' <= config'.ttl /\ config'.interval <= high'
  <2>1. CASE config' \in {config, InitConfig}
    BY <1>4, <2>1
  <2>2. ASSUME NEW p \in Patchers, Store(p)
        PROVE config' \in Configs /\ low' <= config'.ttl /\ config'.interval <= high'
    BY <2>2, StoreBounds
  <2> QED
    BY <2>1, <2>2, Configuring DEF configVars, Crash, Validate
<1>6. worker'.captured \in {worker.captured, config, InitConfig}
  BY LoopTyped
<1> QED
  BY <1>1, <1>4, <1>5, <1>6 DEF RangeInv, Within

-----------------------------------------------------------------------------
(* Leases under way.                                                       *)

(* The bound on what is left of a lease survives a fall of low ...         *)
LEMMA RunsForLower ==
  ASSUME NEW left, NEW age \in Nat, NEW a \in Nat, NEW b \in Nat, RunsFor(left, age, a), b <= a
  PROVE  RunsFor(left, age, b)
  BY DEF RunsFor

(* ... and a tick.                                                         *)
LEMMA RunsForTick ==
  ASSUME NEW left, NEW age \in Nat, NEW a \in Nat, RunsFor(left, age, a)
  PROVE  RunsFor(Less(left), age + 1, a)
<1>1. left \in Int /\ left >= a - age /\ (left = -1 \/ left + age <= MaxTtl)
  BY DEF RunsFor
<1>2. PICK z \in Int : z = Less(left) /\ z >= left - 1 /\ (z = -1 \/ z = left - 1)
  BY <1>1, LessBounds
<1>3. left = -1 => z = -1
  BY <1>2 DEF Less
<1>4. z >= a - (age + 1) /\ (z = -1 \/ z + (age + 1) <= MaxTtl)
  BY <1>1, <1>2, <1>3, Parameters
<1> QED
  BY <1>2, <1>4 DEF RunsFor

LEMMA LowMoves ==
  ASSUME ConfigInv, RangeInv, [Next]_clockVars
  PROVE  low \in Nat /\ low' \in Nat /\ low' <= low
  BY BoundsMove DEF RangeInv

(* The loop's wait and the lease it submits after a step.                  *)
LEMMA SendLoop ==
  ASSUME ConfigInv, RangeInv, SendInv, [Next]_clockVars
  PROVE  /\ worker' \in Records
         /\ worker'.pc = "sleep" => worker'.wait <= worker'.captured.interval
         /\ worker'.pc # "sleep" => worker'.wait <= MaxDelay /\ RunsFor(worker'.left, worker'.wait, low')
<1> DEFINE Goal == /\ worker'.pc = "sleep" => worker'.wait <= worker'.captured.interval
                   /\ worker'.pc # "sleep" =>
                        worker'.wait <= MaxDelay /\ RunsFor(worker'.left, worker'.wait, low')
<1>1. /\ worker \in Records /\ config \in Configs /\ InitConfig \in Configs
      /\ worker.missed \in Nat /\ worker.wait \in Nat
      /\ worker.captured \in Configs /\ worker.captured.ttl \in Nat /\ worker.captured.ttl <= MaxTtl
      /\ worker.captured.interval \in Nat
  BY ClockAssumption, Parameters DEF ConfigInv, SendInv, Records, Configs
<1>2. worker' \in Records
  BY LoopTyped
<1>3. low \in Nat /\ low' \in Nat /\ low' <= low
  BY LowMoves
<1>4. CASE worker' = worker
  <2>1. worker.pc # "sleep" => RunsFor(worker.left, worker.wait, low')
    BY <1>1, <1>3, RunsForLower DEF SendInv
  <2>2. Goal
    BY <1>4, <2>1 DEF SendInv
  <2> QED
    BY <1>2, <2>2
<1>5. CASE Wake
  <2>1. /\ worker'.pc = "submit" /\ worker'.left = worker.captured.ttl /\ worker'.wait = 0
        /\ low' = low
    BY <1>1, <1>5 DEF Wake, Granted, Records, configVars
  <2>2. low <= worker.captured.ttl
    BY DEF RangeInv, Within
  <2>3. RunsFor(worker'.left, worker'.wait, low')
    BY <1>1, <1>3, <2>1, <2>2, Parameters DEF RunsFor
  <2> QED
    BY <1>2, <2>1, <2>3, Parameters
<1>6. ASSUME NEW cfg \in Configs, NEW n \in 0 .. MaxMisses, worker' = Round(cfg, n) PROVE Goal
  <2>1. worker'.pc = "sleep" /\ worker'.wait = cfg.interval /\ worker'.captured = cfg
    BY <1>6, RoundTyped
  <2> QED
    BY <2>1 DEF Configs
<1>7. CASE Renewed \/ Crash
  <2>1. worker' = Round(config, 0) \/ worker' = Round(InitConfig, 0)
    BY <1>7 DEF Renewed, Crash
  <2> QED
    BY <1>1, <1>2, <1>6, <2>1, Parameters
<1>8. CASE Missed
  <2>1. worker.missed + 1 \in 0 .. MaxMisses /\ worker' = Round(config, worker.missed + 1)
    BY <1>1, <1>8, Parameters DEF Missed
  <2> QED
    BY <1>1, <1>2, <1>6, <2>1
<1>9. CASE Tick /\ dead = None /\ worker' = Later(worker)
  <2>1. /\ worker.pc = "sleep" => worker.wait > 0
        /\ worker.pc # "sleep" => worker.wait < MaxDelay
        /\ low' = low
    BY <1>9 DEF Tick, configVars
  <2>2. /\ worker'.pc = worker.pc /\ worker'.captured = worker.captured
        /\ worker.pc = "sleep" => worker'.wait = worker.wait - 1
        /\ worker.pc # "sleep" => worker'.wait = worker.wait + 1 /\ worker'.left = Less(worker.left)
    BY <1>1, <1>9, <2>1, LaterTyped
  <2>3. CASE worker.pc = "sleep"
    BY <1>1, <1>2, <2>2, <2>3 DEF SendInv
  <2>4. CASE worker.pc # "sleep"
    <3>1. RunsFor(worker.left, worker.wait, low)
      BY <2>4 DEF SendInv
    <3>2. RunsFor(Less(worker.left), worker.wait + 1, low)
      BY <1>1, <1>3, <2>1, <3>1, RunsForTick
    <3>3. worker'.wait <= MaxDelay /\ RunsFor(worker'.left, worker'.wait, low')
      BY <1>1, <2>1, <2>2, <2>4, <3>2, Parameters DEF RunsFor
    <3> QED
      BY <1>2, <2>2, <2>4, <3>3
  <2> QED
    BY <2>3, <2>4
<1>10. CASE Applied
  <2>1. /\ worker'.pc = "applied" /\ worker.pc # "sleep" /\ low' = low
        /\ worker'.left = worker.left /\ worker'.wait = worker.wait
    BY <1>1, <1>10 DEF Applied, Records, configVars
  <2> QED
    BY <1>2, <2>1 DEF SendInv
<1> QED
  BY <1>4, <1>5, <1>7, <1>8, <1>9, <1>10, Looping DEF Loops

(* Only a worker that is up has a submission under way.                    *)
LEMMA DownSleeps ==
  ASSUME ConfigInv, SendInv, [Next]_clockVars
  PROVE  worker'.pc # "sleep" => dead' = None
<1>1. worker \in Records /\ config \in Configs /\ (worker.pc # "sleep" => dead = None)
  BY DEF ConfigInv, SendInv, Records
<1>2. CASE worker' = worker /\ dead' = dead
  BY <1>1, <1>2
<1>3. CASE Wake \/ Applied
  BY <1>3 DEF Wake, Applied
<1>4. CASE Renewed \/ Missed \/ Crash
  BY <1>4 DEF Renewed, Missed, Crash, Round
<1>5. CASE Tick
  <2>1. CASE dead = None
    BY <1>5, <2>1 DEF Tick, More
  <2>2. CASE dead # None
    BY <1>1, <1>5, <2>2 DEF Tick
  <2> QED
    BY <2>1, <2>2
<1>6. CASE Restart
  BY <1>6 DEF Restart
<1> QED
  BY <1>2, <1>3, <1>4, <1>5, <1>6 DEF Next, clockVars, workerVars, Validate, Store, LateCopy,
     NewLeader, Pass

(* How long the worker has been down after a step.                         *)
LEMMA DownMoves ==
  ASSUME LeaseInv, [Next]_clockVars
  PROVE  /\ Down \in Nat /\ Down' \in Nat /\ dead' \in {None} \cup 0 .. DeadBound
         /\ (Tick /\ Down' <= Down + 1) \/ Down' <= Down
<1>1. dead \in {None} \cup 0 .. DeadBound
  BY DEF LeaseInv
<1>2. CASE dead' = dead
  BY <1>1, <1>2, Parameters DEF Down
<1>3. CASE Crash \/ Restart
  <2>1. dead' \in {0, None}
    BY <1>3 DEF Crash, Restart
  <2>2. Down' = 0 /\ dead' \in {None} \cup 0 .. DeadBound
    BY <2>1, Parameters DEF Down
  <2>3. Down \in Nat
    BY <1>1, Parameters DEF Down
  <2> QED
    BY <2>2, <2>3
<1>4. CASE Tick
  <2>1. dead' = More(dead, DeadBound)
    BY <1>4 DEF Tick
  <2> QED
    BY <1>1, <1>4, <2>1, Parameters DEF More, Down
<1> QED
  BY <1>2, <1>3, <1>4 DEF Next, clockVars, workerVars, Validate, Store, Wake, Applied, Renewed,
     Missed, LateCopy, NewLeader, Pass

(* Which copies are under way after a step.                                *)
LEMMA CopiesMove ==
  ASSUME LeaseInv, [Next]_clockVars
  PROVE  \/ late' \subseteq late /\ Down' <= Down
         \/ late' \subseteq late \cup {Copy} /\ worker.pc # "sleep" /\ Down' = 0
         \/ Tick
<1>1. dead \in {None} \cup 0 .. DeadBound
  BY DEF LeaseInv
<1>2. CASE Renewed \/ Missed
  <2>1. late' \subseteq late \cup {Copy} /\ worker.pc # "sleep" /\ dead = None /\ dead' = dead
    BY <1>2 DEF Renewed, Missed, Submitting
  <2> QED
    BY <2>1 DEF Down
<1>3. CASE Crash
  <2>0. dead = None /\ dead' = 0
    BY <1>3 DEF Crash
  <2>1. Down' = 0 /\ Down' <= Down
    BY <2>0, Parameters DEF Down
  <2>2. late' = late \/ (worker.pc # "sleep" /\ late' = late \cup {Copy})
    BY <1>3 DEF Crash, Submitting
  <2>3. late' \subseteq late \/ (late' \subseteq late \cup {Copy} /\ worker.pc # "sleep")
    BY <2>2
  <2> QED
    BY <2>1, <2>3
<1>4. CASE dead' = dead /\ late' \subseteq late
  BY <1>1, <1>4, Parameters DEF Down
<1>5. CASE Restart
  BY <1>1, <1>5, Parameters DEF Restart, Down
<1>6. ASSUME NEW m \in late, LateCopy(m) PROVE dead' = dead /\ late' \subseteq late
  BY <1>6 DEF LateCopy
<1> QED
  BY <1>2, <1>3, <1>4, <1>5, <1>6 DEF Next, clockVars, workerVars, Validate, Store, Wake,
     Applied, NewLeader, Pass

LEMMA SendLate ==
  ASSUME ConfigInv, RangeInv, SendInv, LeaseInv, [Next]_clockVars
  PROVE  /\ late' \subseteq [left : Int, age : 0 .. MaxDelay]
         /\ \A m \in late' : RunsFor(m.left, m.age, low') /\ Down' <= m.age
<1>1. low \in Nat /\ low' \in Nat /\ low' <= low
  BY LowMoves
<1>2. Down \in Nat /\ Down' \in Nat
  BY DownMoves
<1>3. ASSUME NEW m \in late
      PROVE  /\ m \in [left : Int, age : 0 .. MaxDelay] /\ m.age \in Nat /\ Down <= m.age
             /\ RunsFor(m.left, m.age, low) /\ RunsFor(m.left, m.age, low')
  <2>1. m \in [left : Int, age : 0 .. MaxDelay] /\ RunsFor(m.left, m.age, low) /\ Down <= m.age
    BY DEF SendInv
  <2>2. m.age \in Nat
    BY <2>1, Parameters
  <2> QED
    BY <1>1, <2>1, <2>2, RunsForLower
<1>4. CASE late' \subseteq late /\ Down' <= Down
  <2> SUFFICES ASSUME NEW m \in late'
               PROVE  /\ m \in [left : Int, age : 0 .. MaxDelay]
                      /\ RunsFor(m.left, m.age, low') /\ Down' <= m.age
    OBVIOUS
  <2> QED
    BY <1>2, <1>3, <1>4
<1>5. CASE late' \subseteq late \cup {Copy} /\ worker.pc # "sleep" /\ Down' = 0
  <2>1. /\ worker.left \in Int /\ worker.wait \in 0 .. MaxDelay /\ RunsFor(worker.left, worker.wait, low)
    BY <1>5, Parameters DEF SendInv
  <2>2. RunsFor(worker.left, worker.wait, low')
    BY <1>1, <2>1, RunsForLower, Parameters
  <2>3. /\ Copy \in [left : Int, age : 0 .. MaxDelay] /\ Copy.age \in Nat
        /\ RunsFor(Copy.left, Copy.age, low')
    BY <2>1, <2>2, Parameters DEF Copy
  <2> SUFFICES ASSUME NEW m \in late'
               PROVE  /\ m \in [left : Int, age : 0 .. MaxDelay]
                      /\ RunsFor(m.left, m.age, low') /\ Down' <= m.age
    OBVIOUS
  <2> QED
    BY <1>3, <1>5, <2>3
<1>6. CASE Tick
  <2>1. late' = Older(late, MaxDelay) /\ low' = low
    BY <1>6 DEF Tick, configVars
  <2>2. Down' <= Down + 1
    BY <1>2, DownMoves
  <2> SUFFICES ASSUME NEW n \in late'
               PROVE  /\ n \in [left : Int, age : 0 .. MaxDelay]
                      /\ RunsFor(n.left, n.age, low') /\ Down' <= n.age
    OBVIOUS
  <2>3. PICK m \in late : m.age < MaxDelay /\ n = [left |-> Less(m.left), age |-> m.age + 1]
    BY <2>1 DEF Older
  <2>4. m.left \in Int /\ Less(m.left) \in Int /\ m.age + 1 \in 0 .. MaxDelay
    BY <1>3, <2>3, LessBounds, Parameters
  <2>5. RunsFor(Less(m.left), m.age + 1, low)
    BY <1>1, <1>3, RunsForTick
  <2>6. Down' <= m.age + 1
    BY <1>2, <1>3, <2>2
  <2> QED
    BY <2>1, <2>3, <2>4, <2>5, <2>6
<1> QED
  BY <1>4, <1>5, <1>6, CopiesMove

LEMMA SendKeeps == ConfigInv /\ RangeInv /\ SendInv /\ LeaseInv /\ [Next]_clockVars => SendInv'
  BY SendLoop, DownSleeps, SendLate DEF SendInv, Records

-----------------------------------------------------------------------------
(* Leases that can be read.                                                *)

LEMMA SpentMonotone ==
  ASSUME NEW left \in Int, NEW t \in Nat, NEW u \in Nat, Spent(left, t), u <= t
  PROVE  Spent(left, u)
  BY Parameters DEF Spent

LEMMA SpentTick ==
  ASSUME NEW left \in Int, NEW t \in Nat, NEW u \in Nat, Spent(left, t), u <= t + 1
  PROVE  Spent(Less(left), u)
<1>1. Less(left) \in Int /\ (Less(left) = -1 \/ Less(left) = left - 1)
  BY LessBounds
<1>2. left = -1 => Less(left) = -1
  BY DEF Less
<1> QED
  BY <1>1, <1>2, Parameters DEF Spent

LEMMA SpentOnArrival ==
  ASSUME NEW left, NEW age \in Nat, NEW least \in Nat, NEW t \in Nat,
         RunsFor(left, age, least), t <= age
  PROVE  left \in Int /\ Spent(left, t)
  BY Parameters DEF RunsFor, Spent

(* How the applied lease and those it replaced change.                     *)
LEMMA LeaseMoves ==
  ASSUME SendInv, LeaseInv, [Next]_clockVars
  PROVE  \/ lease' = lease /\ before' = before /\ Down' <= Down
         \/ /\ Down' <= Down
            /\ \E left \in Int, age \in Nat :
                 RunsFor(left, age, low) /\ age <= MaxDelay /\ Down' <= age /\ ApplyLease(left)
         \/ Tick
<1>1. Down \in Nat /\ dead \in {None} \cup 0 .. DeadBound
  BY DownMoves DEF LeaseInv
<1>2. CASE Applied
  <2>1. /\ worker.pc = "submit" /\ dead = None /\ dead' = dead /\ ApplyLease(worker.left)
    BY <1>2 DEF Applied
  <2>2. /\ worker.wait \in Nat /\ worker.wait <= MaxDelay /\ RunsFor(worker.left, worker.wait, low)
    BY <2>1 DEF SendInv
  <2>3. Down' = 0 /\ Down = 0
    BY <2>1 DEF Down
  <2>4. worker.left \in Int
    BY <2>2 DEF RunsFor
  <2> QED
    BY <2>1, <2>2, <2>3, <2>4
<1>3. ASSUME NEW m \in late, LateCopy(m)
      PROVE  /\ Down' <= Down
             /\ \E left \in Int, age \in Nat :
                  RunsFor(left, age, low) /\ age <= MaxDelay /\ Down' <= age /\ ApplyLease(left)
  <2>1. Down' = Down /\ ApplyLease(m.left)
    BY <1>3 DEF LateCopy, Down
  <2>2. /\ m.age \in Nat /\ m.age <= MaxDelay /\ RunsFor(m.left, m.age, low) /\ Down <= m.age
    BY Parameters DEF SendInv
  <2>3. m.left \in Int
    BY <2>2 DEF RunsFor
  <2> QED
    BY <1>1, <2>1, <2>2, <2>3
<1>4. CASE dead' = dead /\ lease' = lease /\ before' = before
  BY <1>1, <1>4 DEF Down
<1>5. CASE Crash
  <2>1. dead = None /\ dead' = 0 /\ lease' = lease /\ before' = before
    BY <1>5 DEF Crash
  <2> QED
    BY <2>1, Parameters DEF Down
<1>6. CASE Restart
  <2>1. dead' = None /\ lease' = lease /\ before' = before
    BY <1>6 DEF Restart
  <2> QED
    BY <1>1, <2>1, Parameters DEF Down
<1> QED
  BY <1>2, <1>3, <1>4, <1>5, <1>6 DEF Next, clockVars, workerVars, Validate, Store, Wake, Renewed,
     Missed, NewLeader, Pass

LEMMA LeaseSpent ==
  ASSUME ConfigInv, RangeInv, SendInv, LeaseInv, [Next]_clockVars
  PROVE  /\ lease' \in Int \cup {None} /\ (lease' # None => Spent(lease', Down'))
         /\ before' \subseteq [left : Int, age : 0 .. MaxLag]
         /\ \A b \in before' : Spent(b.left, Down')
<1> DEFINE Old == [left : Int, age : 0 .. MaxLag]
<1>1. Down \in Nat /\ Down' \in Nat /\ low \in Nat
  BY DownMoves, LowMoves
<1>2. lease \in Int \cup {None} /\ (lease # None => Spent(lease, Down)) /\ (lease # None => lease \in Int)
  BY DEF LeaseInv
<1>3. ASSUME NEW b \in before PROVE b \in Old /\ b.left \in Int /\ Spent(b.left, Down)
  BY DEF LeaseInv
<1>4. ASSUME Down' <= Down
      PROVE  /\ lease # None => Spent(lease, Down')
             /\ \A b \in before : b \in Old /\ Spent(b.left, Down')
  BY <1>1, <1>2, <1>3, <1>4, SpentMonotone
<1>5. CASE lease' = lease /\ before' = before /\ Down' <= Down
  BY <1>2, <1>4, <1>5
<1>6. ASSUME Down' <= Down, NEW left, NEW age \in Nat,
             RunsFor(left, age, low), Down' <= age, ApplyLease(left)
      PROVE  /\ lease' \in Int /\ Spent(lease', Down')
             /\ \A b \in before' : b \in Old /\ Spent(b.left, Down')
  <2>1. lease' = left /\ left \in Int /\ Spent(left, Down')
    BY <1>1, <1>6, SpentOnArrival DEF ApplyLease
  <2>2. CASE lease = None
    BY <1>4, <1>6, <2>1, <2>2 DEF ApplyLease
  <2>3. CASE lease # None
    <3>1. PICK n : n = [left |-> lease, age |-> 0]
      OBVIOUS
    <3>2. n \in Old /\ Spent(n.left, Down')
      BY <1>2, <1>4, <1>6, <2>3, <3>1, Parameters
    <3>3. before' = before \cup {n}
      BY <1>6, <2>3, <3>1 DEF ApplyLease
    <3> QED
      BY <1>4, <1>6, <2>1, <3>2, <3>3
  <2> QED
    BY <2>2, <2>3
<1>7. CASE Tick
  <2>1. lease' = Less(lease) /\ before' = Older(before, MaxLag)
    BY <1>7 DEF Tick
  <2>2. Down' <= Down + 1
    BY <1>1, DownMoves
  <2>3. /\ lease' \in Int \cup {None} /\ (lease' # None => Spent(lease', Down'))
    <3>1. CASE lease = None
      BY <2>1, <3>1 DEF Less
    <3>2. CASE lease # None
      BY <1>1, <1>2, <2>1, <2>2, <3>2, SpentTick, LessBounds
    <3> QED
      BY <3>1, <3>2
  <2>4. ASSUME NEW n \in before' PROVE n \in Old /\ Spent(n.left, Down')
    <3>1. PICK b \in before : b.age < MaxLag /\ n = [left |-> Less(b.left), age |-> b.age + 1]
      BY <2>1 DEF Older
    <3>2. b.left \in Int /\ Less(b.left) \in Int /\ b.age + 1 \in 0 .. MaxLag
      BY <1>3, <3>1, LessBounds, Parameters
    <3>3. Spent(Less(b.left), Down')
      BY <1>1, <1>3, <2>2, SpentTick
    <3> QED
      BY <3>1, <3>2, <3>3
  <2> QED
    BY <2>3, <2>4
<1> QED
  BY <1>5, <1>6, <1>7, LeaseMoves

-----------------------------------------------------------------------------
(* The time since the last renewal got through.                            *)

LEMMA ElapsedTyped ==
  ASSUME NEW w \in Records, NEW h \in Nat
  PROVE  Elapsed(w, h) \in Int /\ w.missed \in Nat /\ w.wait \in Nat /\ Rounds(w.missed, h) \in Nat
<1>1. w.missed \in Nat /\ w.wait \in Nat
  BY Parameters DEF Records
<1>2. Rounds(w.missed, h) \in Nat
  BY <1>1, RoundsMore
<1> QED
  BY <1>1, <1>2 DEF Elapsed

LEMMA ElapsedGrows ==
  ASSUME NEW w \in Records, NEW h \in Nat, NEW k \in Nat, h <= k
  PROVE  Elapsed(w, h) <= Elapsed(w, k)
<1>1. /\ w.missed \in Nat /\ w.wait \in Nat
      /\ Rounds(w.missed, h) \in Nat /\ Rounds(w.missed, k) \in Nat
  BY ElapsedTyped
<1>2. Rounds(w.missed, h) <= Rounds(w.missed, k)
  BY <1>1, RoundsGrow
<1> QED
  BY <1>1, <1>2 DEF Elapsed

(* It is never more than the time of all rounds that may fail and of the   *)
(* one that does not.                                                      *)
LEMMA ElapsedBounded ==
  ASSUME NEW w \in Records, NEW h \in Nat,
         w.pc = "sleep" => w.wait <= h, w.pc # "sleep" => w.wait <= MaxDelay
  PROVE  0 <= Elapsed(w, h) /\ Elapsed(w, h) <= Rounds(MaxMisses + 1, h)
<1>1. /\ w.missed \in Nat /\ w.wait \in Nat /\ Rounds(w.missed, h) \in Nat
  BY ElapsedTyped
<1>2. Rounds(w.missed, h) <= Rounds(MaxMisses, h)
  BY <1>1, RoundsGrow, Parameters DEF Records
<1>3. Rounds(MaxMisses, h) \in Nat /\ Rounds(MaxMisses + 1, h) = Rounds(MaxMisses, h) + h + MaxDelay
  BY RoundsMore, Parameters
<1>4. CASE w.pc = "sleep"
  <2>1. Elapsed(w, h) = Rounds(w.missed, h) + (h - w.wait)
    BY <1>4 DEF Elapsed
  <2> QED
    BY <1>1, <1>2, <1>3, <1>4, <2>1, Parameters
<1>5. CASE w.pc # "sleep"
  <2>1. Elapsed(w, h) = Rounds(w.missed, h) + (h + w.wait)
    BY <1>5 DEF Elapsed
  <2> QED
    BY <1>1, <1>2, <1>3, <1>5, <2>1, Parameters
<1> QED
  BY <1>4, <1>5 DEF Records

LEMMA ElapsedTick ==
  ASSUME NEW w \in Records, NEW h \in Nat, w.pc = "sleep" => w.wait > 0
  PROVE  Elapsed(Later(w), h) = Elapsed(w, h) + 1
<1>1. /\ Later(w).pc = w.pc /\ Later(w).missed = w.missed
      /\ w.pc = "sleep" => Later(w).wait = w.wait - 1
      /\ w.pc # "sleep" => Later(w).wait = w.wait + 1
  BY LaterTyped
<1>2. w.missed \in Nat /\ w.wait \in Nat /\ Rounds(w.missed, h) \in Nat
  BY ElapsedTyped
<1> QED
  BY <1>1, <1>2 DEF Elapsed

LEMMA ElapsedMissed ==
  ASSUME NEW w \in Records, NEW h \in Nat, NEW cfg \in Configs, w.missed < MaxMisses,
         w.pc # "sleep", w.wait <= MaxDelay, cfg.interval <= h
  PROVE  Elapsed(w, h) <= Elapsed(Round(cfg, w.missed + 1), h)
<1>1. w.missed \in Nat /\ w.wait \in Nat /\ Rounds(w.missed, h) \in Nat
  BY ElapsedTyped
<1>2. w.missed + 1 \in 0 .. MaxMisses
  BY <1>1, Parameters
<1>3. PICK r : r = Round(cfg, w.missed + 1)
  OBVIOUS
<1>4. r.pc = "sleep" /\ r.wait = cfg.interval /\ r.missed = w.missed + 1 /\ cfg.interval \in Nat
  BY <1>2, <1>3, RoundTyped DEF Configs
<1>5. Elapsed(r, h) = Rounds(w.missed + 1, h) + (h - cfg.interval)
  BY <1>4 DEF Elapsed
<1>6. Rounds(w.missed + 1, h) = Rounds(w.missed, h) + h + MaxDelay
  BY <1>1, RoundsMore
<1>7. Elapsed(w, h) = Rounds(w.missed, h) + (h + w.wait)
  BY DEF Elapsed
<1> QED
  BY <1>1, <1>3, <1>4, <1>5, <1>6, <1>7, Parameters

(* The worker's own time, in terms of the state.                           *)
LEMMA TimeBounded ==
  ASSUME RangeInv, SendInv
  PROVE  /\ worker \in Records /\ high \in Nat /\ low \in Nat
         /\ Elapsed(worker, high) \in Int /\ 0 <= Elapsed(worker, high)
         /\ Elapsed(worker, high) <= Rounds(MaxMisses + 1, high)
         /\ Rounds(MaxMisses + 1, high) \in Nat
<1>1. worker \in Records /\ high \in Nat /\ low \in Nat
  BY DEF RangeInv, SendInv, Records
<1>2. worker.captured.interval \in Nat /\ worker.captured.interval <= high /\ worker.wait \in Nat
  BY <1>1 DEF RangeInv, Within, Configs, Records
<1>3. worker.pc = "sleep" => worker.wait <= high
  BY <1>1, <1>2 DEF SendInv
<1>4. worker.pc # "sleep" => worker.wait <= MaxDelay
  BY DEF SendInv
<1>5. MaxMisses + 1 \in Nat
  BY Parameters
<1> QED
  BY <1>1, <1>3, <1>4, <1>5, ElapsedBounded, ElapsedTyped, RoundsMore

(* What LeaseInv says of a worker that has renewed since it started.       *)
Lasts ==
  /\ dead = None /\ lease # None /\ lease + Elapsed(worker, high) >= low - 2 * MaxDelay
  /\ \A b \in before : b.age < since =>
       b.left + b.age + Rounds(MaxMisses + 1, high) >= low - 2 * MaxDelay

LEMMA LastsNow ==
  ASSUME LeaseInv, since # None
  PROVE  /\ Lasts /\ since \in 0 .. MaxLag + 1 /\ lease \in Int
         /\ \A b \in before : b.left \in Int /\ b.age \in 0 .. MaxLag
<1>1. Lasts
  BY DEF LeaseInv, Lasts
<1> QED
  BY <1>1 DEF LeaseInv, Lasts

LEMMA SlackKept ==
  ASSUME NEW l \in Int, NEW e \in Int, NEW f \in Int, NEW a \in Nat, NEW b \in Nat, NEW d \in Nat,
         l + e >= a - d, e <= f, b <= a
  PROVE  l + f >= b - d
  OBVIOUS

LEMMA SlackTicks ==
  ASSUME NEW l \in Int, NEW k \in Int, NEW e \in Int, NEW a \in Nat, NEW d \in Nat,
         l + e >= a - d, k >= l - 1
  PROVE  k + (e + 1) >= a - d
  OBVIOUS

(* Time stands still, and the loop is not further back than it was.        *)
LEMMA LastsStill ==
  ASSUME ConfigInv, RangeInv, SendInv, LeaseInv, [Next]_clockVars, since # None,
         since' = since, dead' = dead, lease' = lease, before' = before,
         Elapsed(worker, high) <= Elapsed(worker', high')
  PROVE  Lasts'
<1>1. low' \in Nat /\ high' \in Nat /\ low' <= low /\ high <= high' /\ low \in Nat /\ high \in Nat
  BY BoundsMove DEF RangeInv
<1>2. PICK e \in Int, f \in Int : Elapsed(worker, high) = e /\ Elapsed(worker', high') = f
  BY <1>1, LoopTyped, TimeBounded, ElapsedTyped
<1>3. PICK r \in Nat, q \in Nat :
        Rounds(MaxMisses + 1, high) = r /\ Rounds(MaxMisses + 1, high') = q /\ r <= q
  <2>1. PICK n \in Nat : n = MaxMisses + 1
    BY Parameters
  <2>2. Rounds(n, high) \in Nat /\ Rounds(n, high') \in Nat
    BY <1>1, RoundsMore
  <2>3. Rounds(n, high) <= Rounds(n, high')
    BY <1>1, RoundsGrow
  <2> QED
    BY <2>1, <2>2, <2>3
<1>4. /\ Lasts /\ lease \in Int /\ \A b \in before : b.left \in Int /\ b.age \in 0 .. MaxLag
  BY LastsNow
<1>5. dead' = None /\ lease' # None /\ lease' + f >= low' - 2 * MaxDelay
  <2>1. dead = None /\ lease # None /\ lease + e >= low - 2 * MaxDelay
    BY <1>2, <1>4 DEF Lasts
  <2>2. e <= f
    BY <1>2
  <2>3. lease \in Int /\ 2 * MaxDelay \in Nat
    BY <1>4, Parameters
  <2>4. lease + f >= low' - 2 * MaxDelay
    BY <1>1, <2>1, <2>2, <2>3, SlackKept
  <2> QED
    BY <2>1, <2>4
<1>6. ASSUME NEW b \in before', b.age < since'
      PROVE  b.left + b.age + q >= low' - 2 * MaxDelay
  <2>1. b.left \in Int /\ b.age \in Nat /\ b.left + b.age + r >= low - 2 * MaxDelay
    BY <1>3, <1>4, <1>6, Parameters DEF Lasts
  <2> QED
    BY <1>1, <1>3, <2>1, Parameters
<1> QED
  BY <1>2, <1>3, <1>5, <1>6 DEF Lasts

(* A lease replaced now was within the time of all rounds.                 *)
LEMMA LastsReplaced ==
  ASSUME ConfigInv, RangeInv, SendInv, LeaseInv, NEW left, ApplyLease(left), since # None,
         NEW b \in before', b.age < since
  PROVE  b.left + b.age + Rounds(MaxMisses + 1, high) >= low - 2 * MaxDelay
<1>1. /\ Lasts /\ lease \in Int
  BY LastsNow
<1>2. CASE b \in before
  BY <1>1, <1>2 DEF Lasts
<1>3. CASE b \notin before
  <2>1. b = [left |-> lease, age |-> 0]
    BY <1>3 DEF ApplyLease
  <2>2. b.left = lease /\ b.age = 0
    BY <2>1
  <2>3. PICK e \in Int, r \in Nat :
          Elapsed(worker, high) = e /\ Rounds(MaxMisses + 1, high) = r /\ e <= r /\ low \in Nat
    BY TimeBounded
  <2>4. lease + e >= low - 2 * MaxDelay
    BY <1>1, <2>3 DEF Lasts
  <2> QED
    BY <1>1, <2>2, <2>3, <2>4, Parameters
<1> QED
  BY <1>2, <1>3

(* When the reply comes the lease has run for at most MaxDelay since it    *)
(* was applied, or since an older copy overwrote it.                       *)
LEMMA LastsRenewed ==
  ASSUME ConfigInv, RangeInv, SendInv, LeaseInv, [Next]_clockVars, Renewed
  PROVE  Lasts' /\ since' \in 0 .. MaxLag + 1
<1>1. /\ worker.pc = "applied" /\ dead' = None /\ lease' = lease /\ before' = before
      /\ worker' = Round(config, 0) /\ low' = low /\ high' = high
      /\ since' = IF since = None THEN 0 ELSE since
  BY DEF Renewed, configVars
<1>2. worker.wait \in Nat /\ worker.wait <= MaxDelay
  BY <1>1 DEF SendInv
<1>3. lease # None /\ lease \in Int /\ lease + worker.wait >= low - MaxDelay
  BY <1>1 DEF LeaseInv
<1>4. low \in Nat /\ high \in Nat /\ config \in Configs /\ config.interval <= high
  BY DEF RangeInv, Within
<1>5. /\ Round(config, 0) \in Records /\ Round(config, 0).pc = "sleep"
      /\ Round(config, 0).wait = config.interval
  BY <1>4, RoundTyped, Parameters
<1>6. 0 <= Elapsed(worker', high') /\ Elapsed(worker', high') \in Int
  BY <1>1, <1>4, <1>5, ElapsedBounded, ElapsedTyped
<1>7. dead' = None /\ lease' # None /\ lease' + Elapsed(worker', high') >= low' - 2 * MaxDelay
  BY <1>1, <1>2, <1>3, <1>4, <1>6, Parameters
<1>8. since' \in 0 .. MaxLag + 1
  <2>1. CASE since = None
    BY <1>1, <2>1, Parameters
  <2>2. CASE since # None
    BY <1>1, <2>2 DEF LeaseInv
  <2> QED
    BY <2>1, <2>2
<1>9. ASSUME NEW b \in before', b.age < since'
      PROVE  b.left + b.age + Rounds(MaxMisses + 1, high') >= low' - 2 * MaxDelay
  <2>1. CASE since = None
    <3>1. b.age \in 0 .. MaxLag
      BY LeaseSpent
    <3> QED
      BY <1>1, <1>9, <2>1, <3>1, Parameters
  <2>2. CASE since # None
    BY <1>1, <1>9, <2>2 DEF LeaseInv
  <2> QED
    BY <2>1, <2>2
<1> QED
  BY <1>7, <1>8, <1>9 DEF Lasts

(* A lease that arrives now, the worker's own or a late copy.              *)
LEMMA LastsArrived ==
  ASSUME ConfigInv, RangeInv, SendInv, LeaseInv, [Next]_clockVars, since # None,
         NEW left \in Int, NEW age \in Nat, age <= MaxDelay, left >= low - age, ApplyLease(left),
         Elapsed(worker', high') = Elapsed(worker, high),
         low' = low, high' = high, since' = since, dead' = dead
  PROVE  Lasts'
<1>1. lease' = left
  BY DEF ApplyLease
<1>2. low \in Nat /\ 0 <= Elapsed(worker, high) /\ Elapsed(worker, high) \in Int
  BY TimeBounded
<1>3. dead = None
  BY DEF LeaseInv
<1>4. dead' = None /\ lease' # None /\ lease' + Elapsed(worker', high') >= low' - 2 * MaxDelay
  BY <1>1, <1>2, <1>3, Parameters
<1>5. ASSUME NEW b \in before', b.age < since'
      PROVE  b.left + b.age + Rounds(MaxMisses + 1, high') >= low' - 2 * MaxDelay
  BY <1>5, LastsReplaced
<1> QED
  BY <1>4, <1>5 DEF Lasts

LEMMA AppliedFacts ==
  ASSUME RangeInv, SendInv, Applied
  PROVE  /\ worker.left \in Int /\ worker.wait \in Nat /\ worker.wait <= MaxDelay
         /\ worker.left >= low - worker.wait /\ ApplyLease(worker.left)
         /\ worker'.wait = worker.wait /\ worker'.pc = "applied"
         /\ Elapsed(worker', high') = Elapsed(worker, high)
         /\ low' = low /\ high' = high /\ since' = since /\ dead' = dead
<1>1. /\ worker.pc = "submit" /\ worker \in Records /\ ApplyLease(worker.left)
      /\ worker' = [worker EXCEPT !.pc = "applied"]
      /\ low' = low /\ high' = high /\ since' = since /\ dead' = dead
  BY TimeBounded DEF Applied, configVars
<1>2. worker'.pc = "applied" /\ worker'.wait = worker.wait /\ worker'.missed = worker.missed
  BY <1>1 DEF Records
<1>3. Elapsed(worker', high') = Elapsed(worker, high)
  BY <1>1, <1>2 DEF Elapsed
<1>4. /\ worker.wait \in Nat /\ worker.wait <= MaxDelay /\ worker.left \in Int
      /\ worker.left >= low - worker.wait
  BY <1>1 DEF SendInv, RunsFor
<1> QED
  BY <1>1, <1>2, <1>3, <1>4

LEMMA LastsApplied ==
  ASSUME ConfigInv, RangeInv, SendInv, LeaseInv, [Next]_clockVars, since # None, Applied
  PROVE  Lasts'
  BY AppliedFacts, LastsArrived

LEMMA LateFacts ==
  ASSUME SendInv, NEW m \in late, LateCopy(m)
  PROVE  /\ m.age \in Nat /\ m.age <= MaxDelay /\ m.left \in Int /\ m.left >= low - m.age
         /\ ApplyLease(m.left) /\ worker' = worker
         /\ low' = low /\ high' = high /\ since' = since /\ dead' = dead
<1>1. m.age \in Nat /\ m.age <= MaxDelay /\ m.left \in Int /\ m.left >= low - m.age
  BY Parameters DEF SendInv, RunsFor
<1> QED
  BY <1>1 DEF LateCopy, configVars

LEMMA LastsLate ==
  ASSUME ConfigInv, RangeInv, SendInv, LeaseInv, [Next]_clockVars, since # None,
         NEW m \in late, LateCopy(m)
  PROVE  Lasts'
<1>1. Elapsed(worker', high') = Elapsed(worker, high)
  BY LateFacts
<1> QED
  BY <1>1, LateFacts, LastsArrived

(* While the reply is under way the lease is at most MaxDelay older than   *)
(* the submission.                                                         *)
LEMMA AwaitsReply ==
  ASSUME ConfigInv, RangeInv, SendInv, LeaseInv, [Next]_clockVars, worker'.pc = "applied"
  PROVE  lease' # None /\ lease' + worker'.wait >= low' - MaxDelay
<1>1. low' \in Nat /\ low' <= low /\ low \in Nat /\ worker.wait \in Nat /\ worker \in Records
  BY LowMoves, TimeBounded DEF Records
<1>2. CASE Applied
  <2>1. /\ worker.left \in Int /\ worker.left >= low - worker.wait /\ lease' = worker.left
        /\ worker'.wait = worker.wait
    BY <1>2, AppliedFacts DEF ApplyLease
  <2> QED
    BY <1>1, <2>1, Parameters
<1>3. ASSUME NEW m \in late, LateCopy(m) PROVE lease' # None /\ lease' + worker'.wait >= low' - MaxDelay
  <2>1. /\ m.left \in Int /\ m.left >= low - m.age /\ m.age \in Nat /\ m.age <= MaxDelay
        /\ lease' = m.left /\ worker' = worker
    BY <1>3, LateFacts DEF ApplyLease
  <2> QED
    BY <1>1, <2>1, Parameters
<1>4. ASSUME worker.pc = "applied"
      PROVE  lease # None /\ lease \in Int /\ lease + worker.wait >= low - MaxDelay
  BY <1>4 DEF LeaseInv
<1>5. CASE worker' = worker /\ lease' = lease
  BY <1>1, <1>4, <1>5, Parameters
<1>6. CASE Tick
  <2>1. CASE dead # None
    <3>1. worker' = worker
      BY <1>6, <2>1 DEF Tick
    <3> QED
      BY <1>1, <2>1, <3>1 DEF SendInv
  <2>2. CASE dead = None
    <3>1. worker.pc = "sleep" => worker.wait > 0
      BY <1>6, <2>2 DEF Tick
    <3>2. worker' = Later(worker) /\ lease' = Less(lease)
      BY <1>6, <2>2 DEF Tick, Later
    <3>3. worker.pc = "applied" /\ worker'.wait = worker.wait + 1
      BY <1>1, <3>1, <3>2, LaterTyped
    <3>4. lease' \in Int /\ lease' >= lease - 1 /\ lease \in Int /\ lease + worker.wait >= low - MaxDelay
      BY <1>4, <3>2, <3>3, LessBounds
    <3> QED
      BY <1>1, <3>3, <3>4, Parameters
  <2> QED
    BY <2>1, <2>2
<1>7. CASE Wake
  BY <1>1, <1>7 DEF Wake, Records
<1>8. CASE Renewed \/ Missed \/ Crash
  BY <1>8 DEF Renewed, Missed, Crash, Round
<1> QED
  BY <1>2, <1>3, <1>5, <1>6, <1>7, <1>8 DEF Next, clockVars, workerVars, Validate, Store, Restart,
     NewLeader, Pass

LEMMA LastsTick ==
  ASSUME ConfigInv, RangeInv, SendInv, LeaseInv, [Next]_clockVars, since # None, Tick
  PROVE  Lasts' /\ since' \in 0 .. MaxLag + 1
<1>1. /\ Lasts /\ since \in 0 .. MaxLag + 1 /\ lease \in Int /\ dead = None
      /\ \A b \in before : b.left \in Int /\ b.age \in 0 .. MaxLag
  BY LastsNow DEF Lasts
<1>2. /\ worker.pc = "sleep" => worker.wait > 0
      /\ worker' = Later(worker) /\ low' = low /\ high' = high
      /\ lease' = Less(lease) /\ before' = Older(before, MaxLag)
      /\ since' = More(since, MaxLag + 1) /\ dead' = More(dead, DeadBound)
  BY <1>1 DEF Tick, Later, configVars
<1>3. PICK e \in Int, r \in Nat :
        /\ Elapsed(worker, high) = e /\ Elapsed(worker', high') = e + 1
        /\ Rounds(MaxMisses + 1, high) = r /\ low \in Nat
  BY <1>2, TimeBounded, ElapsedTick
<1>4. lease' \in Int /\ lease' >= lease - 1
  BY <1>1, <1>2, LessBounds
<1>5. dead' = None /\ lease' # None /\ lease' + (e + 1) >= low - 2 * MaxDelay
  <2>1. lease + e >= low - 2 * MaxDelay
    BY <1>1, <1>3 DEF Lasts
  <2>2. dead' = None
    BY <1>1, <1>2 DEF More
  <2>3. lease' # None
    BY <1>4, Parameters
  <2>4. lease \in Int /\ low \in Nat /\ 2 * MaxDelay \in Nat
    BY <1>1, <1>3, Parameters
  <2>5. lease' + (e + 1) >= low - 2 * MaxDelay
    BY <1>4, <2>1, <2>4, SlackTicks
  <2> QED
    BY <2>2, <2>3, <2>5
<1>6. since' \in 0 .. MaxLag + 1 /\ (since' = since + 1 \/ since = MaxLag + 1)
  BY <1>1, <1>2, Parameters DEF More
<1>7. ASSUME NEW n \in before', n.age < since' PROVE n.left + n.age + r >= low - 2 * MaxDelay
  <2>1. PICK b \in before : b.age < MaxLag /\ n = [left |-> Less(b.left), age |-> b.age + 1]
    BY <1>2 DEF Older
  <2>2. b.left \in Int /\ b.age \in Nat
    BY <1>1, Parameters
  <2>3. PICK z \in Int : z = Less(b.left) /\ z >= b.left - 1
    BY <2>2, LessBounds
  <2>4. n.left = z /\ n.age = b.age + 1
    BY <2>1, <2>3
  <2>5. b.age < since
    BY <1>1, <1>6, <1>7, <2>1, <2>2, <2>4, Parameters
  <2>6. b.left + b.age + r >= low - 2 * MaxDelay
    BY <1>1, <1>3, <2>5 DEF Lasts
  <2> QED
    BY <1>3, <2>2, <2>3, <2>4, <2>6, Parameters
<1> QED
  BY <1>2, <1>3, <1>5, <1>6, <1>7 DEF Lasts

(* The steps that leave the leases alone move the loop on at most.         *)
LEMMA ElapsedMoves ==
  ASSUME ConfigInv, RangeInv, SendInv, [Next]_clockVars,
         worker' = worker \/ Wake \/ Missed
  PROVE  Elapsed(worker, high) <= Elapsed(worker', high')
<1>1. high' \in Nat /\ high <= high' /\ high \in Nat /\ worker \in Records
  BY BoundsMove, TimeBounded DEF RangeInv
<1>2. CASE worker' = worker
  BY <1>1, <1>2, ElapsedGrows
<1>3. CASE Wake
  <2>1. /\ worker.pc = "sleep" /\ worker.wait = 0 /\ high' = high
        /\ worker'.pc = "submit" /\ worker'.wait = 0 /\ worker'.missed = worker.missed
    BY <1>1, <1>3 DEF Wake, Records, configVars
  <2>2. Rounds(worker.missed, high) \in Nat
    BY <1>1, ElapsedTyped
  <2> QED
    BY <1>1, <2>1, <2>2 DEF Elapsed
<1>4. CASE Missed
  <2>1. /\ worker.pc # "sleep" /\ worker.missed < MaxMisses /\ high' = high
        /\ worker' = Round(config, worker.missed + 1)
    BY <1>4 DEF Missed, Submitting, configVars
  <2>2. worker.wait <= MaxDelay /\ config \in Configs /\ config.interval <= high
    BY <2>1 DEF SendInv, RangeInv, Within
  <2> QED
    BY <1>1, <2>1, <2>2, ElapsedMissed
<1> QED
  BY <1>2, <1>3, <1>4

LEMMA LeaseLasts ==
  ASSUME ConfigInv, RangeInv, SendInv, LeaseInv, [Next]_clockVars
  PROVE  since' \in {None} \cup 0 .. MaxLag + 1 /\ (since' # None => Lasts')
<1>1. since \in {None} \cup 0 .. MaxLag + 1 /\ (since # None => dead = None)
  BY DEF LeaseInv
<1>2. CASE Renewed
  BY <1>2, LastsRenewed
<1>3. ASSUME NEW m \in late, LateCopy(m)
      PROVE since' \in {None} \cup 0 .. MaxLag + 1 /\ (since' # None => Lasts')
  <2>1. since' = since
    BY <1>3 DEF LateCopy
  <2> QED
    BY <1>1, <1>3, <2>1, LastsLate
<1>4. CASE Tick
  <2>1. CASE since = None
    BY <1>4, <2>1 DEF Tick, More
  <2>2. CASE since # None
    BY <1>4, <2>2, LastsTick
  <2> QED
    BY <2>1, <2>2
<1>5. CASE /\ since' = since /\ dead' = dead /\ lease' = lease /\ before' = before
           /\ worker' = worker \/ Wake \/ Missed
  <2>1. Elapsed(worker, high) <= Elapsed(worker', high')
    BY <1>5, ElapsedMoves
  <2> QED
    BY <1>1, <1>5, <2>1, LastsStill
<1>6. CASE Crash
  BY <1>6 DEF Crash
<1>7. CASE Restart
  BY <1>1, <1>7 DEF Restart
<1>8. CASE Applied
  <2>1. since' = since
    BY <1>8 DEF Applied
  <2> QED
    BY <1>1, <1>8, <2>1, LastsApplied
<1> QED
  BY <1>2, <1>3, <1>4, <1>5, <1>6, <1>7, <1>8 DEF Next, clockVars, workerVars, Validate, Store, Wake,
     Missed, NewLeader, Pass

LEMMA LeaseKeeps == ConfigInv /\ RangeInv /\ SendInv /\ LeaseInv /\ [Next]_clockVars => LeaseInv'
  BY LeaseSpent, LeaseLasts, AwaitsReply, DownMoves DEF LeaseInv, Lasts

-----------------------------------------------------------------------------
(* The scheduler.                                                          *)

LEMMA MoreBounds ==
  ASSUME NEW cap \in Nat, NEW d \in 0 .. cap
  PROVE  More(d, cap) \in 0 .. cap /\ (d < cap => More(d, cap) = d + 1) /\ (d = cap => More(d, cap) = cap)
  BY Parameters DEF More

(* A pass finds no lease running once the worker was down for MaxTtl.      *)
LEMMA NothingRuns ==
  ASSUME LeaseInv, NEW left \in Readable, Down > MaxTtl
  PROVE  left = None \/ left < 0
<1>1. Down \in Nat
  BY Parameters DEF LeaseInv, Down
<1>2. CASE left = lease
  BY <1>1, <1>2, Parameters DEF LeaseInv, Spent
<1>3. CASE left # lease
  <2>1. PICK b \in before : left = b.left
    BY <1>3 DEF Readable
  <2>2. left \in Int /\ Spent(left, Down)
    BY <2>1 DEF LeaseInv
  <2> QED
    BY <1>1, <2>2, Parameters DEF Spent
<1> QED
  BY <1>2, <1>3

LEMMA PassKeeps ==
  ASSUME LeaseInv, SchedInv, NEW left \in Readable, NEW alive \in BOOLEAN, Pass(left, alive)
  PROVE  SchedInv'
<1>1. /\ down' = View(left, alive).down /\ verdict' = View(left, alive).verdict /\ passed' = 0
      /\ dark' = (IF left = None \/ left < 0 \/ alive THEN 0 ELSE dark) /\ Down' = Down
  BY DEF Pass, workerVars, Down
<1>2. Down \in Nat
  BY Parameters DEF LeaseInv, Down
<1>3. /\ down \in {None} \cup 0 .. Grace /\ dark \in 0 .. Grace /\ (down # None => down <= dark)
  BY DEF SchedInv
<1>4. CASE left = None \/ left < 0
  <2>1. down' = None /\ verdict' \in {"none", "expired"} /\ dark' = 0
    BY <1>1, <1>4 DEF View
  <2> QED
    BY <1>1, <2>1, Parameters DEF SchedInv
<1>5. CASE ~(left = None \/ left < 0)
  <2>1. Down <= MaxTtl
    BY <1>2, <1>5, NothingRuns, Parameters
  <2>2. CASE alive
    <3>1. down' = None /\ verdict' = "kept" /\ dark' = 0
      BY <1>1, <1>5, <2>2 DEF View
    <3> QED
      BY <1>1, <1>2, <2>1, <3>1, Parameters DEF SchedInv
  <2>3. CASE ~alive
    <3>1. PICK d : d = (IF down = None THEN 0 ELSE down)
      OBVIOUS
    <3>2. d \in 0 .. Grace /\ d <= dark
      BY <1>3, <3>1, Parameters
    <3>3. dark' = dark /\ down' = d /\ verdict' = (IF d < Grace THEN "kept" ELSE "dark")
      BY <1>1, <1>5, <2>3, <3>1 DEF View
    <3>4. verdict' = "dark" => dark' = Grace
      BY <1>3, <3>2, <3>3, Parameters
    <3> QED
      BY <1>1, <1>2, <1>3, <2>1, <3>2, <3>3, <3>4, Parameters DEF SchedInv
  <2> QED
    BY <2>2, <2>3
<1> QED
  BY <1>4, <1>5

LEMMA TickSched == ASSUME LeaseInv, SchedInv, [Next]_clockVars, Tick PROVE SchedInv'
<1>1. /\ down' = More(down, Grace) /\ dark' = More(dark, Grace) /\ passed' = passed + 1
      /\ passed < PassEvery /\ verdict' = verdict
  BY DEF Tick
<1>2. Down \in Nat /\ Down' \in Nat /\ Down' <= Down + 1
  BY DownMoves
<1>3. /\ down \in {None} \cup 0 .. Grace /\ dark \in 0 .. Grace /\ passed \in 0 .. PassEvery
      /\ (down # None => down <= dark) /\ (verdict = "dark" => dark = Grace)
      /\ (verdict = "kept" => Down <= MaxTtl + passed)
  BY DEF SchedInv
<1>4. PICK k \in 0 .. Grace : /\ dark' = k /\ (dark < Grace => k = dark + 1)
                              /\ (dark = Grace => k = Grace)
  BY <1>1, <1>3, MoreBounds, Parameters
<1>5. down' \in {None} \cup 0 .. Grace /\ (down' # None => down' <= k)
  <2>1. CASE down = None
    BY <1>1, <2>1 DEF More
  <2>2. CASE down # None
    <3>1. down \in 0 .. Grace /\ down <= dark
      BY <1>3, <2>2
    <3>2. PICK d \in 0 .. Grace : /\ down' = d /\ (down < Grace => d = down + 1)
                                  /\ (down = Grace => d = Grace)
      BY <1>1, <3>1, MoreBounds, Parameters
    <3> QED
      BY <1>3, <1>4, <3>1, <3>2, Parameters
  <2> QED
    BY <2>1, <2>2
<1>6. passed' \in 0 .. PassEvery
  BY <1>1, <1>3, Parameters
<1>7. verdict' = "kept" => Down' <= MaxTtl + passed'
  BY <1>1, <1>2, <1>3, Parameters
<1> QED
  BY <1>1, <1>3, <1>4, <1>5, <1>6, <1>7 DEF SchedInv

LEMMA SchedKeeps == LeaseInv /\ SchedInv /\ [Next]_clockVars => SchedInv'
<1> SUFFICES ASSUME LeaseInv, SchedInv, [Next]_clockVars PROVE SchedInv'
  OBVIOUS
<1>1. ASSUME NEW left \in Readable, NEW alive \in BOOLEAN, Pass(left, alive) PROVE SchedInv'
  BY <1>1, PassKeeps
<1>2. CASE Tick
  BY <1>2, TickSched
<1>3. CASE NewLeader
  BY <1>3, Parameters DEF NewLeader, SchedInv
<1>4. ASSUME UNCHANGED schedVars, Down' <= Down PROVE SchedInv'
  <2>1. /\ Down \in Nat /\ Down' \in Nat
    BY DownMoves
  <2>2. down' = down /\ dark' = dark /\ passed' = passed /\ verdict' = verdict
    BY <1>4 DEF schedVars
  <2>3. passed \in Nat /\ (verdict' = "kept" => Down' <= MaxTtl + passed')
    BY <1>4, <2>1, <2>2, Parameters DEF SchedInv
  <2> QED
    BY <2>2, <2>3 DEF SchedInv
<1>5. Down' <= Down \/ Tick
  BY DownMoves
<1> QED
  BY <1>1, <1>2, <1>3, <1>4, <1>5 DEF Next, clockVars, Validate, Store, Wake, Applied, Renewed, Missed,
     LateCopy, Crash, Restart

-----------------------------------------------------------------------------
LEMMA InitClock == Init => ClockInv
<1> SUFFICES ASSUME Init PROVE ClockInv
  OBVIOUS
<1>1. InitConfig \in Configs /\ 0 < InitConfig.interval /\ InitConfig.interval < InitConfig.ttl
  BY ClockAssumption
<1>2. InitConfig.interval \in Nat /\ InitConfig.ttl \in Nat /\ InitConfig.ttl <= MaxTtl
  BY <1>1, Parameters DEF Configs
<1>3. ConfigInv
  <2>1. config = InitConfig /\ patcher = [p \in Patchers |-> None]
    BY DEF Init
  <2>2. /\ patcher \in [Patchers -> {None} \cup Patches]
        /\ \A p \in Patchers : patcher[p] = None
    BY <2>1
  <2>3. config \in Configs /\ config.interval >= 1
    BY <1>1, <1>2, <2>1
  <2> QED
    BY <2>2, <2>3 DEF ConfigInv
<1>4. /\ worker = Round(InitConfig, 0) /\ worker \in Records /\ worker.captured = InitConfig
      /\ worker.pc = "sleep" /\ worker.wait = InitConfig.interval
  BY <1>1, RoundTyped, Parameters DEF Init
<1>5. RangeInv
  BY <1>1, <1>2, <1>4 DEF Init, RangeInv, Within
<1>6. SendInv
  BY <1>2, <1>4 DEF Init, SendInv, Records
<1>7. LeaseInv
  <2>1. lease = None /\ before = {} /\ since = None /\ dead = None
    BY DEF Init
  <2> QED
    BY <1>4, <2>1 DEF LeaseInv
<1>8. SchedInv
  <2>1. down = None /\ dark = 0 /\ passed = 0 /\ verdict = "none"
    BY DEF Init
  <2> QED
    BY <2>1, Parameters DEF SchedInv
<1> QED
  BY <1>3, <1>5, <1>6, <1>7, <1>8 DEF ClockInv

(* ClockInv holds in every reachable state, whatever the configuration,    *)
(* the delays, the patches and the faults: what run_lease_renewal,         *)
(* apply_patch and worker_view keep true together.                         *)
THEOREM ClockInvariant == ClockSpec => []ClockInv
<1>1. ClockInv /\ [Next]_clockVars => ClockInv'
  BY ConfigKeeps, RangeKeeps, SendKeeps, LeaseKeeps, SchedKeeps DEF ClockInv
<1> QED
  BY <1>1, InitClock, PTL DEF ClockSpec

(* worker_view gives up a worker with a running lease only after the whole *)
(* disconnect grace without news of it under the same leader.              *)
THEOREM GraceStaysFull == ClockSpec => []GraceIsFull
<1>1. ClockInv => GraceIsFull
  BY DEF ClockInv, SchedInv, GraceIsFull
<1> QED
  BY <1>1, ClockInvariant, PTL

(* One ttl and one pass after a worker went down for good its lease counts *)
(* for nothing, even when its last renewals were applied late.             *)
THEOREM DeadWorkersReleased == ClockSpec => []DeadIsReleased
<1>1. ClockInv => DeadIsReleased
  <2> SUFFICES ASSUME ClockInv, dead = DeadBound, verdict = "kept" PROVE FALSE
    BY DEF DeadIsReleased
  <2>1. Down = MaxTtl + PassEvery + 1
    BY Parameters DEF Down, DeadBound
  <2>2. passed \in 0 .. PassEvery /\ Down <= MaxTtl + passed
    BY DEF ClockInv, SchedInv
  <2> QED
    BY <2>1, <2>2, Parameters
<1> QED
  BY <1>1, ClockInvariant, PTL

LEMMA LiveHolds == ClockInv => LiveIsKept
<1> SUFFICES ASSUME ClockInv, low >= Needed, since = MaxLag + 1, NEW left \in Readable
             PROVE  left >= 0
  BY DEF LiveIsKept
<1>1. ConfigInv /\ RangeInv /\ SendInv /\ LeaseInv /\ since # None
  BY Parameters DEF ClockInv
<1>2. PICK e \in Int, r \in Nat :
        /\ Elapsed(worker, high) = e /\ Rounds(MaxMisses + 1, high) = r /\ e <= r
        /\ low \in Nat /\ high \in Nat
  BY <1>1, TimeBounded
<1>3. low >= r + 2 * MaxDelay + MaxLag
  BY <1>2 DEF Needed, Rounds
<1>4. /\ Lasts /\ lease \in Int /\ \A b \in before : b.left \in Int /\ b.age \in 0 .. MaxLag
  BY <1>1, LastsNow
<1>5. CASE left = lease
  <2>1. lease + e >= low - 2 * MaxDelay
    BY <1>2, <1>4 DEF Lasts
  <2>2. lease \in Int /\ MaxDelay \in Nat /\ MaxLag \in Nat
    BY <1>4, Parameters
  <2> QED
    BY <1>2, <1>3, <1>5, <2>1, <2>2
<1>6. CASE left # lease
  <2>1. PICK b \in before : left = b.left
    BY <1>6 DEF Readable
  <2>2. b.left \in Int /\ b.age \in Nat /\ b.age <= MaxLag /\ MaxDelay \in Nat /\ MaxLag \in Nat
    BY <1>4, Parameters
  <2>3. b.age < since
    BY <2>2
  <2>4. b.left + b.age + r >= low - 2 * MaxDelay
    BY <1>2, <1>4, <2>3 DEF Lasts
  <2> QED
    BY <1>2, <1>3, <2>1, <2>2, <2>4
<1> QED
  BY <1>5, <1>6

(* With a ttl that leaves room for the missed rounds, twice the delay and  *)
(* the lag, no scheduler reads an expired lease of a worker that runs,     *)
(* however its configuration is patched and its renewals are repeated.     *)
THEOREM LiveWorkersKept == ClockSpec => []LiveIsKept
  BY LiveHolds, ClockInvariant, PTL
=============================================================================
