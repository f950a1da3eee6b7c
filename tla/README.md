# A verification project for `openraft_libp2p_cluster`

The repository is a collection of some 660 independent example crates. One of
them is a system: `openraft_workspace_example/openraft_libp2p_cluster`, a
replicated key-value store and task queue in which control nodes run raft groups
(openraft, over libp2p streams, on RocksDB) and worker nodes execute the tasks
the `tasks` group hands out. This project models that crate. Paths below are
relative to its `src/` directory unless they start with `src/`.

## The system and its components

| Component | State | Operations | Interacts with |
|---|---|---|---|
| Task domain (`tasks/apply.rs`, `records.rs`, `keys.rs`) | task records, queued/assigned/terminal indexes, idempotency table, worker leases, all keys of one replicated map | ten commands, applied deterministically from the log | called by the state machine's `apply`; read by scheduler, workers, API |
| Scheduler (`tasks/scheduler.rs`) | per-leader `down_since` clocks | pass: requeue lost work, assign due tasks, wake the worker; vacuum | proposes commands on the leader; wakes workers by RPC |
| Worker (`tasks/worker.rs`, `handlers.rs`, `rpc.rs`) | in-flight set, permit semaphore, lease epoch | claim, execute, commit mark, ack; drain; renew lease | submits commands to any control node, follows leader hints |
| API (`tasks/api.rs`) | none | enqueue, replay, queries | submits commands |
| RPC guard (`network/peer_guard.rs`, `guarded` in `network/transport.rs`) | per (protocol, peer) semaphore and two atomics, one shared semaphore | admit, record success, record failure, drop | wraps every outbound RPC |
| Storage (`rocksstore_crud/`) | RocksDB log, metadata and data, snapshot files, in-memory copy of the data | append, truncate, purge, save committed; apply; build and install snapshots; recover | called by openraft from two tasks and a blocking thread |
| Startup check (`store.rs`) | none | refuse a store that is not coherent | before openraft starts |
| KV requests (`network/openraft_dispatcher.rs`, `ensure_linearizable_read` and `KvData` in `store.rs`) | RocksDB secondary, catch-up lock | get, set, update, delete; catch up, rebuild, fall back | HTTP, task reads and commands |
| Membership guard (`membership_guard.rs`) | down clocks | tick: replace a dead voter, drop a dead learner, backfill | leader only; behind the group's fence |
| Membership operations (`http/membership.rs`, `network/openraft_dispatcher.rs`) | the per-group fence | add, join, replace, remove | openraft `add_learner`, `change_membership` |
| Leader controller (`leader_controller.rs`) | running works | start and stop scheduler and guard on role changes | watches raft metrics |
| Runtime configuration (`runtime_config.rs`) | one shared record | validated patches | read by everyone |
| Swarm, transport, codecs (`network/`) | peer registry, connections, pins | dial, reconnect, announce, encode | everything remote |
| Join and maintenance (`app/`) | join progress | join a cluster, announce | JoinCluster RPC |
| Wasm distribution and runtime (`wasm_sync/`, `tasks/wasm_runtime.rs`) | module store | announce, download by digest, run | handlers |
| SQLite cache (`sqlite_cache.rs`, `network/openraft_sync.rs`) | cache tables | sync from the replicated state | queries |

What is hard here: workers crash between a commit mark and its effect; the same
submission reaches the log twice or late; the scheduler and a worker race for a
task; concurrent RPCs update a circuit breaker made of two atomics; power fails
between the writes of an install, with write sync switchable at run time; a
snapshot is built beside the apply loop; a membership guard acts on what it read
before it took the lock; reads go through a secondary database that others catch
up or replace; a lease, its renewals and its readers run on different clocks;
and a role that flips starts and stops works that are in the middle of a pass. PROJECT.json lists each of these as a hazard at
its line with the properties that cover it.

What makes each component correct: the indexes of the task domain are exactly
what the records say and a commit mark is final; an irreversible effect happens
at most once, a done task had it, and no task is stranded; the guard neither
leaks permits nor forgets a failure streak; the store always restarts and loses
nothing it says it applied; operators and guard take the vote from nobody they
did not mean to; a key-value request is linearizable; a submission is sent a
bounded number of times and finds the leader; a live worker keeps its lease and a
dead one loses it; and a group's works run exactly while its node leads.

## Modules

| Module | Models | Used by |
|---|---|---|
| `TaskLifecycle` | abstract life cycle of a task: absent, waiting, held, sealed, closed, dead | refined by `TaskQueue` |
| `TaskQueue` | the task domain, one action per command | `TaskExecution` |
| `TaskExecution` | scheduler, workers, handlers, clients and their failures around `TaskQueue` | |
| `PeerGuard` | the RPC guard, one step per atomic access | |
| `ReplicaStore` | log store, state machine, snapshot files and startup check of one replica | |
| `MembershipChange` | guard and membership operations of one group on its leader | |
| `LinearKv` | abstract: what key-value requests promise their callers | refined by `KvService` |
| `KvService` | key-value requests and linearizable reads on the control nodes of a group | |
| `ControlRpc` | how a worker, or a control node's front end, reaches the leader of the tasks group | |
| `LeaseClock` | lease renewal, runtime configuration and the scheduler's view of one worker, with time | |
| `LeaderWorks` | the leader controller of a node and the works it starts and stops | |
| `TaskProofs` | theorems about `TaskQueue` and `TaskExecution` | |
| the other `*Proofs` | theorems about the module they are named after | |
| `MC*` | TLC instances: symmetry sets and model values | |

**TaskQueue.** The six key spaces of `keys.rs` are six variables (`rec`,
`queued`, `assigned`, `terminal`, `idem`, `leases`). A command's mutations go
into one write batch, so a command is one step; its action is the accepted
branch, and a rejected command, which writes nothing, is a stuttering step. The
conditions that decide (`ClaimMatches`, `AckMatches`, `Deduplicated`, ...) are
operators, because the proposer sees the decision. Every timestamp is supplied
by a proposer, so any time may come with any command.

**TaskExecution.** `exec[n][t]` is the execution of task `t` that worker `n` has
in flight, with its program counter: `waiting` for a permit, `claiming`,
`running`, `marking`, `effect`, `acking`. A submission is applied and answered in
one step; a copy nobody waits for (the worker went to another control node, or
the reply was lost) is put in `ghosts` by `Duplicate` and applied whenever it
likes. Deadlines are choices: an expired lease, the disconnect grace and the
stuck timeout fire nondeterministically, and the firings that a correct clock
would not produce (`RequeueEarly`, `SuspectWorker`) count against `MaxFaults`
together with crashes, duplicates and lost replies. `effects` counts the
irreversible effects; it exists only to state properties.

**PeerGuard.** A caller passes through the loads, stores and `fetch_add`s of
`try_acquire`, `record_success` and `record_failure` one at a time, interleaved
with all others and with the clock. The two semaphores count free permits.

**ReplicaStore.** `db` is the RocksDB content, `tail` the set of contents a power
loss may leave behind: one if the last write was synced, every one since the last
sync otherwise (a write batch is all or nothing). `apply` is split where other tasks
can run. A build reads its label, takes an epoch, takes the RocksDB snapshot, renames
the finished file and prunes, each a step of its own (`build_snapshot`, `TakeEpoch`,
`CaptureData`, `write_snapshot_file`, `Prune`); an install takes an epoch, restores the
database, renames, prunes and swaps the map (`install_snapshot`,
`restore_snapshot_to_db`, `PersistInstalled`, `Prune`, `SwapMemory`). Pruning removes
one file per step and may leave any (a removal that fails, a crash), so there is no
bound on the number of files on disk. Application data is the sequence of indexes
applied, so a lost, repeated or mislabelled entry shows. openraft is external: it
commits only what is in the log, truncates only what is not committed, purges
only what a snapshot covers, installs only what is newer than committed, and on
startup drops a log that ends before what is applied.

**MembershipChange.** `config` is openraft's membership as the old and the new
voter set (equal when not joint) and all nodes. `change_membership` goes through
the joint set and may fail between its two steps. The guard's tick is split into
reading the metrics, advancing the clocks and taking the fence; operators' requests
run behind the same fence and can fail at each await.

**LinearKv and KvService.** A database is the number of committed writes it holds,
so the primary and the secondary of a node are two numbers and a reader that still
holds a replaced secondary carries the number it froze at. The action names follow
the functions: `get_read_linearizer` and `await_ready` are the two halves of
`ensure_linearizable_read`, `Lock`, `catch_up`, `Gap`, `rebuild_secondary` and
`primary_fallback` the branches of `synced_db`. A write whose answer is lost goes to
`late` and may be committed by the next leader. `LinearKv` is the promise: an answer
refers to a state that was current between call and answer, an acknowledged write is
in the history, and check and write of an update are two moments, because they are
two in the code. openraft is external (a confirmed read index covers what is
committed) and so is RocksDB (a catch-up that succeeds reaches what the primary held
when it began).

**ControlRpc.** One action per outcome of a request: no answer, accepted, forwarded
with a hint, a read's first answer. `known` and `sticky` are `ControlNodes`, shared by
all loops of the worker. Until `Settle` every node may claim anything; afterwards one
leader is stable and hints name it. A process is either a worker or a control node.

**LeaseClock.** Instants are distances from now, so the state space is finite without
a bound on time. `Tick` waits for what is due: a submission that must be applied and
answered, or lost, within `MaxDelay`, the next pass. A renewal is applied (`Applied`)
and answered (`Renewed`) at two moments, because the next round starts at the answer and
an older copy may overwrite the lease in between. The scheduler sees any lease the
data of the last `MaxLag` contained (`Readable`). `apply_patch` is two steps, the
validation against `current()` and the `rcu`, so two patches can race; `low` and `high`
are the least ttl and the greatest interval ever stored.

**LeaderWorks.** The watch channel keeps the last role and whether it was seen, so
flips coalesce. `stop_running_works` sends, awaits and goes on one work at a time; a
work in a pass does not look at its stop channel. A work's pass is opaque except
that the guard may spawn a change that owns the fence and outlives it, and that a pass of
the scheduler which writes ends only when raft answers: while its raft has a quorum
(`contact`) or once it has failed. When a group fails, the controller reports and drops
the `JoinSet`, which only asks for the other groups' tasks to be aborted; until
`Cancelled` they go on, and may even start works. Their works then learn of it from
their dropped channels. `Slots` has room for one instance
more than the code needs, so that a second one would be seen.

## Runs

| Run | Instance | Shows |
|---|---|---|
| `task_queue` | 2 tasks, 2 workers, 1 epoch, 1 key, 2 times | index, idempotency and commit properties under every command sequence; the life cycle refinement |
| `exec_recovery` | 1 task, irreversible or not, 2 workers, 2 attempts, 2 faults | at most once, done means performed, the task is settled in the end |
| `peer_guard` | 3 callers, 2 keys, threshold 2, 2 permits | permits, streaks and cooldowns |
| `replica_store` | 3 entries, 3 snapshots, retain 2, 3 unsynced states | restart, no loss, read copy, newest snapshot |
| `replica_label` | violation | a snapshot's data can be newer than its label |
| `membership_change` | 4 nodes, 1 operator slot, 2 operations, 3 flaps, 1 fault | operators remove only whom they name; a dead voter is replaced |
| `membership_stale` | violation | the guard undoes a join made between its read and its lock |
| `kv_service` | 2 clients, 2 nodes, 1 key, 2 writes, 2 elections or restarts | requests are linearizable (`LinearKv`); a reader's handle covers its read index; the secondary is worked on by one reader |
| `control_rpc` | 3 control nodes, 2 known at first, one renewing and one polling loop, one front end, 3 redirects | requests and copies of a command are bounded; reads find a stable leader |
| `lease_clock` | interval 1, ttl 9, patches, delay, lag and one missed round of 1 each, grace 2, one crash or new leader | which ttl keeps a live worker, release of a dead one, full grace for a dark one |
| `leader_works` | a tasks and a kv group, 2 slots, a dead member in kv, 1 panic or raft failure | one instance per work, no work without somebody or something to stop it, works follow the role, shutdown completes while the quorum stays |
| `works_hang` | violation | a graceful stop hangs on a scheduler that waits for a quorum |

Why the bounds are enough. Two tasks and one key make two tasks compete for a
key; two workers are what an assignment can move between; two times tell a
retried `run_at` from the first. `exec_recovery` enqueues one task (`MaxMinted`), either
the irreversible or the reversible one, under one lease epoch: that a second epoch does
no harm to `AtMostOnce` is proved, that it does none to `EventuallySettled` is not shown.
Attempts saturate at 2 there, the number at which a failure becomes final. Two faults make, for example, a duplicate mark
arrive after a premature requeue, or a crash follow a lost reply. With two shared permits and
three callers both limits reject, and threshold 2 is the least at which a streak
is more than one failure. Three entries with retain count 2 (the code keeps
3 files) and three snapshots allow a build to take its label before an install and its
epoch after it, and pruning to choose between the two; three
unsynced states let a power loss fall between two unsynced writes. Two operations and
one fault make an operation start from the joint configuration another left.
One update that checks, another client's delete and a late commit make two writes,
and two faults an election with a restart; `RebuildGap` is 0 (the code: 8192) so that
one write beside a catch-up already takes the rebuild branch. `MaxRedirects` has the code's value,
and three nodes are the fewest whose hints form a circle around a caller that knows
two. In `LeaseClock` each source of delay is one unit, and the ttl of nine is just what
`Needed` asks for once a patch has doubled the interval, so the premise of `LiveIsKept`
holds with nothing to spare. `Needed` is exact: with one less, and a ttl of six for an
interval of one, TLC finds `LiveIsKept` violated. Two groups make one abort the other in the middle of an await.
Node, client, patcher and task names only meet in equality tests, so the symmetry sets are sound;
runs that check liveness use none. Counters that grow without end are cut by
guards named as bounds in the modules (`MaxEpoch`, `MaxMinted`, `MaxFaults`, `MaxNow`,
`MaxIndex`, `MaxSnapshots`, `MaxUnsynced`, `MaxFlaps`, `MaxOps`, `MaxLog`, `MaxLate`,
`MaxPatches`, `MaxTurns`).
`CHECK_DEADLOCK FALSE` stands where the bounds themselves end every behaviour (the
clock of `PeerGuard`; flaps and operations of `MembershipChange`, where a leader
that was voted out has nothing left to do).

Each property has a mutant in PROJECT.json: a definition with a plausible slip
(a dropped fence, a leaked permit, an off-by-one), marked `MUTANT` in the module,
under which TLC finds the property violated.

### Fairness

`FairExecSpec` assumes that scheduler passes (a timer loop plus a change signal,
`run_task_scheduler`), the fallback poll (`drain_assigned_tasks`), lease renewal
and process restarts recur, that a running execution takes its next step (each
await of the worker has a timeout), and strong fairness for a permit, which tokio's semaphore
grants in order of arrival. Nothing is assumed of wakes: they may all be lost. That
passes recur supposes that some leader of the tasks group has a quorum: the scheduler's
own `client_write` has no timeout.
Restart is fair because the deployment (a k8s `StatefulSet`) restarts nodes. `FairMemberSpec` assumes
that the guard ticks while its node leads and that a spawned change or an
accepted operation goes on or fails; its calls have a timeout. `FairControlSpec`
assumes that a request ends (each has a timeout), that the renewal and poll loops
call again (both are timer loops); that a leader is stable and reachable is a
premise of `ReadsRecover`, not an assumption. `FairWorksSpec` assumes that a task that can run does, that a pass ends unless it waits
for raft and raft answers while it stays in contact with a quorum (the scheduler's
`client_write` has no timeout, `tasks/scheduler.rs:193`, `:237`, `:303`), that
`select!` takes a ready branch in the end although others are ready too (it polls in
random order, hence strong fairness), and that a process that ended is started
again. Nothing is assumed of the role, which may flip for ever, nor of the quorum, which
may be lost for good: `WorksFollowRole` and `ShutdownCompletes` have it as a premise.
`ObligingWorksSpec`, of the violation run, assumes more, so that its counterexample does
not rest on a raft that comes and goes: a pass ends too if the quorum only returns again
and again.

## Proofs

Proved with TLAPS, for every value of the constants that satisfies the named
assumptions in the modules (absent values are not members of their sets; limits
are natural numbers, positive where the code has them so; `Epoch = 1..MaxEpoch`;
the command line's lease interval is below its ttl; `MaxTtl` bounds every ttl, as
`u64` does). Every safety property of every passing run is a theorem, and so are
the three refinements. Each rests on an inductive invariant stated in the module
beside the properties; TLC has checked it on the run's instance before it was proved.

- `TaskProofs`, first part. `IndexInv` is inductive: types, the exactness of the three
  indexes, the idempotency table, `CommittedNeverWaits`, and `OwnerShape` (an
  in-flight record names its owner, a queued or failed one none). `OwnerShape`
  is what the indexes need: without it a requeue could leave an assigned key
  behind. `CommittedNeverWaits` rests on the fences of `apply_fail`,
  `apply_requeue` and `apply_replay`. From it follow the four invariants, the
  action property `CommitIsFinal`, and the refinement of `TaskLifecycle`.
- `TaskProofs`, second part. Every step is a task command or leaves the replicated state
  alone, so `IndexInv` holds here too. `EffectInv` is the
  strengthening of `AtMostOnce`: an effect happened only past the commit point
  (`EffectsArePast`); an execution about to perform it is the first, and owns the
  record if that still runs (`EffectIsOwned`); there is only one
  (`EffectIsUnique`); an execution whose mark would be accepted comes before any
  effect (`MarkableIsFirst`); ids are minted once (`RecordsAreMinted`).
  `DoneMeansPerformed` needs `SuccessIsEarned`: every claim of success, whether in a
  worker's slot, in a leftover copy of a command or in the record, comes after the
  effect, because a copy is only ever made of what a slot holds.
- `PeerGuardProofs`. `GuardInv` adds the bound on the stamps that in-flight
  permits carry. Conservation of permits is a cardinality argument: each step
  moves at most one caller in or out of the holders.
- `ReplicaStoreProofs`. `StoreInv` says that every database state a power loss can
  fall back to is complete in itself (`DatabaseOK`: no hole in the log, the log
  reaches what is committed, only applied entries were purged, the data holds what is
  applied). Each batch leaves it so, so it does not matter which one a crash takes.
  The second half is about epochs. They are not in the order of the log: a build may read
  its label before an install and take its epoch after it. But only one build runs at a
  time and a later one reads a later label, so of all epochs handed out at most one
  overtakes any given one (`FewOvertake`). Of two files kept with later epochs one is
  therefore as new by index as the file that is removed, which is `SnapshotsAdvance`, for
  every `RetainCount` from 2 on (the code's is 3; with 1 it would fail). That a finite set of numbers has a greatest member, which
  `Max` needs, is proved there from well-founded induction.
- `MembershipChangeProofs`. The fence does the work: only its holder changes the
  configuration, so the goal an operation computed from the voters leaves out nobody
  but those it names until it is reached (`GoalsAreFresh`), whatever joint set the
  change before it left. That voters are members (`VotersAreMembers`) is a lemma there
  that openraft guarantees, not a claim about this code. The guard's goal has no such clause, and cannot: this is the
  finding `membership_stale`.
- `KvServiceProofs`. `KvInv` ties each request to the log and the databases: a read
  index covers what was committed at the call (`IndexCovers`), the handle a reader
  uses covers the index, an instance that a rebuild replaced frozen no lower
  (`HandleCovers`), and a write that waits has its place in the log (`WriteInLog`).
  Log and databases only grow, so a request that a step does not move stays right.
  `LinearizableImplemented` is the refinement of `LinearKv`, action by action; only
  seven actions change what the abstract specification sees.
- `LeaderWorksProofs`. `WorksInv`: a group's task has every instance of a work that is
  not gone in `running`, ended or not (`Tracked`); it starts works only while it has none
  (`PcFits`); and a held fence is one change. The invariant speaks of each group's task,
  not of the controller, since after an error the others go on until they are aborted; a
  task that is gone starts nothing again, so what it leaves behind has its stop signal
  and can only end.
- `LeaseClockProofs`. `ClockInv` bounds each lease from both sides. From below: a lease
  has run for at most `MaxDelay` when it is applied, and for as long again when its reply
  comes, whatever older copy is applied meanwhile; the time since that reply
  is at most `Elapsed`, the rounds missed and the present one; with the
  greatest interval configured this never exceeds `Rounds(MaxMisses + 1, high)`. This
  gives `LiveIsKept`, with the exact `Needed`. From above: a lease and the time its
  worker has been down add up to at most the greatest ttl, also for a renewal applied
  late (`Spent`). This gives `DeadIsReleased` with a bound of one ttl and one pass,
  to which neither the delay of a submission nor the lag of a reader adds.
- `ControlRpcProofs`. `RpcInv`: a call under way has paid for each target it gave up
  with at most `MaxRedirects + 1` requests and one commit (`Fits`).

The proofs are about the specifications without fairness; what is proved of those holds
of the fair ones. Only model-checked is what the prover cannot do: liveness
(`EventuallySettled`, `DeadVoterIsReplaced`, `ReadsRecover`, `WorksFollowRole`,
`ShutdownCompletes`). The three violation runs are TLC's too.

## Assumptions

- Task ids are minted once (uuid v7), and a copy of an enqueue does not arrive
  after the retention period has removed its task.
- One worker process per node id. The lease epochs of a worker repeat at the
  bound `MaxEpoch`, which makes fencing weaker than in the code.
- A `ReplicaStore` log id is an index; terms, and the saved vote, are not there.
- `MembershipChange` has one leader for the whole behaviour: the fence is local
  to a process and says nothing about another leader's operations.
- A catch-up of the secondary that succeeds reaches what the primary held at the call.
  If RocksDB could return early with a gap of at most `SECONDARY_REBUILD_GAP`, `synced_db`
  would accept it, and reads could be stale by up to that gap.
- A `ControlRpc` node that is reachable once the cluster is settled stays reachable.
  `ReadsRecover` is about a worker's loops: the HTTP front end of a worker-mode node has a
  `ControlNodes` of its own, which no renewal corrects.
- A submission is applied and answered, or lost, within `MaxDelay`; the clocks of worker and leader
  run at the same speed and agree on the time up to what `MaxLag` absorbs.

## Where the code and its documentation disagree

With a violation run; PROJECT.json quotes the lines.

1. *Snapshot label* (`replica_label`). The label is read before the point-in-time view
   is taken. Nothing is lost (`NothingLost`), but entries are applied again on top of
   their own effects after an install or recovery.
2. *Stale voters* (`membership_stale`). The guard computes the new voters from a copy
   read before it took the fence.
3. *Graceful stop* (`works_hang`). A leader that lost its quorum with a scheduler's write
   pending never answers it, `stop()` awaits the scheduler (`leader_controller.rs:79`),
   `await_all` the controller (`signal.rs:135`), and raft is shut down only after them
   (`app/mod.rs:938`).

Without one, as observations the models bear out:

- *Attempt budget.* `tasks/mod.rs:65` promises a maximum of executions; `apply_requeue`
  (`tasks/apply.rs:446`) never looks at the attempts, so requeues are free.
- *One node.* `tasks/mod.rs:29` says a side effect executes on exactly one node; the
  stuck timeout requeues under a live handler (`tasks/scheduler.rs:174`). Irreversible
  effects are safe (`AtMostOnce`), the other payloads can run twice.
- *Circuit breaker.* The cooldown starts at admission, not at the failure
  (`network/peer_guard.rs:245` against its lines 11 to 14): a slow failure opens the
  circuit until a time already past, and may put an earlier deadline over a later one.
  `OpenIsBounded` is only the other side: never longer than one cooldown.
- *Lease margin.* Validation asks for `interval < ttl` so that a worker survives a
  missed round (`runtime_config.rs:53`). `LiveIsKept` gives the real condition: with
  submissions of up to D and readers late by L, one missed round needs
  ttl >= 2 (interval + D) + 2 D + L. The defaults, 10 and 30 seconds, have it while
  4 D + L <= 10. Raising the interval above the ttl of a lease in force loses a live
  worker's lease once.
- *Racing patches.* `runtime_config.rs:53` says of the interval "(validated: interval <
  ttl)" and `:126` "Validate and atomically apply a partial update". The check at `:167`
  reads `current()` and the `rcu` at `:182` does not repeat it: two concurrent patches,
  one raising the interval and one lowering the ttl, can store interval >= ttl.
- *Wedged voter.* `membership_guard.rs:16` to `:20` says that a connection libp2p reports
  while the raft runtime is wedged "no longer masks" a replacement. A member that either
  observer calls alive is alive (`:179`), so such a connection does mask it.
- *Panicked works.* A scheduler or guard that panics is not started again while its
  node keeps the lead (`leader_controller.rs:244`); it shows as an error when the role
  changes.
- *Down clocks.* `tasks/scheduler.rs:91` says `down_since` is scoped to the leadership
  term. A loss and regain of the lead that the watch channel coalesces leaves the old
  scheduler, and its clocks, in place.
- *Local reads.* The scheduler reads its own data without a linearizable read; the
  commands it proposes are fenced, so this costs a pass and no safety (`AtMostOnce`).

## Not modelled, and the plan

Done in this order: the task domain and its life cycle, execution around it, the
RPC guard, the store, membership, key-value requests, submission over control nodes,
the lease clocks with the runtime configuration, the leader controller. Next:

1. The vote across several replicas, with unsynced writes
   (`rocksstore_crud/log_store.rs:283`). It needs openraft's election in the model,
   of which this repository has no source.

Left out, and why:

- The joining side (`app/membership_join.rs`) retries the operations `MembershipChange`
  has, from another process, with the redirect rule `ControlRpc` has.
- Swarm, reconnect and codecs (`network/`): timers and dials whose effect on the rest
  is that a message arrives late, twice or never, which every model here allows.
- Wasm distribution (`wasm_sync/`): content addressed by digest, so a wrong or partial
  download is refused whatever the order; the embedded runtime is one
  nondeterministic outcome of a handler.
- The SQLite cache: a derived copy, rebuilt from the replicated state.
- HTTP parsing, CLI tools, telemetry, graph rendering and deployment scripts: pure
  conversion and I/O.
- The other crates of the repository share nothing with this one; each is an
  independent example, most of one file and without state of its own. This is why the
  models cover a small share of the repository's lines.
