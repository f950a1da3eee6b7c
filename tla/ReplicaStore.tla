----------------------------- MODULE ReplicaStore -----------------------------
(***************************************************************************)
(* The storage of one raft replica: the log and the state machine in one   *)
(* RocksDB (rocksstore_crud/log_store.rs, state_machine.rs), the snapshot  *)
(* files beside it, and the integrity check at startup (store.rs).  The    *)
(* raft core that calls the storage is external: it appends, commits,      *)
(* truncates and purges by the rules openraft follows.                     *)
(*                                                                         *)
(* Log indexes count from 1, and 0 is "no log id".  Application data is    *)
(* the sequence of log indexes applied to it, so that an entry applied     *)
(* twice, or data newer than its label, can be told apart.                 *)
(***************************************************************************)
EXTENDS Integers, Sequences, FiniteSets, FiniteSetsExt

CONSTANTS
    MaxIndex,       \* bound: last log index
    MaxSnapshots,   \* bound: snapshot epochs handed out
    MaxUnsynced,    \* bound: database states a power loss can fall back to
    RetainCount     \* SNAPSHOT_RETAIN_COUNT (3 in the code)

ASSUME StoreAssumption ==
    /\ MaxIndex \in Nat /\ MaxSnapshots \in Nat /\ MaxUnsynced \in Nat
    /\ RetainCount \in Nat /\ RetainCount >= 2

VARIABLES
    db,       \* the RocksDB: [log, purged, committed, applied, data]
    tail,     \* the states of db a power loss may leave behind
    sync,     \* rocksdb_sync_writes
    files,    \* snapshot files: [epoch, log, data]
    epoch,    \* snapshot_epoch: the next epoch
    mem,      \* the in-memory copy of the application data
    commit,   \* the raft core's committed index
    sm,       \* the state machine worker: the operation it is in the middle of
    builder,  \* the snapshot build running beside it
    status    \* "up", "down", or "refused" by the integrity check

storeVars == <<db, tail, sync, files, epoch, mem, commit, sm, builder, status>>

Indexes == 1 .. MaxIndex
EntriesFrom(i, j) == [k \in 1 .. (j - i) |-> i + k]   \* entries i+1 .. j

Files == [epoch: Nat, log: Nat, data: Seq(Nat)]
Idle  == [op |-> "idle"]

Init ==
    /\ db = [log |-> {}, purged |-> 0, committed |-> 0, applied |-> 0, data |-> <<>>]
    /\ tail = {db}
    /\ sync = TRUE
    /\ files = {}
    /\ epoch = 1
    /\ mem = <<>>
    /\ commit = 0
    /\ sm = Idle
    /\ builder = Idle
    /\ status = "up"

(* One write batch: all of it or none survives, and a synced write makes   *)
(* everything before it durable too.                                       *)
Write(new) ==
    /\ sync \/ Cardinality(tail) < MaxUnsynced
    /\ db' = new
    /\ tail' = IF sync THEN {new} ELSE tail \cup {new}

last_log_id(d) == IF d.log = {} THEN d.purged ELSE Max(d.log)

-----------------------------------------------------------------------------
(* The log store *)

append ==
    /\ status = "up"
    /\ last_log_id(db) >= commit
    /\ last_log_id(db) < MaxIndex
    /\ Write([db EXCEPT !.log = @ \cup {last_log_id(db) + 1}])
    /\ UNCHANGED <<sync, files, epoch, mem, commit, sm, builder, status>>

save_committed(n) ==
    /\ status = "up"
    /\ n > commit /\ n <= last_log_id(db)
    /\ commit' = n
    /\ Write([db EXCEPT !.committed = n])
    /\ UNCHANGED <<sync, files, epoch, mem, sm, builder, status>>

truncate_after(n) ==
    /\ status = "up"
    /\ n >= commit /\ n < last_log_id(db)
    /\ Write([db EXCEPT !.log = {i \in @ : i <= n}])
    /\ UNCHANGED <<sync, files, epoch, mem, commit, sm, builder, status>>

Purged(d, n) == [d EXCEPT !.purged = n, !.log = {i \in @ : i > n}]

Labels == {0} \cup {f.log : f \in files}

\* MUTANT: purging does not wait for a snapshot.
purge_unsnapshotted(n) ==
    /\ status = "up"
    /\ n > db.purged /\ n <= last_log_id(db)
    /\ Write(Purged(db, n))
    /\ UNCHANGED <<sync, files, epoch, mem, commit, sm, builder, status>>

purge(n) ==
    /\ status = "up"
    /\ n > db.purged /\ n <= Max(Labels)
    /\ Write(Purged(db, n))
    /\ UNCHANGED <<sync, files, epoch, mem, commit, sm, builder, status>>

-----------------------------------------------------------------------------
(* apply: data and last_applied in one batch, then the in-memory copy *)

apply(n) ==
    /\ status = "up" /\ sm.op = "idle"
    /\ n > db.applied /\ n <= commit
    /\ (db.applied + 1 .. n) \subseteq db.log
    /\ Write([db EXCEPT !.applied = n, !.data = @ \o EntriesFrom(db.applied, n)])
    /\ sm' = [op |-> "apply", changes |-> EntriesFrom(db.applied, n)]
    /\ UNCHANGED <<sync, files, epoch, mem, commit, builder, status>>

apply_memory_changes ==
    /\ status = "up" /\ sm.op = "apply"
    /\ mem' = mem \o sm.changes
    /\ sm' = Idle
    /\ UNCHANGED <<db, tail, sync, files, epoch, commit, builder, status>>

-----------------------------------------------------------------------------
(* Snapshots.  Newest on disk is by log id, then by creation; pruning goes *)
(* by epoch alone.                                                         *)

snapshot_is_newer(f, g) == f.log > g.log \/ (f.log = g.log /\ f.epoch > g.epoch)

IsLatest(f) == \A g \in files \ {f} : snapshot_is_newer(f, g)

\* MUTANT: one file too few is kept.
prune_one_more(fs) ==
    {f \in fs : Cardinality({g \in fs : g.epoch > f.epoch}) < RetainCount - 1}

prune_old_snapshots(fs) ==
    {f \in fs : Cardinality({g \in fs : g.epoch > f.epoch}) < RetainCount}

(* The worker starts a build between two of its own operations, one at a   *)
(* time; the build then runs beside them.                                  *)
StartBuild ==
    /\ status = "up" /\ sm.op = "idle" /\ builder.op = "idle"
    /\ db.applied > 0 /\ epoch <= MaxSnapshots
    /\ builder' = [op |-> "spawned"]
    /\ UNCHANGED <<db, tail, sync, files, epoch, mem, commit, sm, status>>

(* build_snapshot reads the label, ...                                     *)
build_snapshot ==
    /\ status = "up" /\ builder.op = "spawned"
    /\ builder' = [op |-> "labelled", log |-> db.applied]
    /\ UNCHANGED <<db, tail, sync, files, epoch, mem, commit, sm, status>>

(* ... then takes an epoch, ...                                            *)
TakeEpoch ==
    /\ status = "up" /\ builder.op = "labelled"
    /\ epoch <= MaxSnapshots
    /\ builder' = [op |-> "numbered", epoch |-> epoch, log |-> builder.log]
    /\ epoch' = epoch + 1
    /\ UNCHANGED <<db, tail, sync, files, mem, commit, sm, status>>

(* ... takes the RocksDB snapshot on another thread, ...                   *)
CaptureData ==
    /\ status = "up" /\ builder.op = "numbered"
    /\ builder' = [op |-> "captured",
                   file |-> [epoch |-> builder.epoch, log |-> builder.log, data |-> db.data]]
    /\ UNCHANGED <<db, tail, sync, files, epoch, mem, commit, sm, status>>

\* MUTANT: the label is read after the data.
write_snapshot_file_relabelled ==
    /\ status = "up" /\ builder.op = "captured"
    /\ files' = files \cup {[builder.file EXCEPT !.log = db.applied]}
    /\ builder' = [op |-> "written"]
    /\ UNCHANGED <<db, tail, sync, epoch, mem, commit, sm, status>>

(* ... renames the finished file into place, ...                           *)
write_snapshot_file ==
    /\ status = "up" /\ builder.op = "captured"
    /\ files' = files \cup {builder.file}
    /\ builder' = [op |-> "written"]
    /\ UNCHANGED <<db, tail, sync, epoch, mem, commit, sm, status>>

(* ... and, having pruned, is done.  A file that could not be removed is   *)
(* left for the next time.                                                 *)
SnapshotBuilt ==
    /\ status = "up" /\ builder.op = "written"
    /\ builder' = Idle
    /\ UNCHANGED <<db, tail, sync, files, epoch, mem, commit, sm, status>>

Restored(d, f) == [d EXCEPT !.applied = f.log, !.data = f.data]

(* install_snapshot of what a leader sent: an epoch, the database, the     *)
(* file, then the in-memory copy.  The raft core counts the snapshot as    *)
(* committed from the start.                                               *)
install_snapshot(n) ==
    /\ status = "up" /\ sm.op = "idle"
    /\ n > commit /\ epoch <= MaxSnapshots
    /\ sm' = [op |-> "numbered",
              file |-> [epoch |-> epoch, log |-> n, data |-> EntriesFrom(0, n)]]
    /\ epoch' = epoch + 1
    /\ commit' = n
    /\ UNCHANGED <<db, tail, sync, files, mem, builder, status>>

restore_snapshot_to_db ==
    /\ status = "up" /\ sm.op = "numbered"
    /\ Write(Restored(db, sm.file))
    /\ sm' = [op |-> "install", file |-> sm.file]
    /\ UNCHANGED <<sync, files, epoch, mem, commit, builder, status>>

PersistInstalled ==
    /\ status = "up" /\ sm.op = "install"
    /\ files' = files \cup {sm.file}
    /\ sm' = [op |-> "swap", data |-> sm.file.data]
    /\ UNCHANGED <<db, tail, sync, epoch, mem, commit, builder, status>>

(* Whoever has just renamed a file into place removes the old ones, one    *)
(* after the other.                                                        *)
Prune(f) ==
    /\ status = "up" /\ (builder.op = "written" \/ sm.op = "swap")
    /\ f \notin prune_old_snapshots(files)
    /\ files' = files \ {f}
    /\ UNCHANGED <<db, tail, sync, epoch, mem, commit, sm, builder, status>>

\* MUTANT: the in-memory copy is not swapped.
SwapMemory_skipped ==
    /\ status = "up" /\ sm.op = "swap"
    /\ sm' = Idle
    /\ UNCHANGED <<db, tail, sync, files, epoch, mem, commit, builder, status>>

SwapMemory ==
    /\ status = "up" /\ sm.op = "swap"
    /\ mem' = sm.data
    /\ sm' = Idle
    /\ UNCHANGED <<db, tail, sync, files, epoch, commit, builder, status>>

-----------------------------------------------------------------------------
(* Crash, restart, configuration *)

SetSyncWrites ==
    /\ status = "up"
    /\ sync' = ~sync
    /\ UNCHANGED <<db, tail, files, epoch, mem, commit, sm, builder, status>>

Crash ==
    /\ status = "up"
    /\ db' \in tail
    /\ tail' = {db'}
    /\ mem' = <<>> /\ sm' = Idle /\ builder' = Idle /\ commit' = 0
    /\ status' = "down"
    /\ UNCHANGED <<sync, files, epoch>>

recover_from_latest_snapshot_if_newer(d) ==
    IF files = {} \/ Max(Labels) <= d.applied THEN d
    ELSE Restored(d, CHOOSE f \in files : IsLatest(f))

(* The log is contiguous: from just after the purge point, or, before any  *)
(* purge, from its first entry.                                            *)
verify_log_entries(d) ==
    d.log # {} =>
        d.log = (IF d.purged > 0 THEN d.purged + 1 ELSE Min(d.log)) .. last_log_id(d)

\* MUTANT: the durable tip ignores snapshots.
verify_against_log_only(d) ==
    LET durable_tip == last_log_id(d)
    IN  /\ d.purged <= last_log_id(d)
        /\ d.committed <= durable_tip /\ d.applied <= durable_tip
        /\ verify_log_entries(d)

verify_openraft_store_integrity(d) ==
    LET durable_tip == Max({last_log_id(d), d.applied} \cup Labels)
    IN  /\ d.purged <= last_log_id(d)
        /\ d.committed <= durable_tip /\ d.applied <= durable_tip
        /\ verify_log_entries(d)

\* MUTANT: the highest epoch on disk is used again.
last_snapshot_epoch == Max({0} \cup {f.epoch : f \in files})

next_snapshot_epoch == Max({0} \cup {f.epoch : f \in files}) + 1

(* Startup: recover, load the copy, verify; then openraft drops a log that *)
(* ends before what is applied.                                            *)
Restart ==
    /\ status = "down"
    /\ epoch' = next_snapshot_epoch
    /\ LET d == recover_from_latest_snapshot_if_newer(db)
           e == IF last_log_id(d) < d.applied THEN Purged(d, d.applied) ELSE d
       IN  IF verify_openraft_store_integrity(d)
           THEN /\ db' = e
                /\ tail' = IF sync THEN {e} ELSE {db, d, e}
                /\ mem' = d.data
                /\ commit' = Max({d.committed, d.applied})
                /\ status' = "up"
           ELSE /\ status' = "refused"
                /\ UNCHANGED <<db, tail, mem, commit>>
    /\ UNCHANGED <<sync, files, sm, builder>>

-----------------------------------------------------------------------------
Next ==
    \/ append \/ apply_memory_changes
    \/ \E n \in Indexes : save_committed(n) \/ purge(n) \/ apply(n) \/ install_snapshot(n)
    \/ \E n \in 0 .. MaxIndex : truncate_after(n)
    \/ StartBuild \/ build_snapshot \/ TakeEpoch \/ CaptureData
    \/ write_snapshot_file \/ SnapshotBuilt
    \/ restore_snapshot_to_db \/ PersistInstalled \/ SwapMemory
    \/ \E f \in files : Prune(f)
    \/ SetSyncWrites \/ Crash \/ Restart

StoreSpec == Init /\ [][Next]_storeVars

-----------------------------------------------------------------------------
(* Every variable has its type. *)
StoreTypeOK ==
    /\ \A d \in tail \cup {db} :
          /\ d.log \subseteq Indexes /\ d.data \in Seq(Indexes)
          /\ {d.purged, d.committed, d.applied} \subseteq 0 .. MaxIndex
    /\ db \in tail
    /\ sync \in BOOLEAN
    /\ files \subseteq Files
    /\ epoch \in 1 .. MaxSnapshots + 1
    /\ mem \in Seq(Indexes)
    /\ commit \in 0 .. MaxIndex
    /\ sm.op \in {"idle", "apply", "numbered", "install", "swap"}
    /\ builder.op \in {"idle", "spawned", "labelled", "numbered", "captured", "written"}
    /\ status \in {"up", "down", "refused"}

(* Whatever a crash or a power loss leaves behind, in the middle of any    *)
(* append, truncation, purge, apply or install, the startup check          *)
(* verify_openraft_store_integrity accepts it: a replica never locks       *)
(* itself out.                                                             *)
NeverRefused == status # "refused"

(* The raft core can always feed the state machine: what is not applied    *)
(* yet has not been purged, after any recovery.                            *)
LogReachesApplied ==
    status = "up" /\ last_log_id(db) > db.applied
        => (db.applied + 1 .. last_log_id(db)) \subseteq db.log

Holds(data, n) == \A i \in 1 .. n : \E k \in DOMAIN data : data[k] = i

(* No entry the store says it applied is missing from its data, nor from   *)
(* the data of any snapshot file labelled with it or a later one.          *)
NothingLost ==
    /\ Holds(db.data, db.applied)
    /\ \A f \in files : Holds(f.data, f.log)

(* Between operations the in-memory copy that serves reads is what the     *)
(* database holds, although the two are updated one after the other.       *)
MemoryIsDatabase == status = "up" /\ sm.op = "idle" => mem = db.data

(* The newest snapshot on disk never gets older.  Epochs are not in the    *)
(* order of the log: a build that read its label before an install may     *)
(* take the later epoch.  Pruning goes by epoch, yet what it keeps always  *)
(* holds a file as new by log id as any it removes.                        *)
SnapshotsAdvance == [][Max(Labels') >= Max(Labels)]_storeVars

(* What the snapshot builder's comment claims: a snapshot file is a        *)
(* consistent point-in-time view, so its data is what its label says.      *)
SnapshotMatchesLabel == \A f \in files : f.data = EntriesFrom(0, f.log)

-----------------------------------------------------------------------------
(* Why these hold: the inductive invariant.                                *)

Databases ==
    [log : SUBSET Indexes, purged : 0 .. MaxIndex, committed : 0 .. MaxIndex,
     applied : 0 .. MaxIndex, data : Seq(Indexes)]

(* Every state of the database that a crash may leave: the log has no hole *)
(* and reaches what is committed, and only applied entries were purged.    *)
DatabaseOK(d) ==
    /\ d \in Databases
    /\ d.log = d.purged + 1 .. last_log_id(d)
    /\ d.committed <= last_log_id(d) /\ d.purged <= d.applied
    /\ Holds(d.data, d.applied)

Snapshots == [epoch : 1 .. MaxSnapshots, log : 0 .. MaxIndex, data : Seq(Indexes)]

SnapshotOK(f) == f \in Snapshots /\ Holds(f.data, f.log)

WorkerOK ==
    \/ sm = Idle /\ (status = "up" => mem = db.data)
    \/ /\ sm \in [op : {"apply"}, changes : Seq(Indexes)]
       /\ mem \o sm.changes = db.data
    \/ /\ sm \in [op : {"numbered"}, file : Snapshots]
       /\ SnapshotOK(sm.file) /\ db.applied < sm.file.log /\ sm.file.log <= commit
    \/ /\ sm \in [op : {"install"}, file : Snapshots]
       /\ SnapshotOK(sm.file) /\ sm.file.data = db.data
    \/ /\ sm \in [op : {"swap"}, data : Seq(Indexes)]
       /\ sm.data = db.data

BuilderOK ==
    \/ builder \in [op : {"idle", "spawned", "written"}]
    \/ builder \in [op : {"labelled"}, log : 0 .. MaxIndex]
    \/ builder \in [op : {"numbered"}, epoch : 1 .. MaxSnapshots, log : 0 .. MaxIndex]
    \/ builder \in [op : {"captured"}, file : Snapshots] /\ SnapshotOK(builder.file)

(* The epochs handed out and the log index each stands for: of the files   *)
(* on disk, and of those still being written.                              *)
Label(x)   == [epoch |-> x.epoch, log |-> x.log]
Written    == {Label(f) : f \in files}
Building   == CASE builder.op = "numbered" -> {Label(builder)}
                [] builder.op = "captured" -> {Label(builder.file)}
                [] OTHER -> {}
Installing == IF sm.op \in {"numbered", "install"} THEN {Label(sm.file)} ELSE {}
Handed     == Written \cup Building \cup Installing

(* An epoch is used once.                                                  *)
EpochsUnique ==
    /\ \A p \in Handed : p.epoch < epoch
    /\ \A f, g \in files : f.epoch = g.epoch => f = g
    /\ \A p \in Written, q \in Building \cup Installing : p.epoch # q.epoch
    /\ \A p \in Building, q \in Installing : p.epoch # q.epoch

(* q was numbered after p but stands for an older index.                   *)
Overtakes(q, p) == q.epoch > p.epoch /\ q.log < p.log

(* Of the epochs handed out at most one overtakes any given one: the build *)
(* that was running when that one was installed.  So of two files kept     *)
(* with later epochs than p, one is as new as p.                           *)
FewOvertake ==
    /\ \A p, q, r \in Handed : Overtakes(q, p) /\ Overtakes(r, p) => q = r
    /\ \A p, q \in Handed :
          Overtakes(q, p) => /\ builder.op = "labelled" => p.log <= builder.log
                             /\ builder.op = "spawned" => p.log <= db.applied

(* While the node is up what it hands out is applied, but for the install  *)
(* that has not reached the database, and what is applied is committed.    *)
Current ==
    IF status = "up"
    THEN /\ db.committed <= commit /\ db.applied <= commit
         /\ \A p \in Handed : p.log <= db.applied \/ (sm.op = "numbered" /\ p = Label(sm.file))
         /\ builder.op = "labelled" => builder.log <= db.applied
    ELSE sm = Idle /\ builder = Idle

StoreInv ==
    /\ \A d \in tail : DatabaseOK(d)
    /\ db \in tail /\ sync \in BOOLEAN /\ status \in {"up", "down"}
    /\ epoch \in 1 .. MaxSnapshots + 1 /\ commit \in 0 .. MaxIndex /\ mem \in Seq(Indexes)
    /\ IsFiniteSet(files) /\ \A f \in files : SnapshotOK(f)
    /\ WorkerOK /\ BuilderOK /\ EpochsUnique /\ FewOvertake /\ Current
=============================================================================
