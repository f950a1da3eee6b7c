-------------------------- MODULE ReplicaStoreProofs --------------------------
(***************************************************************************)
(* Proofs about ReplicaStore.  Two facts carry them.  Every database state *)
(* that a power loss can fall back to is complete in itself (DatabaseOK),  *)
(* because each batch leaves it so; and although snapshot epochs are not   *)
(* handed out in the order of the log, at most one of them overtakes any   *)
(* given snapshot (FewOvertake), so that pruning by epoch keeps a file as  *)
(* new as any it removes.                                                  *)
(***************************************************************************)
EXTENDS ReplicaStore, SequenceTheorems, FiniteSetTheorems, WellFoundedInduction, TLAPS

-----------------------------------------------------------------------------
(* A finite set of numbers has a greatest element.                         *)

Inside(U, T) == U \subseteq T /\ U # T
Above(S, x)  == {y \in S : y > x}

LEMMA LeastOf ==
  ASSUME NEW S, IsFiniteSet(S), NEW F, F \subseteq SUBSET S, F # {}
  PROVE  \E T \in F : \A U \in F : ~Inside(U, T)
<1> DEFINE R == StrictSubsetOrdering(S)
<1>1. F \subseteq FiniteSubsetsOf(S)
  BY FS_Subset DEF FiniteSubsetsOf
<1>2. IsWellFoundedOn(R, FiniteSubsetsOf(S))
  BY FS_StrictSubsetOrderingWellFounded
<1>3. \E T \in F : \A U \in F : ~(<<U, T>> \in R)
  <2> HIDE DEF R
  <2> QED
    BY <1>1, <1>2, WFMin
<1> QED
  BY <1>3 DEF StrictSubsetOrdering, Inside

LEMMA AboveShrinks ==
  ASSUME NEW S \in SUBSET Int, NEW g \in S, NEW y \in S, y > g
  PROVE  Inside(Above(S, y), Above(S, g))
<1>1. \A z \in S : z \in Int
  OBVIOUS
<1>2. \A z \in S : z > y => z > g
  BY <1>1
<1>3. Above(S, y) \subseteq Above(S, g)
  BY <1>2 DEF Above
<1>4. y \in Above(S, g) /\ y \notin Above(S, y)
  BY <1>1 DEF Above
<1> QED
  BY <1>3, <1>4 DEF Inside

LEMMA GreatestOf ==
  ASSUME NEW S \in SUBSET Nat, S # {}, NEW b \in Nat, \A x \in S : x <= b
  PROVE  Max(S) \in S /\ \A x \in S : x <= Max(S)
<1>1. PICK F : F = {Above(S, x) : x \in S}
  OBVIOUS
<1>2. F \subseteq SUBSET S /\ F # {}
  BY <1>1 DEF Above
<1>3. IsFiniteSet(S) /\ S \in SUBSET Int
  BY FS_BoundedSetOfNaturals
<1>4. PICK T \in F : \A U \in F : ~Inside(U, T)
  BY <1>2, <1>3, LeastOf
<1>5. PICK g \in S : T = Above(S, g)
  BY <1>1
<1>6. ASSUME NEW y \in S, y > g PROVE FALSE
  <2>1. Above(S, y) \in F
    BY <1>1
  <2> QED
    BY <1>3, <1>4, <1>5, <1>6, <2>1, AboveShrinks
<1>7. \A x \in S : g >= x
  BY <1>6
<1>8. Max(S) \in S /\ \A x \in S : Max(S) >= x
  BY <1>7 DEF Max
<1> QED
  BY <1>8

(* The last element of a log without holes.                                *)
LEMMA LastOf ==
  ASSUME NEW d, NEW p \in Nat, NEW k \in Nat, p <= k, d.purged = p, d.log = p + 1 .. k
  PROVE  last_log_id(d) = k
<1>1. CASE p = k
  BY <1>1 DEF last_log_id
<1>2. CASE p < k
  <2> DEFINE S == p + 1 .. k
  <2>1. S \in SUBSET Nat /\ S # {} /\ k \in S /\ \A x \in S : x <= k
    BY <1>2
  <2> HIDE DEF S
  <2>2. Max(S) \in S /\ \A x \in S : x <= Max(S)
    BY <2>1, GreatestOf
  <2>3. Max(S) = k
    BY <2>1, <2>2
  <2> QED
    BY <2>1, <2>3 DEF last_log_id, S
<1> QED
  BY <1>1, <1>2

LEMMA DatabaseFacts ==
  ASSUME NEW d, DatabaseOK(d)
  PROVE  /\ last_log_id(d) \in 0 .. MaxIndex /\ d.purged <= last_log_id(d)
         /\ d.log \subseteq Indexes /\ d.data \in Seq(Indexes)
         /\ d.purged \in 0 .. MaxIndex /\ d.committed \in 0 .. MaxIndex /\ d.applied \in 0 .. MaxIndex
         /\ MaxIndex \in Nat
<1>1. /\ d.log \subseteq Indexes /\ d.data \in Seq(Indexes) /\ MaxIndex \in Nat
      /\ d.purged \in 0 .. MaxIndex /\ d.committed \in 0 .. MaxIndex /\ d.applied \in 0 .. MaxIndex
  BY StoreAssumption DEF DatabaseOK, Databases
<1>2. d.log = d.purged + 1 .. last_log_id(d)
  BY DEF DatabaseOK
<1>3. CASE d.log = {}
  BY <1>1, <1>3 DEF last_log_id
<1>4. CASE d.log # {}
  <2>1. d.log \in SUBSET Nat /\ \A x \in d.log : x <= MaxIndex
    BY <1>1 DEF Indexes
  <2>2. Max(d.log) \in d.log
    BY <1>1, <1>4, <2>1, GreatestOf
  <2>3. last_log_id(d) \in d.log
    BY <1>4, <2>2 DEF last_log_id
  <2>4. last_log_id(d) \in 1 .. MaxIndex
    BY <1>1, <2>3 DEF Indexes
  <2>5. d.purged + 1 <= last_log_id(d)
    BY <1>1, <1>2, <2>3, <2>4
  <2> QED
    BY <1>1, <2>4, <2>5
<1> QED
  BY <1>1, <1>3, <1>4

(* Entries and the data they leave.                                        *)
LEMMA EntriesTyped ==
  ASSUME NEW i \in 0 .. MaxIndex, NEW j \in 0 .. MaxIndex, i <= j
  PROVE  /\ EntriesFrom(i, j) \in Seq(Indexes) /\ Len(EntriesFrom(i, j)) = j - i
         /\ \A k \in 1 .. (j - i) : EntriesFrom(i, j)[k] = i + k
<1>1. j - i \in Nat /\ MaxIndex \in Nat
  BY StoreAssumption
<1>2. \A k \in 1 .. (j - i) : i + k \in Indexes
  BY <1>1 DEF Indexes
<1>3. EntriesFrom(i, j) \in [1 .. (j - i) -> Indexes]
  BY <1>2 DEF EntriesFrom
<1>4. EntriesFrom(i, j) \in Seq(Indexes)
  BY <1>1, <1>3
<1>5. Len(EntriesFrom(i, j)) = j - i
  BY <1>1, <1>3, <1>4
<1> QED
  BY <1>4, <1>5 DEF EntriesFrom

LEMMA EntriesHold == ASSUME NEW n \in 0 .. MaxIndex PROVE Holds(EntriesFrom(0, n), n)
<1>1. MaxIndex \in Nat /\ n - 0 = n /\ n \in Nat
  BY StoreAssumption
<1>2. DOMAIN EntriesFrom(0, n) = 1 .. n
  BY <1>1 DEF EntriesFrom
<1>3. \A i \in 1 .. n : EntriesFrom(0, n)[i] = i
  BY <1>1 DEF EntriesFrom
<1> QED
  BY <1>2, <1>3 DEF Holds

LEMMA MoreHolds ==
  ASSUME NEW data \in Seq(Indexes), NEW i \in 0 .. MaxIndex, NEW j \in 0 .. MaxIndex, i <= j,
         Holds(data, i)
  PROVE  data \o EntriesFrom(i, j) \in Seq(Indexes) /\ Holds(data \o EntriesFrom(i, j), j)
<1> DEFINE t == EntriesFrom(i, j)
           s == data \o t
<1>1. t \in Seq(Indexes) /\ Len(t) = j - i /\ \A k \in 1 .. (j - i) : t[k] = i + k
  BY EntriesTyped
<1>2. MaxIndex \in Nat /\ i \in Nat /\ j \in Nat /\ Len(data) \in Nat
  BY StoreAssumption, LenProperties
<1> HIDE DEF t
<1>3. /\ s \in Seq(Indexes) /\ Len(s) = Len(data) + Len(t)
      /\ \A k \in 1 .. Len(s) : s[k] = IF k <= Len(data) THEN data[k] ELSE t[k - Len(data)]
  <2>1. t \in Seq(Indexes)
    BY <1>1
  <2>2. s \in Seq(Indexes) /\ Len(s) = Len(data) + Len(t)
    BY <2>1
  <2> QED
    BY <2>1, <2>2
<1>4. DOMAIN s = 1 .. Len(s) /\ DOMAIN data = 1 .. Len(data)
  BY <1>3, LenProperties
<1> HIDE DEF s
<1>5. ASSUME NEW x \in 1 .. j PROVE \E k \in DOMAIN s : s[k] = x
  <2>1. CASE x <= i
    <3>1. PICK k \in 1 .. Len(data) : data[k] = x
      BY <1>2, <1>4, <2>1 DEF Holds
    <3>2. k \in 1 .. Len(s) /\ k <= Len(data)
      BY <1>1, <1>2, <1>3, <3>1
    <3> QED
      BY <1>3, <1>4, <3>1, <3>2
  <2>2. CASE x > i
    <3> DEFINE k == Len(data) + (x - i)
    <3>1. k \in 1 .. Len(s) /\ ~(k <= Len(data)) /\ k - Len(data) = x - i /\ x - i \in 1 .. (j - i)
      BY <1>1, <1>2, <1>3, <2>2
    <3> HIDE DEF k
    <3>2. s[k] = t[x - i] /\ t[x - i] = i + (x - i)
      BY <1>1, <1>3, <3>1
    <3>3. i + (x - i) = x
      BY <1>2
    <3> QED
      BY <1>4, <3>1, <3>2, <3>3
  <2> QED
    BY <1>2, <2>1, <2>2
<1> QED
  BY <1>3, <1>5 DEF Holds, s, t

LEMMA FewerHold ==
  ASSUME NEW data, NEW i \in Nat, NEW j \in Nat, i <= j, Holds(data, j)
  PROVE  Holds(data, i)
  BY DEF Holds

-----------------------------------------------------------------------------
(* Each batch the store writes leaves a complete database.                 *)

(* A database given by its parts.                                          *)
LEMMA CompleteIf ==
  ASSUME NEW e \in Databases, NEW k \in 0 .. MaxIndex, e.purged <= k,
         e.log = e.purged + 1 .. k, e.committed <= k, e.purged <= e.applied,
         Holds(e.data, e.applied)
  PROVE  DatabaseOK(e) /\ last_log_id(e) = k
<1>1. e.purged \in Nat /\ k \in Nat
  BY StoreAssumption DEF Databases
<1>2. last_log_id(e) = k
  BY <1>1, LastOf
<1> QED
  BY <1>2 DEF DatabaseOK

LEMMA Appended ==
  ASSUME NEW d, DatabaseOK(d), last_log_id(d) < MaxIndex
  PROVE  DatabaseOK([d EXCEPT !.log = @ \cup {last_log_id(d) + 1}])
<1> DEFINE l == last_log_id(d)
           e == [d EXCEPT !.log = @ \cup {l + 1}]
<1>1. /\ d \in Databases /\ l \in 0 .. MaxIndex /\ d.purged <= l /\ d.purged \in 0 .. MaxIndex
      /\ MaxIndex \in Nat /\ d.committed \in 0 .. MaxIndex /\ d.log \subseteq Indexes
  BY DatabaseFacts DEF DatabaseOK
<1>2. d.log = d.purged + 1 .. l /\ d.committed <= l /\ d.purged <= d.applied /\ Holds(d.data, d.applied)
  BY DEF DatabaseOK
<1> HIDE DEF l
<1>3. l + 1 \in Indexes /\ l + 1 \in 0 .. MaxIndex
  BY <1>1 DEF Indexes, l
<1>4. /\ e \in Databases /\ e.log = d.log \cup {l + 1} /\ e.purged = d.purged
      /\ e.committed = d.committed /\ e.applied = d.applied /\ e.data = d.data
  BY <1>1, <1>3 DEF Databases
<1>5. d.log \cup {l + 1} = d.purged + 1 .. l + 1
  BY <1>1, <1>2
<1>6. e.purged <= l + 1 /\ e.committed <= l + 1 /\ e.purged <= e.applied /\ e.log = e.purged + 1 .. l + 1
  BY <1>1, <1>2, <1>4, <1>5
<1>7. Holds(e.data, e.applied)
  BY <1>2, <1>4
<1>8. DatabaseOK(e)
  <2> HIDE DEF e
  <2> QED
    BY <1>3, <1>4, <1>6, <1>7, CompleteIf
<1> QED
  BY <1>8 DEF l

LEMMA SavedCommitted ==
  ASSUME NEW d, DatabaseOK(d), NEW n \in 0 .. MaxIndex, n <= last_log_id(d)
  PROVE  DatabaseOK([d EXCEPT !.committed = n])
<1> DEFINE l == last_log_id(d)
           e == [d EXCEPT !.committed = n]
<1>1. /\ d \in Databases /\ l \in 0 .. MaxIndex /\ d.purged <= l
  BY DatabaseFacts DEF DatabaseOK
<1>2. d.log = d.purged + 1 .. l /\ d.purged <= d.applied /\ Holds(d.data, d.applied) /\ n <= l
  BY DEF DatabaseOK
<1> HIDE DEF l
<1>3. /\ e \in Databases /\ e.log = d.log /\ e.purged = d.purged
      /\ e.committed = n /\ e.applied = d.applied /\ e.data = d.data
  BY <1>1 DEF Databases
<1> HIDE DEF e
<1>4. Holds(e.data, e.applied)
  BY <1>2, <1>3
<1>5. DatabaseOK(e)
  BY <1>1, <1>2, <1>3, <1>4, CompleteIf
<1> QED
  BY <1>5 DEF e

LEMMA Truncated ==
  ASSUME NEW d, DatabaseOK(d), NEW n \in 0 .. MaxIndex, d.committed <= n, n < last_log_id(d)
  PROVE  DatabaseOK([d EXCEPT !.log = {i \in @ : i <= n}])
<1> DEFINE l == last_log_id(d)
           e == [d EXCEPT !.log = {i \in @ : i <= n}]
           k == IF n < d.purged THEN d.purged ELSE n
<1>1. /\ d \in Databases /\ l \in 0 .. MaxIndex /\ d.purged <= l /\ d.purged \in 0 .. MaxIndex
      /\ MaxIndex \in Nat /\ d.committed \in 0 .. MaxIndex /\ d.log \subseteq Indexes
  BY DatabaseFacts DEF DatabaseOK
<1>2. d.log = d.purged + 1 .. l /\ d.purged <= d.applied /\ Holds(d.data, d.applied) /\ n < l
  BY DEF DatabaseOK
<1> HIDE DEF l
<1>3. /\ e \in Databases /\ e.log = {i \in d.log : i <= n} /\ e.purged = d.purged
      /\ e.committed = d.committed /\ e.applied = d.applied /\ e.data = d.data
  BY <1>1 DEF Databases
<1>4. k \in 0 .. MaxIndex /\ d.purged <= k /\ d.committed <= k
  BY <1>1
<1>5. {i \in d.log : i <= n} = d.purged + 1 .. k
  BY <1>1, <1>2
<1> HIDE DEF e, k
<1>6. e.log = e.purged + 1 .. k /\ Holds(e.data, e.applied)
  BY <1>2, <1>3, <1>5
<1>7. DatabaseOK(e)
  BY <1>2, <1>3, <1>4, <1>6, CompleteIf
<1> QED
  BY <1>7 DEF e

LEMMA PurgedComplete ==
  ASSUME NEW d, DatabaseOK(d), NEW n \in 0 .. MaxIndex, d.purged < n, n <= d.applied
  PROVE  /\ DatabaseOK(Purged(d, n)) /\ Purged(d, n).applied = d.applied
         /\ Purged(d, n).data = d.data /\ Purged(d, n).committed = d.committed
<1> DEFINE l == last_log_id(d)
           e == Purged(d, n)
           k == IF l < n THEN n ELSE l
<1>1. /\ d \in Databases /\ l \in 0 .. MaxIndex /\ d.purged <= l /\ d.purged \in 0 .. MaxIndex
      /\ MaxIndex \in Nat /\ d.committed \in 0 .. MaxIndex /\ d.log \subseteq Indexes
  BY DatabaseFacts DEF DatabaseOK
<1>2. d.log = d.purged + 1 .. l /\ Holds(d.data, d.applied) /\ d.committed <= l
  BY DEF DatabaseOK
<1> HIDE DEF l
<1>3. /\ e \in Databases /\ e.log = {i \in d.log : i > n} /\ e.purged = n
      /\ e.committed = d.committed /\ e.applied = d.applied /\ e.data = d.data
  BY <1>1 DEF Databases, Purged
<1>4. k \in 0 .. MaxIndex /\ n <= k /\ d.committed <= k
  BY <1>1, <1>2
<1>5. {i \in d.log : i > n} = n + 1 .. k
  BY <1>1, <1>2
<1> HIDE DEF e, k
<1>6. e.log = e.purged + 1 .. k /\ Holds(e.data, e.applied)
  BY <1>2, <1>3, <1>5
<1>7. DatabaseOK(e)
  BY <1>3, <1>4, <1>6, CompleteIf
<1> QED
  BY <1>3, <1>7 DEF e

(* New data with its label: what apply and install_snapshot write.         *)
Relabel(d, n, data) == [d EXCEPT !.applied = n, !.data = data]

LEMMA Relabelled ==
  ASSUME NEW d, DatabaseOK(d), NEW n \in 0 .. MaxIndex, d.applied <= n,
         NEW data \in Seq(Indexes), Holds(data, n)
  PROVE  /\ DatabaseOK(Relabel(d, n, data)) /\ Relabel(d, n, data).applied = n
         /\ Relabel(d, n, data).data = data /\ Relabel(d, n, data).committed = d.committed
         /\ Relabel(d, n, data).purged = d.purged
<1> DEFINE l == last_log_id(d)
           e == Relabel(d, n, data)
<1>1. /\ d \in Databases /\ l \in 0 .. MaxIndex /\ d.purged <= l /\ d.purged \in 0 .. MaxIndex
      /\ MaxIndex \in Nat /\ d.applied \in 0 .. MaxIndex
  BY DatabaseFacts DEF DatabaseOK
<1>2. d.log = d.purged + 1 .. l /\ d.committed <= l /\ d.purged <= d.applied
  BY DEF DatabaseOK
<1> HIDE DEF l
<1>3. /\ e \in Databases /\ e.log = d.log /\ e.purged = d.purged
      /\ e.committed = d.committed /\ e.applied = n /\ e.data = data
  BY <1>1 DEF Databases, Relabel
<1> HIDE DEF e
<1>4. e.purged <= e.applied
  BY <1>1, <1>2, <1>3
<1>5. DatabaseOK(e)
  BY <1>1, <1>2, <1>3, <1>4, CompleteIf
<1> QED
  BY <1>3, <1>5 DEF e

-----------------------------------------------------------------------------
(* Pruning.                                                                *)

LEMMA TwoOf ==
  ASSUME NEW S, IsFiniteSet(S), Cardinality(S) >= 2
  PROVE  \E x, y \in S : x # y
<1>1. PICK x \in S : TRUE
  BY FS_EmptySet
<1>2. Cardinality(S \ {x}) = Cardinality(S) - 1 /\ IsFiniteSet(S \ {x}) /\ Cardinality(S) \in Nat
  BY <1>1, FS_RemoveElement, FS_CardinalityType
<1>3. S \ {x} # {}
  <2>1. Cardinality(S \ {x}) # 0
    BY <1>2
  <2> QED
    BY <2>1, FS_EmptySet
<1> QED
  BY <1>3

(* A pruned file has two with later epochs beside it.                      *)
LEMMA PrunedHasTwo ==
  ASSUME NEW fs, IsFiniteSet(fs), NEW f \in fs, f \notin prune_old_snapshots(fs)
  PROVE  \E g, h \in fs : g # h /\ g.epoch > f.epoch /\ h.epoch > f.epoch
<1> DEFINE N == {g \in fs : g.epoch > f.epoch}
<1>1. ~(Cardinality(N) < RetainCount)
  BY DEF prune_old_snapshots
<1>2. IsFiniteSet(N)
  BY FS_Subset
<1> HIDE DEF N
<1>3. Cardinality(N) \in Nat
  BY <1>2, FS_CardinalityType
<1>4. Cardinality(N) >= 2
  BY <1>1, <1>3, StoreAssumption
<1>5. PICK g, h \in N : g # h
  BY <1>2, <1>4, TwoOf
<1> QED
  BY <1>5 DEF N

-----------------------------------------------------------------------------
(* The invariant in parts, each with the steps that leave it alone.        *)

Stored == (\A d \in tail : DatabaseOK(d)) /\ db \in tail /\ sync \in BOOLEAN

Scalars ==
    /\ status \in {"up", "down"} /\ epoch \in 1 .. MaxSnapshots + 1
    /\ commit \in 0 .. MaxIndex /\ mem \in Seq(Indexes)

FilesOK == IsFiniteSet(files) /\ \A f \in files : SnapshotOK(f)

LEMMA Parts ==
  StoreInv <=> /\ Stored /\ Scalars /\ FilesOK /\ WorkerOK /\ BuilderOK
               /\ EpochsUnique /\ FewOvertake /\ Current
  BY DEF StoreInv, Stored, Scalars, FilesOK

LEMMA PartsNext ==
  (/\ Stored /\ Scalars /\ FilesOK /\ WorkerOK /\ BuilderOK
   /\ EpochsUnique /\ FewOvertake /\ Current)' => StoreInv'
  BY Parts, PTL

LEMMA PartsHold == StoreInv' => FilesOK'
<1>1. StoreInv => FilesOK
  BY Parts
<1> QED
  BY <1>1, PTL

LEMMA WriteStores ==
  ASSUME Stored, NEW new, DatabaseOK(new), Write(new), sync' = sync
  PROVE  Stored' /\ db' = new
<1>1. CASE sync
  BY <1>1 DEF Stored, Write
<1>2. CASE ~sync
  BY <1>2 DEF Stored, Write
<1> QED
  BY <1>1, <1>2 DEF Write

LEMMA SameFiles == ASSUME FilesOK, files' = files PROVE FilesOK'
  BY DEF FilesOK

LEMMA SameBuilder == ASSUME BuilderOK, builder' = builder PROVE BuilderOK'
  BY DEF BuilderOK

LEMMA HandedTyped ==
  ASSUME FilesOK, WorkerOK, BuilderOK
  PROVE  \A p \in Handed : p.epoch \in 1 .. MaxSnapshots /\ p.log \in 0 .. MaxIndex
                            /\ p.epoch \in Nat /\ p.log \in Nat
<1>1. \A p \in Written : p.epoch \in 1 .. MaxSnapshots /\ p.log \in 0 .. MaxIndex
  BY DEF FilesOK, Written, Label, SnapshotOK, Snapshots
<1>2. \A p \in Building : p.epoch \in 1 .. MaxSnapshots /\ p.log \in 0 .. MaxIndex
  BY DEF BuilderOK, Building, Label, SnapshotOK, Snapshots, Idle
<1>3. \A p \in Installing : p.epoch \in 1 .. MaxSnapshots /\ p.log \in 0 .. MaxIndex
  BY DEF WorkerOK, Installing, Label, SnapshotOK, Snapshots, Idle
<1> QED
  BY <1>1, <1>2, <1>3, StoreAssumption DEF Handed

(* Nothing is handed out and nothing written.                              *)
LEMMA SameEpochs ==
  ASSUME EpochsUnique, UNCHANGED <<files, builder, epoch>>,
         sm' = sm \/ ({sm.op, sm'.op} \cap {"numbered", "install"} = {})
  PROVE  EpochsUnique' /\ Handed' = Handed
<1>1. Written' = Written /\ Building' = Building
  BY DEF Written, Building, Label
<1>2. Installing' = Installing
  BY DEF Installing, Label
<1>3. Handed' = Handed
  BY <1>1, <1>2 DEF Handed
<1> QED
  BY <1>1, <1>2, <1>3 DEF EpochsUnique

(* No epoch is handed out, and the builder's label is not moved back.      *)
LEMMA NoneOvertakes ==
  ASSUME FewOvertake, Handed' \subseteq Handed,
         \A p \in Handed : p.log \in Nat,
         builder'.op = "labelled" => builder' = builder,
         builder'.op = "spawned" => /\ builder.op = "spawned" /\ db.applied \in Nat
                                    /\ db'.applied \in Nat /\ db.applied <= db'.applied
  PROVE  FewOvertake'
<1>1. \A p, q, r \in Handed' : Overtakes(q, p) /\ Overtakes(r, p) => q = r
  BY DEF FewOvertake
<1>2. ASSUME NEW p \in Handed', NEW q \in Handed', Overtakes(q, p), builder'.op = "labelled"
      PROVE  p.log <= builder'.log
  BY <1>2 DEF FewOvertake
<1>3. ASSUME NEW p \in Handed', NEW q \in Handed', Overtakes(q, p), builder'.op = "spawned"
      PROVE  p.log <= db'.applied
  <2>1. p.log <= db.applied
    BY <1>3 DEF FewOvertake
  <2> QED
    BY <1>3, <2>1
<1> QED
  BY <1>1, <1>2, <1>3 DEF FewOvertake

LEMMA SameOvertakes ==
  ASSUME StoreInv, Handed' \subseteq Handed, builder' = builder,
         db'.applied \in Nat, db.applied <= db'.applied
  PROVE  FewOvertake'
<1>1. \A p \in Handed : p.log \in Nat
  BY Parts, HandedTyped
<1>2. db.applied \in Nat
  BY Parts, DatabaseFacts DEF Stored
<1> QED
  BY <1>1, <1>2, Parts, NoneOvertakes

(* Only the log moves: append, save_committed, truncate and purge.         *)
LEMMA LogStep ==
  ASSUME StoreInv, status = "up", NEW new, DatabaseOK(new), Write(new),
         new.applied = db.applied, new.data = db.data,
         commit' \in 0 .. MaxIndex, new.committed <= commit', commit <= commit',
         UNCHANGED <<sync, files, epoch, mem, sm, builder, status>>
  PROVE  StoreInv'
<1>1. Stored' /\ db' = new
  BY Parts, WriteStores
<1>2. FilesOK' /\ BuilderOK'
  BY Parts, SameFiles, SameBuilder
<1>3. EpochsUnique' /\ Handed' = Handed
  BY Parts, SameEpochs
<1>4. Scalars'
  BY Parts DEF Scalars
<1>5. db.applied \in 0 .. MaxIndex /\ commit \in 0 .. MaxIndex /\ MaxIndex \in Nat
  BY Parts, DatabaseFacts DEF Stored, Scalars
<1>6. WorkerOK'
  <2>1. CASE sm.op = "numbered"
    <3>1. /\ sm \in [op : {"numbered"}, file : Snapshots]
          /\ SnapshotOK(sm.file) /\ db.applied < sm.file.log /\ sm.file.log <= commit
      BY <2>1, Parts DEF WorkerOK, Idle
    <3>2. sm.file.log \in 0 .. MaxIndex
      BY <3>1 DEF Snapshots
    <3>3. sm.file.log <= commit'
      BY <1>5, <3>1, <3>2
    <3> QED
      BY <1>1, <3>1, <3>3 DEF WorkerOK
  <2>2. CASE sm.op # "numbered"
    BY <1>1, <2>2, Parts DEF WorkerOK
  <2> QED
    BY <2>1, <2>2
<1>7. Current'
  <2>1. /\ db.applied <= commit
        /\ \A p \in Handed : p.log <= db.applied \/ (sm.op = "numbered" /\ p = Label(sm.file))
        /\ builder.op = "labelled" => builder.log <= db.applied
    BY Parts DEF Current
  <2>2. \A p \in Handed : p.log <= db'.applied \/ (sm'.op = "numbered" /\ p = Label(sm'.file))
    BY <1>1, <2>1
  <2> QED
    BY <1>1, <1>3, <1>5, <2>1, <2>2 DEF Current, Label
<1>8. FewOvertake'
  BY <1>1, <1>3, <1>5, SameOvertakes
<1> QED
  BY <1>1, <1>2, <1>3, <1>4, <1>6, <1>7, <1>8, PartsNext

LEMMA UpFacts ==
  ASSUME StoreInv, status = "up"
  PROVE  /\ DatabaseOK(db) /\ db \in Databases /\ last_log_id(db) \in 0 .. MaxIndex
         /\ db.committed \in 0 .. MaxIndex /\ db.applied \in 0 .. MaxIndex
         /\ db.purged \in 0 .. MaxIndex /\ commit \in 0 .. MaxIndex /\ MaxIndex \in Nat
         /\ db.committed <= commit /\ db.applied <= commit
         /\ \A p \in Handed : p.log <= db.applied \/ (sm.op = "numbered" /\ p = Label(sm.file))
         /\ db.data \in Seq(Indexes) /\ Holds(db.data, db.applied)
<1>1. DatabaseOK(db) /\ commit \in 0 .. MaxIndex
  BY Parts DEF Stored, Scalars
<1>2. db \in Databases /\ Holds(db.data, db.applied)
  BY <1>1 DEF DatabaseOK
<1> QED
  BY <1>1, <1>2, Parts, DatabaseFacts DEF Current

(* Only an install that is not in the database yet is ahead of it.         *)
LEMMA AppliedFirst ==
  ASSUME StoreInv, status = "up"
  PROVE  /\ \A p \in Written \cup Building : p.log <= db.applied
         /\ sm.op # "numbered" => \A p \in Handed : p.log <= db.applied
<1>1. \A p \in Handed : p.log <= db.applied \/ (sm.op = "numbered" /\ p = Label(sm.file))
  BY UpFacts
<1>2. ASSUME NEW p \in Written \cup Building, sm.op = "numbered", p = Label(sm.file) PROVE FALSE
  <2>1. p \in Installing
    BY <1>2 DEF Installing
  <2> QED
    BY <1>2, <2>1, Parts DEF EpochsUnique
<1> QED
  BY <1>1, <1>2 DEF Handed

LEMMA append_Keeps == ASSUME StoreInv, append PROVE StoreInv'
<1> DEFINE new == [db EXCEPT !.log = @ \cup {last_log_id(db) + 1}]
<1>1. DatabaseOK(db) /\ db \in Databases /\ db.committed <= commit /\ commit \in 0 .. MaxIndex
  BY UpFacts DEF append
<1>2. DatabaseOK(new)
  BY <1>1, Appended DEF append
<1>3. new.applied = db.applied /\ new.data = db.data /\ new.committed = db.committed
  BY <1>1 DEF Databases
<1>4. Write(new)
  BY DEF append
<1> HIDE DEF new
<1>5. commit' = commit /\ commit <= commit'
  BY <1>1 DEF append
<1> QED
  BY <1>1, <1>2, <1>3, <1>4, <1>5, LogStep DEF append

LEMMA save_committed_Keeps ==
  ASSUME StoreInv, NEW n \in Indexes, save_committed(n) PROVE StoreInv'
<1> DEFINE new == [db EXCEPT !.committed = n]
<1>1. DatabaseOK(db) /\ db \in Databases /\ commit \in 0 .. MaxIndex /\ MaxIndex \in Nat
  BY UpFacts DEF save_committed
<1>2. n \in 0 .. MaxIndex
  BY <1>1 DEF Indexes
<1>3. DatabaseOK(new)
  BY <1>1, <1>2, SavedCommitted DEF save_committed
<1>4. new.applied = db.applied /\ new.data = db.data /\ new.committed = n
  BY <1>1 DEF Databases
<1>5. Write(new) /\ commit' = n /\ commit <= n /\ n <= n
  BY <1>1, <1>2 DEF save_committed
<1> HIDE DEF new
<1> QED
  BY <1>2, <1>3, <1>4, <1>5, LogStep DEF save_committed

LEMMA truncate_after_Keeps ==
  ASSUME StoreInv, NEW n \in 0 .. MaxIndex, truncate_after(n) PROVE StoreInv'
<1> DEFINE new == [db EXCEPT !.log = {i \in @ : i <= n}]
<1>1. /\ DatabaseOK(db) /\ db \in Databases /\ db.committed <= commit /\ commit \in 0 .. MaxIndex
      /\ db.committed \in 0 .. MaxIndex /\ MaxIndex \in Nat
  BY UpFacts DEF truncate_after
<1>2. db.committed <= n
  BY <1>1 DEF truncate_after
<1>3. DatabaseOK(new)
  BY <1>1, <1>2, Truncated DEF truncate_after
<1>4. new.applied = db.applied /\ new.data = db.data /\ new.committed = db.committed
  BY <1>1 DEF Databases
<1>5. Write(new)
  BY DEF truncate_after
<1> HIDE DEF new
<1>6. commit' = commit /\ commit <= commit'
  BY <1>1 DEF truncate_after
<1> QED
  BY <1>1, <1>3, <1>4, <1>5, <1>6, LogStep DEF truncate_after

(* The labels on disk, and their greatest.                                 *)
LEMMA LabelFacts ==
  ASSUME FilesOK
  PROVE  /\ Labels \in SUBSET (0 .. MaxIndex) /\ Max(Labels) \in Labels
         /\ (\A x \in Labels : x <= Max(Labels)) /\ Max(Labels) \in 0 .. MaxIndex
<1>1. Labels \in SUBSET (0 .. MaxIndex) /\ 0 \in Labels /\ MaxIndex \in Nat
  BY StoreAssumption DEF Labels, FilesOK, SnapshotOK, Snapshots
<1>2. Labels \in SUBSET Nat /\ Labels # {} /\ \A x \in Labels : x <= MaxIndex
  BY <1>1
<1>3. Max(Labels) \in Labels /\ \A x \in Labels : x <= Max(Labels)
  BY <1>1, <1>2, GreatestOf
<1> QED
  BY <1>1, <1>3

LEMMA purge_Keeps == ASSUME StoreInv, NEW n \in Indexes, purge(n) PROVE StoreInv'
<1>1. /\ DatabaseOK(db) /\ db \in Databases /\ db.committed <= commit /\ commit \in 0 .. MaxIndex
      /\ db.committed \in 0 .. MaxIndex /\ MaxIndex \in Nat /\ db.applied \in 0 .. MaxIndex
      /\ status = "up"
  BY UpFacts DEF purge
<1>2. \A x \in Labels : x <= db.applied
  <2>1. \A f \in files : Label(f) \in Written /\ Label(f).log = f.log
    BY DEF Written, Label
  <2>2. \A f \in files : f.log <= db.applied
    BY <1>1, <2>1, AppliedFirst
  <2>3. 0 <= db.applied
    BY <1>1
  <2> QED
    BY <2>2, <2>3 DEF Labels
<1>3. Max(Labels) <= db.applied /\ Max(Labels) \in 0 .. MaxIndex
  BY <1>2, Parts, LabelFacts
<1>4. n \in 0 .. MaxIndex /\ n <= db.applied /\ db.purged < n
  BY <1>1, <1>3 DEF purge, Indexes, Databases
<1>5. /\ DatabaseOK(Purged(db, n)) /\ Purged(db, n).applied = db.applied
      /\ Purged(db, n).data = db.data /\ Purged(db, n).committed = db.committed
  BY <1>1, <1>4, PurgedComplete
<1>6. commit' = commit /\ commit <= commit' /\ Write(Purged(db, n))
  BY <1>1 DEF purge
<1> QED
  BY <1>1, <1>5, <1>6, LogStep DEF purge

-----------------------------------------------------------------------------
(* The state machine.                                                      *)

LEMMA WorkerIdle ==
  ASSUME StoreInv, status = "up", sm.op = "idle"
  PROVE  sm = Idle /\ mem = db.data /\ Installing = {}
<1>1. sm = Idle /\ mem = db.data
  BY Parts DEF WorkerOK
<1> QED
  BY <1>1 DEF Installing, Idle

LEMMA apply_Keeps == ASSUME StoreInv, NEW n \in Indexes, apply(n) PROVE StoreInv'
<1> DEFINE more == EntriesFrom(db.applied, n)
           data == db.data \o more
           new  == Relabel(db, n, data)
<1>1. /\ DatabaseOK(db) /\ db \in Databases /\ db.committed <= commit /\ commit \in 0 .. MaxIndex
      /\ MaxIndex \in Nat /\ db.applied \in 0 .. MaxIndex /\ db.data \in Seq(Indexes)
      /\ Holds(db.data, db.applied) /\ \A p \in Handed : p.log <= db.applied
  BY UpFacts, AppliedFirst DEF apply
<1>2. n \in 0 .. MaxIndex /\ db.applied <= n /\ n <= commit
  BY <1>1 DEF apply, Indexes
<1>3. more \in Seq(Indexes) /\ data \in Seq(Indexes) /\ Holds(data, n)
  <2>1. more \in Seq(Indexes)
    BY <1>1, <1>2, EntriesTyped
  <2>2. data \in Seq(Indexes) /\ Holds(data, n)
    BY <1>1, <1>2, MoreHolds
  <2> QED
    BY <2>1, <2>2
<1>4. Write(new) /\ sm' = [op |-> "apply", changes |-> more]
  BY DEF apply, Relabel
<1>5. sm = Idle /\ mem = db.data
  BY WorkerIdle DEF apply
<1> HIDE DEF more
<1>6. mem \o more = data
  BY <1>5
<1> HIDE DEF data
<1>7. DatabaseOK(new) /\ new.applied = n /\ new.data = data /\ new.committed = db.committed
  BY <1>1, <1>2, <1>3, Relabelled
<1> HIDE DEF new
<1>8. Stored' /\ db' = new
  BY <1>4, <1>7, Parts, WriteStores DEF apply
<1>9. sm' \in [op : {"apply"}, changes : Seq(Indexes)] /\ sm'.changes = more /\ sm'.op = "apply"
  BY <1>3, <1>4
<1>10. WorkerOK'
  BY <1>6, <1>7, <1>8, <1>9 DEF WorkerOK, apply
<1>11. FilesOK' /\ BuilderOK' /\ Scalars'
  BY Parts, SameFiles, SameBuilder DEF apply, Scalars
<1>12. EpochsUnique' /\ Handed' = Handed
  <2>1. {sm.op, sm'.op} \cap {"numbered", "install"} = {}
    BY <1>9 DEF apply
  <2> QED
    BY <2>1, Parts, SameEpochs DEF apply
<1>13. Current'
  <2>1. \A p \in Handed : p.log <= n
    <3>1. \A p \in Handed : p.log \in Nat
      BY <1>1, Parts, HandedTyped
    <3> QED
      BY <1>1, <1>2, <3>1
  <2>2. builder'.op = "labelled" => builder'.log <= n
    <3>1. builder.op = "labelled" => builder.log <= db.applied /\ builder.log \in Nat
      BY <1>1, Parts DEF Current, BuilderOK, apply
    <3> QED
      BY <1>1, <1>2, <3>1 DEF apply
  <2> QED
    BY <1>1, <1>2, <1>7, <1>8, <1>12, <2>1, <2>2 DEF Current, apply
<1>14. FewOvertake'
  BY <1>1, <1>2, <1>7, <1>8, <1>12, SameOvertakes DEF apply
<1> QED
  BY <1>8, <1>10, <1>11, <1>12, <1>13, <1>14, PartsNext

LEMMA apply_memory_changes_Keeps == ASSUME StoreInv, apply_memory_changes PROVE StoreInv'
<1>1. sm.op = "apply" /\ sm' = Idle /\ sm'.op = "idle" /\ mem' = mem \o sm.changes
  BY DEF apply_memory_changes, Idle
<1>2. mem \o sm.changes = db.data
  BY <1>1, Parts DEF WorkerOK, Idle
<1>3. db.data \in Seq(Indexes)
  BY UpFacts DEF apply_memory_changes
<1>4. WorkerOK' /\ Scalars'
  BY <1>1, <1>2, <1>3, Parts DEF WorkerOK, Scalars, apply_memory_changes
<1>5. Stored' /\ FilesOK' /\ BuilderOK'
  BY Parts, SameFiles, SameBuilder DEF apply_memory_changes, Stored
<1>6. EpochsUnique' /\ Handed' = Handed
  BY <1>1, Parts, SameEpochs DEF apply_memory_changes
<1>7. Current'
  BY <1>1, <1>6, Parts DEF Current, apply_memory_changes
<1>8. FewOvertake'
  <2>1. db.applied \in Nat /\ db.applied <= db.applied /\ db' = db /\ builder' = builder
    BY UpFacts DEF apply_memory_changes
  <2> QED
    BY <1>6, <2>1, SameOvertakes
<1> QED
  BY <1>4, <1>5, <1>6, <1>7, <1>8, PartsNext

LEMMA SwapMemory_Keeps == ASSUME StoreInv, SwapMemory PROVE StoreInv'
<1>1. sm.op = "swap" /\ sm' = Idle /\ sm'.op = "idle" /\ mem' = sm.data
  BY DEF SwapMemory, Idle
<1>2. sm.data = db.data
  BY <1>1, Parts DEF WorkerOK, Idle
<1>3. db.data \in Seq(Indexes)
  BY UpFacts DEF SwapMemory
<1>4. WorkerOK' /\ Scalars'
  BY <1>1, <1>2, <1>3, Parts DEF WorkerOK, Scalars, SwapMemory
<1>5. Stored' /\ FilesOK' /\ BuilderOK'
  BY Parts, SameFiles, SameBuilder DEF SwapMemory, Stored
<1>6. EpochsUnique' /\ Handed' = Handed
  BY <1>1, Parts, SameEpochs DEF SwapMemory
<1>7. Current'
  BY <1>1, <1>6, Parts DEF Current, SwapMemory
<1>8. FewOvertake'
  <2>1. db.applied \in Nat /\ db.applied <= db.applied /\ db' = db /\ builder' = builder
    BY UpFacts DEF SwapMemory
  <2> QED
    BY <1>6, <2>1, SameOvertakes
<1> QED
  BY <1>4, <1>5, <1>6, <1>7, <1>8, PartsNext

(* An epoch is handed out.                                                 *)
LEMMA HandOut ==
  ASSUME StoreInv, NEW q \in [epoch : {epoch}, log : 0 .. MaxIndex],
         epoch' = epoch + 1, files' = files,
         \/ Building = {} /\ Building' = {q} /\ Installing' = Installing
         \/ Installing = {} /\ Installing' = {q} /\ Building' = Building
  PROVE  EpochsUnique' /\ Handed' = Handed \cup {q}
<1>1. q.epoch = epoch /\ epoch \in Nat /\ q.log \in Nat
  BY Parts, StoreAssumption DEF Scalars
<1>2. Written' = Written
  BY DEF Written, Label
<1>3. Handed' = Handed \cup {q}
  BY <1>2 DEF Handed
<1>4. /\ \A p \in Handed : p.epoch < epoch /\ p.epoch \in Nat /\ p.log \in Nat
  BY Parts, HandedTyped DEF EpochsUnique
<1>5. \A p \in Handed' : p.epoch < epoch'
  BY <1>1, <1>3, <1>4
<1>6. \A p \in Handed : p.epoch # q.epoch
  BY <1>1, <1>4
<1>7. /\ \A p \in Written, r \in Building' \cup Installing' : p.epoch # r.epoch
      /\ \A p \in Building', r \in Installing' : p.epoch # r.epoch
  BY <1>6, Parts DEF EpochsUnique, Handed
<1> QED
  BY <1>2, <1>3, <1>5, <1>7, Parts DEF EpochsUnique

(* The new epoch overtakes the indexes above its own, and only them; the   *)
(* epochs before it never overtake it.                                     *)
LEMMA NewOvertakes ==
  ASSUME StoreInv, NEW q \in [epoch : {epoch}, log : 0 .. MaxIndex]
  PROVE  /\ \A p \in Handed : Overtakes(q, p) <=> q.log < p.log
         /\ \A p \in Handed \cup {q} : ~Overtakes(p, q)
<1>1. q.epoch = epoch /\ epoch \in Nat
  BY Parts, StoreAssumption DEF Scalars
<1>2. /\ \A p \in Handed : p.epoch < epoch /\ p.epoch \in Nat /\ p.log \in Nat
  BY Parts, HandedTyped DEF EpochsUnique
<1> QED
  BY <1>1, <1>2 DEF Overtakes

LEMMA install_snapshot_Keeps ==
  ASSUME StoreInv, NEW n \in Indexes, install_snapshot(n) PROVE StoreInv'
<1> DEFINE data == EntriesFrom(0, n)
           f    == [epoch |-> epoch, log |-> n, data |-> data]
           q    == [epoch |-> epoch, log |-> n]
<1>1. /\ DatabaseOK(db) /\ db.committed <= commit /\ commit \in 0 .. MaxIndex
      /\ MaxIndex \in Nat /\ db.applied \in 0 .. MaxIndex /\ db.committed \in 0 .. MaxIndex
      /\ db.applied <= commit /\ \A p \in Handed : p.log <= db.applied
  BY UpFacts, AppliedFirst DEF install_snapshot
<1>2. n \in 0 .. MaxIndex /\ db.applied < n /\ db.committed <= n /\ commit < n
  BY <1>1 DEF install_snapshot, Indexes
<1>3. data \in Seq(Indexes) /\ Holds(data, n)
  <2>1. 0 \in 0 .. MaxIndex /\ 0 <= n
    BY <1>1, <1>2
  <2> QED
    BY <1>2, <2>1, EntriesTyped, EntriesHold
<1>4. epoch \in 1 .. MaxSnapshots /\ epoch + 1 \in 1 .. MaxSnapshots + 1
  BY Parts, StoreAssumption DEF Scalars, install_snapshot
<1>5. /\ sm' = [op |-> "numbered", file |-> f]
      /\ epoch' = epoch + 1 /\ commit' = n
      /\ UNCHANGED <<db, tail, sync, files, mem, builder, status>> /\ status = "up"
  BY DEF install_snapshot
<1> HIDE DEF data
<1>6. /\ f \in Snapshots /\ f.log = n /\ f.data = data /\ Label(f) = q
      /\ q \in [epoch : {epoch}, log : 0 .. MaxIndex] /\ q.log = n
  BY <1>2, <1>3, <1>4 DEF Snapshots, Label
<1>7. SnapshotOK(f)
  BY <1>3, <1>6 DEF SnapshotOK
<1> HIDE DEF f
<1>8. sm' \in [op : {"numbered"}, file : Snapshots] /\ sm'.file = f /\ sm'.op = "numbered"
  BY <1>5, <1>6
<1>9. WorkerOK'
  BY <1>2, <1>5, <1>6, <1>7, <1>8 DEF WorkerOK
<1>10. FilesOK' /\ BuilderOK' /\ Scalars' /\ Stored'
  BY <1>2, <1>4, <1>5, Parts, SameFiles, SameBuilder DEF Scalars, Stored
<1>11. Installing = {} /\ Installing' = {q} /\ Building' = Building
  <2>1. Installing = {}
    BY WorkerIdle DEF install_snapshot
  <2>2. Installing' = {q}
    BY <1>6, <1>8 DEF Installing, Label
  <2>3. Building' = Building
    BY <1>5 DEF Building, Label
  <2> QED
    BY <2>1, <2>2, <2>3
<1>12. \A p \in Handed : p.log <= n /\ ~(n < p.log)
  <2>1. \A p \in Handed : p.log \in Nat
    BY Parts, HandedTyped
  <2> QED
    BY <1>1, <1>2, <2>1
<1>13. Label(sm'.file) = q
  BY <1>6, <1>8
<1> HIDE DEF q
<1>14. EpochsUnique' /\ Handed' = Handed \cup {q}
  BY <1>5, <1>6, <1>11, HandOut
<1>15. FewOvertake'
  <2>1. /\ \A p \in Handed : ~Overtakes(q, p)
        /\ \A p \in Handed \cup {q} : ~Overtakes(p, q)
    BY <1>6, <1>12, NewOvertakes
  <2>2. \A p, r \in Handed' : Overtakes(r, p) => p \in Handed /\ r \in Handed
    BY <1>14, <2>1
  <2>3. FewOvertake /\ builder' = builder /\ db' = db
    BY <1>5, Parts
  <2>4. \A p, r, t \in Handed' : Overtakes(r, p) /\ Overtakes(t, p) => r = t
    BY <2>2, <2>3 DEF FewOvertake
  <2>5. \A p, r \in Handed' :
          Overtakes(r, p) => /\ builder'.op = "labelled" => p.log <= builder'.log
                             /\ builder'.op = "spawned" => p.log <= db'.applied
    BY <2>2, <2>3 DEF FewOvertake
  <2> QED
    BY <2>4, <2>5 DEF FewOvertake
<1>16. Current'
  <2>1. \A p \in Handed' : p.log <= db.applied \/ (sm'.op = "numbered" /\ p = Label(sm'.file))
    BY <1>1, <1>8, <1>13, <1>14
  <2>2. builder'.op = "labelled" => builder'.log <= db.applied
    BY <1>5, Parts DEF Current
  <2>3. db'.committed <= commit' /\ db'.applied <= commit' /\ status' = "up"
    BY <1>1, <1>2, <1>5
  <2> QED
    BY <1>5, <2>1, <2>2, <2>3 DEF Current, Label
<1> QED
  BY <1>9, <1>10, <1>14, <1>15, <1>16, PartsNext

LEMMA restore_snapshot_to_db_Keeps == ASSUME StoreInv, restore_snapshot_to_db PROVE StoreInv'
<1> DEFINE f   == sm.file
           new == Relabel(db, f.log, f.data)
<1>1. /\ sm.op = "numbered" /\ Write(Restored(db, f)) /\ sm' = [op |-> "install", file |-> f]
      /\ UNCHANGED <<sync, files, epoch, mem, commit, builder, status>> /\ status = "up"
  BY DEF restore_snapshot_to_db
<1>2. /\ sm \in [op : {"numbered"}, file : Snapshots]
      /\ SnapshotOK(f) /\ db.applied < f.log /\ f.log <= commit
  BY <1>1, Parts DEF WorkerOK, Idle
<1>3. /\ DatabaseOK(db) /\ db.committed <= commit /\ commit \in 0 .. MaxIndex
      /\ MaxIndex \in Nat /\ db.applied \in 0 .. MaxIndex /\ db.committed \in 0 .. MaxIndex
      /\ \A p \in Handed : p.log <= db.applied \/ (sm.op = "numbered" /\ p = Label(f))
  BY <1>1, UpFacts
<1>4. f \in Snapshots /\ f.log \in 0 .. MaxIndex /\ f.data \in Seq(Indexes) /\ Holds(f.data, f.log)
  BY <1>2 DEF SnapshotOK, Snapshots
<1>5. Restored(db, f) = new
  BY DEF Restored, Relabel
<1> HIDE DEF f
<1>6. db.applied <= f.log
  BY <1>2, <1>3, <1>4
<1>7. DatabaseOK(new) /\ new.applied = f.log /\ new.data = f.data /\ new.committed = db.committed
  BY <1>3, <1>4, <1>6, Relabelled
<1> HIDE DEF new
<1>8. Stored' /\ db' = new
  BY <1>1, <1>5, <1>7, Parts, WriteStores
<1>9. sm' \in [op : {"install"}, file : Snapshots] /\ sm'.file = f /\ sm'.op = "install"
  BY <1>1, <1>4
<1>10. WorkerOK'
  BY <1>2, <1>7, <1>8, <1>9 DEF WorkerOK
<1>11. FilesOK' /\ BuilderOK' /\ Scalars'
  BY <1>1, Parts, SameFiles, SameBuilder DEF Scalars
<1>12. Written' = Written /\ Building' = Building /\ Installing' = Installing
  BY <1>1, <1>9 DEF Written, Building, Installing, Label, f
<1>13. Handed' = Handed
  BY <1>12 DEF Handed
<1>14. EpochsUnique'
  BY <1>1, <1>12, <1>13, Parts DEF EpochsUnique
<1>15. FewOvertake'
  <2>1. db'.applied \in Nat /\ db.applied <= db'.applied
    BY <1>4, <1>6, <1>7, <1>8
  <2> QED
    BY <1>1, <1>13, <2>1, SameOvertakes
<1>16. Current'
  <2>1. \A p \in Handed : p.log <= f.log
    <3>1. \A p \in Handed : p.log \in Nat
      BY Parts, HandedTyped
    <3>2. Label(f).log = f.log
      BY DEF Label
    <3> QED
      BY <1>3, <1>4, <1>6, <3>1, <3>2
  <2>2. builder'.op = "labelled" => builder'.log <= f.log
    <3>1. builder.op = "labelled" => builder.log <= db.applied /\ builder.log \in Nat
      BY <1>1, Parts, StoreAssumption DEF Current, BuilderOK
    <3> QED
      BY <1>1, <1>3, <1>4, <1>6, <3>1
  <2> QED
    BY <1>1, <1>2, <1>3, <1>7, <1>8, <1>13, <2>1, <2>2 DEF Current
<1> QED
  BY <1>8, <1>10, <1>11, <1>14, <1>15, <1>16, PartsNext

-----------------------------------------------------------------------------
(* The snapshot builder.                                                   *)

LEMMA StartBuild_Keeps == ASSUME StoreInv, StartBuild PROVE StoreInv'
<1>1. /\ builder.op = "idle" /\ builder' = [op |-> "spawned"] /\ builder'.op = "spawned"
      /\ sm.op = "idle" /\ status = "up"
      /\ UNCHANGED <<db, tail, sync, files, epoch, mem, commit, sm, status>>
  BY DEF StartBuild
<1>2. \A p \in Handed : p.log <= db.applied
  BY <1>1, AppliedFirst
<1>3. BuilderOK' /\ Stored' /\ FilesOK' /\ Scalars' /\ WorkerOK'
  BY <1>1, Parts, SameFiles DEF BuilderOK, Stored, Scalars, WorkerOK
<1>4. Written' = Written /\ Building' = Building /\ Installing' = Installing
  BY <1>1 DEF Written, Building, Installing, Label
<1>5. Handed' = Handed
  BY <1>4 DEF Handed
<1>6. EpochsUnique' /\ Current'
  BY <1>1, <1>4, <1>5, Parts DEF EpochsUnique, Current, Label
<1>7. FewOvertake'
  BY <1>1, <1>2, <1>5, Parts DEF FewOvertake
<1> QED
  BY <1>3, <1>6, <1>7, PartsNext

LEMMA build_snapshot_Keeps == ASSUME StoreInv, build_snapshot PROVE StoreInv'
<1>1. db.applied \in 0 .. MaxIndex /\ MaxIndex \in Nat
  BY UpFacts DEF build_snapshot
<1>2. /\ builder.op = "spawned" /\ builder' = [op |-> "labelled", log |-> db.applied]
      /\ status = "up" /\ UNCHANGED <<db, tail, sync, files, epoch, mem, commit, sm, status>>
  BY DEF build_snapshot
<1>3. /\ builder' \in [op : {"labelled"}, log : 0 .. MaxIndex]
      /\ builder'.op = "labelled" /\ builder'.log = db.applied
  BY <1>1, <1>2
<1>4. BuilderOK' /\ Stored' /\ FilesOK' /\ Scalars' /\ WorkerOK'
  BY <1>2, <1>3, Parts, SameFiles DEF BuilderOK, Stored, Scalars, WorkerOK
<1>5. Written' = Written /\ Building' = Building /\ Installing' = Installing
  BY <1>2, <1>3 DEF Written, Building, Installing, Label
<1>6. Handed' = Handed
  BY <1>5 DEF Handed
<1>7. EpochsUnique' /\ Current'
  BY <1>1, <1>2, <1>3, <1>5, <1>6, Parts DEF EpochsUnique, Current, Label
<1>8. FewOvertake'
  BY <1>2, <1>3, <1>6, Parts DEF FewOvertake
<1> QED
  BY <1>4, <1>7, <1>8, PartsNext

(* What the new epoch overtakes was installed after the build read its     *)
(* label, and nothing has overtaken it yet.                                *)
LEMMA TakeEpoch_Keeps == ASSUME StoreInv, TakeEpoch PROVE StoreInv'
<1> DEFINE q == [epoch |-> epoch, log |-> builder.log]
<1>1. /\ builder.op = "labelled"
      /\ builder' = [op |-> "numbered", epoch |-> epoch, log |-> builder.log]
      /\ epoch' = epoch + 1 /\ status = "up"
      /\ UNCHANGED <<db, tail, sync, files, mem, commit, sm, status>>
  BY DEF TakeEpoch
<1>2. /\ builder \in [op : {"labelled"}, log : 0 .. MaxIndex] /\ builder.log <= db.applied
  BY <1>1, Parts DEF BuilderOK, Current
<1>3. epoch \in 1 .. MaxSnapshots /\ epoch + 1 \in 1 .. MaxSnapshots + 1
  BY Parts, StoreAssumption DEF Scalars, TakeEpoch
<1>4. /\ builder' \in [op : {"numbered"}, epoch : 1 .. MaxSnapshots, log : 0 .. MaxIndex]
      /\ builder'.op = "numbered" /\ builder'.epoch = epoch /\ builder'.log = builder.log
  BY <1>1, <1>2, <1>3
<1>5. BuilderOK' /\ Stored' /\ FilesOK' /\ Scalars' /\ WorkerOK'
  BY <1>1, <1>3, <1>4, Parts, SameFiles DEF BuilderOK, Stored, Scalars, WorkerOK
<1>6. Building = {} /\ Building' = {q} /\ Installing' = Installing
  BY <1>1, <1>4 DEF Building, Installing, Label
<1>7. q \in [epoch : {epoch}, log : 0 .. MaxIndex] /\ q.log = builder.log
  BY <1>2
<1> HIDE DEF q
<1>8. EpochsUnique' /\ Handed' = Handed \cup {q}
  BY <1>1, <1>6, <1>7, HandOut
<1>9. Current'
  BY <1>1, <1>2, <1>4, <1>7, <1>8, Parts DEF Current, Label
<1>10. FewOvertake'
  <2>1. /\ \A p \in Handed : Overtakes(q, p) => q.log < p.log
        /\ \A p \in Handed \cup {q} : ~Overtakes(p, q)
    BY <1>7, NewOvertakes
  <2>2. ASSUME NEW p \in Handed, Overtakes(q, p), NEW r \in Handed, Overtakes(r, p) PROVE FALSE
    <3>1. q.log < p.log /\ p.log <= builder.log
      BY <1>1, <2>1, <2>2, Parts DEF FewOvertake
    <3>2. p.log \in Nat /\ builder.log \in Nat
      BY <1>2, Parts, HandedTyped
    <3> QED
      BY <1>7, <3>1, <3>2
  <2>3. ASSUME NEW p \in Handed', NEW r \in Handed', NEW t \in Handed',
               Overtakes(r, p), Overtakes(t, p)
        PROVE  r = t
    <3>1. p \in Handed
      BY <1>8, <2>1, <2>3
    <3>2. CASE r = q
      BY <1>8, <2>2, <2>3, <3>1, <3>2
    <3>3. CASE t = q
      BY <1>8, <2>2, <2>3, <3>1, <3>3
    <3>4. CASE r # q /\ t # q
      BY <1>8, <2>3, <3>1, <3>4, Parts DEF FewOvertake
    <3> QED
      BY <3>2, <3>3, <3>4
  <2> QED
    BY <1>4, <2>3 DEF FewOvertake
<1> QED
  BY <1>5, <1>8, <1>9, <1>10, PartsNext

(* The data may be newer than the label, never older.                      *)
LEMMA CaptureData_Keeps == ASSUME StoreInv, CaptureData PROVE StoreInv'
<1> DEFINE f == [epoch |-> builder.epoch, log |-> builder.log, data |-> db.data]
<1>1. /\ builder.op = "numbered" /\ builder' = [op |-> "captured", file |-> f] /\ status = "up"
      /\ UNCHANGED <<db, tail, sync, files, epoch, mem, commit, sm, status>>
  BY DEF CaptureData
<1>2. /\ db.applied \in 0 .. MaxIndex /\ MaxIndex \in Nat /\ db.data \in Seq(Indexes)
      /\ Holds(db.data, db.applied) /\ \A p \in Building : p.log <= db.applied
  BY <1>1, UpFacts, AppliedFirst
<1>3. builder \in [op : {"numbered"}, epoch : 1 .. MaxSnapshots, log : 0 .. MaxIndex]
  BY <1>1, Parts DEF BuilderOK
<1>4. builder.log <= db.applied /\ builder.log \in Nat /\ db.applied \in Nat
  <2>1. Label(builder) \in Building /\ Label(builder).log = builder.log
    BY <1>1 DEF Building, Label
  <2> QED
    BY <1>2, <1>3, <2>1
<1>5. f \in Snapshots /\ f.epoch = builder.epoch /\ f.log = builder.log /\ f.data = db.data
  BY <1>2, <1>3 DEF Snapshots
<1>6. Holds(f.data, f.log)
  BY <1>2, <1>4, <1>5, FewerHold
<1> HIDE DEF f
<1>7. builder' \in [op : {"captured"}, file : Snapshots] /\ builder'.file = f /\ builder'.op = "captured"
  BY <1>1, <1>5
<1>8. BuilderOK'
  BY <1>5, <1>6, <1>7 DEF BuilderOK, SnapshotOK
<1>9. Stored' /\ FilesOK' /\ Scalars' /\ WorkerOK'
  BY <1>1, Parts, SameFiles DEF Stored, Scalars, WorkerOK
<1>10. Written' = Written /\ Building' = Building /\ Installing' = Installing
  BY <1>1, <1>5, <1>7 DEF Building, Installing, Written, Label
<1>11. Handed' = Handed
  BY <1>10 DEF Handed
<1>12. EpochsUnique' /\ Current' /\ FewOvertake'
  BY <1>1, <1>7, <1>10, <1>11, Parts DEF EpochsUnique, Current, FewOvertake, Label
<1> QED
  BY <1>8, <1>9, <1>12, PartsNext

(* A file is put in place.                                                 *)
LEMMA FileStep ==
  ASSUME StoreInv, NEW x, SnapshotOK(x), files' = files \cup {x}, epoch' = epoch,
         \/ Building = {Label(x)} /\ Building' = {} /\ Installing' = Installing
         \/ Installing = {Label(x)} /\ Installing' = {} /\ Building' = Building
  PROVE  FilesOK' /\ EpochsUnique' /\ Handed' \subseteq Handed
<1>1. /\ IsFiniteSet(files) /\ (\A f \in files : SnapshotOK(f)) /\ EpochsUnique
  BY Parts DEF FilesOK
<1>2. IsFiniteSet(files')
  BY <1>1, FS_AddElement
<1>3. FilesOK'
  BY <1>1, <1>2 DEF FilesOK
<1>4. Written' = Written \cup {Label(x)}
  BY DEF Written, Label
<1>5. Handed' \subseteq Handed
  BY <1>4 DEF Handed
<1>6. \A f \in files : f.epoch # x.epoch
  <2>1. \A f \in files : Label(f) \in Written /\ Label(f).epoch = f.epoch
    BY DEF Written, Label
  <2>2. Label(x) \in Building \cup Installing /\ Label(x).epoch = x.epoch
    BY DEF Label
  <2> QED
    BY <1>1, <2>1, <2>2 DEF EpochsUnique
<1>7. EpochsUnique'
  <2>1. \A p \in Written', q \in Building' \cup Installing' : p.epoch # q.epoch
    <3>1. \A q \in Building' \cup Installing' : q.epoch # Label(x).epoch
      BY <1>1 DEF EpochsUnique
    <3> QED
      BY <1>1, <1>4, <3>1 DEF EpochsUnique
  <2>2. \A f, g \in files' : f.epoch = g.epoch => f = g
    BY <1>1, <1>6 DEF EpochsUnique
  <2>3. \A p \in Building', q \in Installing' : p.epoch # q.epoch
    BY <1>1 DEF EpochsUnique
  <2> QED
    BY <1>1, <1>5, <2>1, <2>2, <2>3 DEF EpochsUnique
<1> QED
  BY <1>3, <1>5, <1>7

LEMMA write_snapshot_file_Keeps == ASSUME StoreInv, write_snapshot_file PROVE StoreInv'
<1>1. /\ builder.op = "captured" /\ builder' = [op |-> "written"] /\ builder'.op = "written"
      /\ status = "up" /\ files' = files \cup {builder.file}
      /\ UNCHANGED <<db, tail, sync, epoch, mem, commit, sm, status>>
  BY DEF write_snapshot_file
<1>2. SnapshotOK(builder.file)
  BY <1>1, Parts DEF BuilderOK
<1>3. Building = {Label(builder.file)} /\ Building' = {} /\ Installing' = Installing
  BY <1>1 DEF Building, Installing, Label
<1>4. FilesOK' /\ EpochsUnique' /\ Handed' \subseteq Handed
  BY <1>1, <1>2, <1>3, FileStep
<1>5. Stored' /\ Scalars' /\ WorkerOK' /\ BuilderOK'
  BY <1>1, Parts DEF Stored, Scalars, WorkerOK, BuilderOK
<1>6. Current' /\ FewOvertake'
  BY <1>1, <1>4, Parts DEF Current, FewOvertake, Label
<1> QED
  BY <1>4, <1>5, <1>6, PartsNext

LEMMA SnapshotBuilt_Keeps == ASSUME StoreInv, SnapshotBuilt PROVE StoreInv'
<1>1. /\ builder.op = "written" /\ builder' = Idle /\ builder'.op = "idle" /\ status = "up"
      /\ UNCHANGED <<db, tail, sync, files, epoch, mem, commit, sm, status>>
  BY DEF SnapshotBuilt, Idle
<1>2. Stored' /\ Scalars' /\ WorkerOK' /\ BuilderOK' /\ FilesOK'
  BY <1>1, Parts, SameFiles DEF Stored, Scalars, WorkerOK, BuilderOK, Idle
<1>3. Written' = Written /\ Building' = Building /\ Installing' = Installing
  BY <1>1 DEF Written, Building, Installing, Label
<1>4. Handed' = Handed
  BY <1>3 DEF Handed
<1>5. EpochsUnique' /\ Current' /\ FewOvertake'
  BY <1>1, <1>3, <1>4, Parts DEF EpochsUnique, Current, FewOvertake, Label
<1> QED
  BY <1>2, <1>5, PartsNext

LEMMA PersistInstalled_Keeps == ASSUME StoreInv, PersistInstalled PROVE StoreInv'
<1>1. /\ sm.op = "install" /\ sm' = [op |-> "swap", data |-> sm.file.data] /\ status = "up"
      /\ sm'.op = "swap" /\ files' = files \cup {sm.file}
      /\ UNCHANGED <<db, tail, sync, epoch, mem, commit, builder, status>>
  BY DEF PersistInstalled
<1>2. SnapshotOK(sm.file) /\ sm.file.data = db.data
  BY <1>1, Parts DEF WorkerOK, Idle
<1>3. Installing = {Label(sm.file)} /\ Installing' = {} /\ Building' = Building
  BY <1>1 DEF Building, Installing, Label
<1>4. FilesOK' /\ EpochsUnique' /\ Handed' \subseteq Handed
  BY <1>1, <1>2, <1>3, FileStep
<1>5. sm' \in [op : {"swap"}, data : Seq(Indexes)] /\ sm'.data = db'.data
  <2>1. sm.file.data \in Seq(Indexes)
    BY <1>2 DEF SnapshotOK, Snapshots
  <2> QED
    BY <1>1, <1>2, <2>1
<1>6. WorkerOK'
  BY <1>5 DEF WorkerOK
<1>7. Stored' /\ Scalars' /\ BuilderOK'
  BY <1>1, Parts DEF Stored, Scalars, BuilderOK
<1>8. Current' /\ FewOvertake'
  BY <1>1, <1>4, Parts DEF Current, FewOvertake, Label
<1> QED
  BY <1>4, <1>6, <1>7, <1>8, PartsNext

LEMMA Prune_Keeps == ASSUME StoreInv, NEW f \in files, Prune(f) PROVE StoreInv'
<1>1. /\ files' = files \ {f}
      /\ UNCHANGED <<db, tail, sync, epoch, mem, commit, sm, builder, status>>
  BY DEF Prune
<1>2. Stored' /\ Scalars' /\ WorkerOK' /\ BuilderOK'
  BY <1>1, Parts, SameBuilder DEF Stored, Scalars, WorkerOK
<1>3. FilesOK'
  BY <1>1, Parts, FS_Subset DEF FilesOK
<1>4. Written' \subseteq Written /\ Building' = Building /\ Installing' = Installing
  BY <1>1 DEF Written, Building, Installing, Label
<1>5. Handed' \subseteq Handed
  BY <1>4 DEF Handed
<1>6. EpochsUnique' /\ Current' /\ FewOvertake'
  BY <1>1, <1>4, <1>5, Parts DEF EpochsUnique, Current, FewOvertake, Label
<1> QED
  BY <1>2, <1>3, <1>6, PartsNext

-----------------------------------------------------------------------------
(* Configuration, crash and restart.                                       *)

LEMMA SetSyncWrites_Keeps == ASSUME StoreInv, SetSyncWrites PROVE StoreInv'
<1>1. UNCHANGED <<db, tail, files, epoch, mem, commit, sm, builder, status>> /\ sync' = ~sync
  BY DEF SetSyncWrites
<1>2. Stored' /\ Scalars' /\ WorkerOK' /\ FilesOK' /\ BuilderOK'
  BY <1>1, Parts, SameFiles, SameBuilder DEF Stored, Scalars, WorkerOK
<1>3. EpochsUnique' /\ Handed' = Handed
  BY <1>1, Parts, SameEpochs
<1>4. Current' /\ FewOvertake'
  BY <1>1, <1>3, Parts DEF Current, FewOvertake, Label
<1> QED
  BY <1>2, <1>3, <1>4, PartsNext

(* Nothing in progress survives, and neither do the epochs it held.        *)
LEMMA Crash_Keeps == ASSUME StoreInv, Crash PROVE StoreInv'
<1>1. /\ db' \in tail /\ tail' = {db'} /\ mem' = <<>> /\ sm' = Idle /\ builder' = Idle
      /\ commit' = 0 /\ status' = "down" /\ UNCHANGED <<sync, files, epoch>>
  BY DEF Crash
<1>2. Stored'
  BY <1>1, Parts DEF Stored
<1>3. Scalars' /\ WorkerOK' /\ BuilderOK' /\ Current' /\ FilesOK'
  BY <1>1, Parts, SameFiles, StoreAssumption DEF Scalars, WorkerOK, BuilderOK, Current, Idle
<1>4. Written' = Written /\ Building' = {} /\ Installing' = {}
  BY <1>1 DEF Written, Building, Installing, Label, Idle
<1>5. Handed' \subseteq Handed
  BY <1>4 DEF Handed
<1>6. EpochsUnique' /\ FewOvertake'
  BY <1>1, <1>4, <1>5, Parts DEF EpochsUnique, FewOvertake, Idle
<1> QED
  BY <1>2, <1>3, <1>6, PartsNext

(* One file on disk is the latest, and it carries the greatest label.      *)
LEMMA LatestExists ==
  ASSUME FilesOK, EpochsUnique, files # {}
  PROVE  \E f \in files : IsLatest(f)
<1>1. /\ \A f \in files : f.log \in Nat /\ f.epoch \in Nat /\ f.epoch <= MaxSnapshots
      /\ MaxSnapshots \in Nat
  BY StoreAssumption DEF FilesOK, SnapshotOK, Snapshots
<1>2. PICK S : S = {f.epoch : f \in {g \in files : g.log = Max(Labels)}}
  OBVIOUS
<1>3. \A f \in files : f.log <= Max(Labels)
  BY LabelFacts DEF Labels
<1>4. \E f \in files : f.log = Max(Labels)
  <2>1. CASE \E f \in files : Max(Labels) = f.log
    BY <2>1
  <2>2. CASE Max(Labels) = 0
    BY <1>1, <1>3, <2>2
  <2> QED
    BY <2>1, <2>2, LabelFacts DEF Labels
<1>5. S \in SUBSET Nat /\ S # {} /\ \A x \in S : x <= MaxSnapshots
  BY <1>1, <1>2, <1>4
<1>6. Max(S) \in S /\ \A x \in S : x <= Max(S)
  BY <1>1, <1>5, GreatestOf
<1>7. PICK f \in files : f.log = Max(Labels) /\ f.epoch = Max(S)
  BY <1>2, <1>6
<1>8. ASSUME NEW g \in files \ {f} PROVE snapshot_is_newer(f, g)
  <2>1. g.log <= f.log /\ g.epoch # f.epoch
    BY <1>3, <1>7 DEF EpochsUnique
  <2>2. g.log = f.log => g.epoch <= f.epoch
    BY <1>2, <1>6, <1>7
  <2> QED
    BY <1>1, <2>1, <2>2 DEF snapshot_is_newer
<1> QED
  BY <1>8 DEF IsLatest

LEMMA LatestIsGreatest ==
  ASSUME FilesOK, NEW f \in files, IsLatest(f)
  PROVE  f.log = Max(Labels)
<1>1. \A g \in files : g.log \in Nat /\ g.log <= f.log
  BY DEF IsLatest, snapshot_is_newer, FilesOK, SnapshotOK, Snapshots
<1>2. \A x \in Labels : x \in Nat /\ x <= f.log
  BY <1>1 DEF Labels
<1>3. f.log \in Labels
  BY DEF Labels
<1> QED
  BY <1>2, <1>3, LabelFacts

(* Recovery leaves a complete database that no snapshot is ahead of.       *)
LEMMA Recovered ==
  ASSUME FilesOK, EpochsUnique, DatabaseOK(db)
  PROVE  /\ DatabaseOK(recover_from_latest_snapshot_if_newer(db))
         /\ \A x \in Labels : x <= recover_from_latest_snapshot_if_newer(db).applied
<1> DEFINE d == recover_from_latest_snapshot_if_newer(db)
           f == CHOOSE x \in files : IsLatest(x)
<1>1. /\ Max(Labels) \in 0 .. MaxIndex /\ db.applied \in 0 .. MaxIndex /\ MaxIndex \in Nat
      /\ \A x \in Labels : x <= Max(Labels) /\ x \in Nat
  BY LabelFacts, DatabaseFacts
<1>2. CASE files = {} \/ Max(Labels) <= db.applied
  <2>1. d = db
    BY <1>2 DEF recover_from_latest_snapshot_if_newer
  <2>2. CASE files = {}
    <3>1. Labels = {0}
      BY <2>2 DEF Labels
    <3> QED
      BY <1>1, <2>1, <3>1
  <2>3. CASE Max(Labels) <= db.applied
    BY <1>1, <2>1, <2>3
  <2> QED
    BY <1>2, <2>2, <2>3
<1>3. CASE ~(files = {} \/ Max(Labels) <= db.applied)
  <2>1. f \in files /\ IsLatest(f)
    BY <1>3, LatestExists
  <2>2. d = Relabel(db, f.log, f.data)
    BY <1>3 DEF recover_from_latest_snapshot_if_newer, Restored, Relabel
  <2> HIDE DEF f, d
  <2>3. f.log = Max(Labels) /\ f.log \in 0 .. MaxIndex /\ f.data \in Seq(Indexes) /\ Holds(f.data, f.log)
    BY <2>1, LatestIsGreatest DEF FilesOK, SnapshotOK, Snapshots
  <2>4. db.applied <= f.log
    BY <1>1, <1>3, <2>3
  <2>5. DatabaseOK(d) /\ d.applied = f.log
    BY <2>2, <2>3, <2>4, Relabelled
  <2> QED
    BY <1>1, <2>3, <2>5 DEF d
<1> QED
  BY <1>2, <1>3

(* A complete database passes the startup check.                           *)
LEMMA Accepted ==
  ASSUME FilesOK, NEW d, DatabaseOK(d)
  PROVE  verify_openraft_store_integrity(d)
<1>1. PICK T : T = {last_log_id(d), d.applied} \cup Labels
  OBVIOUS
<1>2. /\ last_log_id(d) \in 0 .. MaxIndex /\ d.purged <= last_log_id(d) /\ d.log \subseteq Indexes
      /\ d.purged \in 0 .. MaxIndex /\ d.committed \in 0 .. MaxIndex
      /\ d.applied \in 0 .. MaxIndex /\ MaxIndex \in Nat
  BY DatabaseFacts
<1>3. d.log = d.purged + 1 .. last_log_id(d) /\ d.committed <= last_log_id(d)
  BY DEF DatabaseOK
<1>4. T \in SUBSET Nat /\ T # {} /\ \A x \in T : x <= MaxIndex
  BY <1>1, <1>2, LabelFacts
<1>5. Max(T) \in T /\ \A x \in T : x <= Max(T)
  BY <1>2, <1>4, GreatestOf
<1>6. d.committed <= Max(T) /\ d.applied <= Max(T)
  <2>1. last_log_id(d) <= Max(T) /\ d.applied <= Max(T) /\ Max(T) \in Nat
    BY <1>1, <1>4, <1>5
  <2> QED
    BY <1>2, <1>3, <2>1
<1>7. verify_log_entries(d)
  <2>1. CASE d.log = {}
    BY <2>1 DEF verify_log_entries
  <2>2. CASE d.purged > 0
    BY <1>3, <2>2 DEF verify_log_entries
  <2>3. CASE d.log # {} /\ ~(d.purged > 0)
    <3>1. d.purged = 0 /\ d.log = 1 .. last_log_id(d)
      BY <1>2, <1>3, <2>3
    <3>2. 1 \in d.log /\ \A x \in d.log : x \in Nat /\ 1 <= x
      BY <1>2, <2>3, <3>1
    <3>3. Min(d.log) \in d.log /\ \A x \in d.log : Min(d.log) <= x
      BY <3>2 DEF Min
    <3>4. Min(d.log) = 1
      BY <3>2, <3>3
    <3> QED
      BY <2>3, <3>1, <3>4 DEF verify_log_entries
  <2> QED
    BY <2>1, <2>2, <2>3
<1> QED
  BY <1>1, <1>2, <1>6, <1>7 DEF verify_openraft_store_integrity

(* What openraft keeps of a recovered database.                            *)
LEMMA Trimmed ==
  ASSUME NEW d, DatabaseOK(d), NEW e,
         e = IF last_log_id(d) < d.applied THEN Purged(d, d.applied) ELSE d
  PROVE  DatabaseOK(e) /\ e.applied = d.applied /\ e.data = d.data /\ e.committed = d.committed
<1>1. CASE last_log_id(d) < d.applied
  <2>1. d.applied \in 0 .. MaxIndex /\ d.purged < d.applied /\ d.applied <= d.applied
    BY <1>1, DatabaseFacts
  <2> QED
    BY <1>1, <2>1, PurgedComplete
<1>2. CASE ~(last_log_id(d) < d.applied)
  BY <1>2
<1> QED
  BY <1>1, <1>2

LEMMA Restart_Keeps == ASSUME StoreInv, Restart PROVE StoreInv'
<1>1. /\ Stored /\ Scalars /\ FilesOK /\ EpochsUnique /\ DatabaseOK(db)
      /\ status = "down" /\ sm = Idle /\ builder = Idle
  BY Parts DEF Stored, Current, Restart
<1>2. PICK d : d = recover_from_latest_snapshot_if_newer(db)
  OBVIOUS
<1>3. PICK e : e = IF last_log_id(d) < d.applied THEN Purged(d, d.applied) ELSE d
  OBVIOUS
<1>4. PICK E : E = {0} \cup {f.epoch : f \in files}
  OBVIOUS
<1>5. DatabaseOK(d) /\ (\A x \in Labels : x <= d.applied)
  BY <1>1, <1>2, Recovered
<1>6. verify_openraft_store_integrity(d)
  BY <1>1, <1>5, Accepted
<1>7. DatabaseOK(e) /\ e.applied = d.applied /\ e.data = d.data /\ e.committed = d.committed
  BY <1>3, <1>5, Trimmed
<1>8. /\ db' = e /\ tail' = (IF sync THEN {e} ELSE {db, d, e}) /\ mem' = d.data
      /\ commit' = Max({d.committed, d.applied}) /\ status' = "up"
      /\ epoch' = Max(E) + 1 /\ UNCHANGED <<sync, files, sm, builder>>
  BY <1>2, <1>3, <1>4, <1>6 DEF Restart, next_snapshot_epoch
<1>9. Stored'
  BY <1>1, <1>5, <1>7, <1>8 DEF Stored
<1>10. /\ Max(E) \in 0 .. MaxSnapshots /\ MaxSnapshots \in Nat
       /\ \A f \in files : f.epoch \in Nat /\ f.epoch <= Max(E)
  <2>1. \A f \in files : f.epoch \in 1 .. MaxSnapshots
    BY <1>1 DEF FilesOK, SnapshotOK, Snapshots
  <2>2. E \in SUBSET Nat /\ E # {} /\ MaxSnapshots \in Nat /\ \A x \in E : x <= MaxSnapshots
    BY <1>4, <2>1, StoreAssumption
  <2>3. Max(E) \in E /\ \A x \in E : x <= Max(E)
    BY <2>2, GreatestOf
  <2> QED
    BY <1>4, <2>1, <2>2, <2>3
<1>11. commit' \in 0 .. MaxIndex /\ d.committed <= commit' /\ d.applied <= commit'
  <2>1. PICK C : C = {d.committed, d.applied}
    OBVIOUS
  <2>2. d.committed \in 0 .. MaxIndex /\ d.applied \in 0 .. MaxIndex /\ MaxIndex \in Nat
    BY <1>5, DatabaseFacts
  <2>3. C \in SUBSET Nat /\ C # {} /\ \A x \in C : x <= MaxIndex
    BY <2>1, <2>2
  <2>4. Max(C) \in C /\ \A x \in C : x <= Max(C)
    BY <2>2, <2>3, GreatestOf
  <2> QED
    BY <1>8, <2>1, <2>2, <2>4
<1>12. Scalars'
  <2>1. d.data \in Seq(Indexes)
    BY <1>5, DatabaseFacts
  <2>2. Max(E) + 1 \in 1 .. MaxSnapshots + 1
    BY <1>10
  <2> QED
    BY <1>8, <1>11, <2>1, <2>2 DEF Scalars
<1>13. FilesOK' /\ WorkerOK' /\ BuilderOK'
  BY <1>1, <1>7, <1>8, SameFiles DEF WorkerOK, BuilderOK, Idle
<1>14. /\ Building = {} /\ Installing = {} /\ Building' = {} /\ Installing' = {}
       /\ Written' = Written
  BY <1>1, <1>8 DEF Building, Installing, Written, Label, Idle
<1>15. Handed = Written /\ Handed' = Written
  BY <1>14 DEF Handed
<1>16. \A p \in Written : \E f \in files : p.epoch = f.epoch /\ p.log = f.log
  BY DEF Written, Label
<1>17. EpochsUnique' /\ FewOvertake'
  <2>1. \A p \in Handed' : p.epoch < epoch'
    BY <1>8, <1>10, <1>15, <1>16
  <2>2. FewOvertake'
    BY <1>1, <1>8, <1>15, Parts DEF FewOvertake, Idle
  <2>3. \A f, g \in files' : f.epoch = g.epoch => f = g
    BY <1>1, <1>8 DEF EpochsUnique
  <2> QED
    BY <1>14, <2>1, <2>2, <2>3 DEF EpochsUnique
<1>18. Current'
  <2>1. \A p \in Handed' : p.log <= d.applied
    BY <1>5, <1>15, <1>16 DEF Labels
  <2> QED
    BY <1>1, <1>7, <1>8, <1>11, <2>1 DEF Current, Idle
<1> QED
  BY <1>9, <1>12, <1>13, <1>17, <1>18, PartsNext

-----------------------------------------------------------------------------
(* The inductive argument.                                                 *)

LEMMA InitInv == Init => StoreInv
<1> SUFFICES ASSUME Init PROVE StoreInv
  OBVIOUS
<1>1. /\ db = [log |-> {}, purged |-> 0, committed |-> 0, applied |-> 0, data |-> <<>>]
      /\ tail = {db} /\ sync = TRUE /\ files = {} /\ epoch = 1 /\ mem = <<>> /\ commit = 0
      /\ sm = Idle /\ builder = Idle /\ status = "up"
  BY DEF Init
<1>2. MaxIndex \in Nat /\ MaxSnapshots \in Nat /\ RetainCount \in Nat
  BY StoreAssumption
<1>3. /\ db \in Databases /\ db.log = {} /\ db.purged = 0 /\ db.committed = 0 /\ db.applied = 0
      /\ db.data = <<>>
  BY <1>1, <1>2 DEF Databases
<1>4. DatabaseOK(db)
  <2>1. last_log_id(db) = 0
    BY <1>3 DEF last_log_id
  <2> QED
    BY <1>3, <2>1 DEF DatabaseOK, Holds
<1>5. Stored /\ Scalars
  BY <1>1, <1>2, <1>4 DEF Stored, Scalars
<1>6. FilesOK
  BY <1>1, <1>2, FS_EmptySet DEF FilesOK
<1>7. WorkerOK /\ BuilderOK
  BY <1>1, <1>3 DEF WorkerOK, BuilderOK, Idle
<1>8. Written = {} /\ Building = {} /\ Installing = {}
  BY <1>1 DEF Written, Building, Installing, Idle
<1>9. EpochsUnique /\ FewOvertake /\ Current
  BY <1>1, <1>3, <1>8 DEF EpochsUnique, FewOvertake, Current, Handed, Idle
<1> QED
  BY <1>5, <1>6, <1>7, <1>9, Parts

LEMMA StutterKeeps == ASSUME StoreInv, UNCHANGED storeVars PROVE StoreInv'
<1>1. UNCHANGED <<db, tail, sync, files, epoch, mem, commit, sm, builder, status>>
  BY DEF storeVars
<1>2. Stored' /\ Scalars' /\ WorkerOK' /\ FilesOK' /\ BuilderOK'
  BY <1>1, Parts, SameFiles, SameBuilder DEF Stored, Scalars, WorkerOK
<1>3. EpochsUnique' /\ Handed' = Handed
  BY <1>1, Parts, SameEpochs
<1>4. Current' /\ FewOvertake'
  BY <1>1, <1>3, Parts DEF Current, FewOvertake, Label
<1> QED
  BY <1>2, <1>3, <1>4, PartsNext

LEMMA StepKeeps == StoreInv /\ [Next]_storeVars => StoreInv'
<1> SUFFICES ASSUME StoreInv, [Next]_storeVars PROVE StoreInv'
  OBVIOUS
<1>1. CASE append \/ apply_memory_changes
  BY <1>1, append_Keeps, apply_memory_changes_Keeps
<1>2. ASSUME NEW n \in Indexes, save_committed(n) \/ purge(n) \/ apply(n) \/ install_snapshot(n)
      PROVE  StoreInv'
  BY <1>2, save_committed_Keeps, purge_Keeps, apply_Keeps, install_snapshot_Keeps
<1>3. ASSUME NEW n \in 0 .. MaxIndex, truncate_after(n) PROVE StoreInv'
  BY <1>3, truncate_after_Keeps
<1>4. CASE \/ StartBuild \/ build_snapshot \/ TakeEpoch \/ CaptureData
           \/ write_snapshot_file \/ SnapshotBuilt
  BY <1>4, StartBuild_Keeps, build_snapshot_Keeps, TakeEpoch_Keeps, CaptureData_Keeps,
     write_snapshot_file_Keeps, SnapshotBuilt_Keeps
<1>5. CASE restore_snapshot_to_db \/ PersistInstalled \/ SwapMemory
  BY <1>5, restore_snapshot_to_db_Keeps, PersistInstalled_Keeps, SwapMemory_Keeps
<1>6. CASE SetSyncWrites \/ Crash \/ Restart
  BY <1>6, SetSyncWrites_Keeps, Crash_Keeps, Restart_Keeps
<1>7. ASSUME NEW f \in files, Prune(f) PROVE StoreInv'
  BY <1>7, Prune_Keeps
<1>8. CASE UNCHANGED storeVars
  BY <1>8, StutterKeeps
<1> QED
  BY <1>1, <1>2, <1>3, <1>4, <1>5, <1>6, <1>7, <1>8 DEF Next

(* StoreInv holds in every reachable state, for any number of log indexes, *)
(* snapshots and unsynced writes and any retention count of two or more:   *)
(* every batch of the log store and state machine store leaves a complete  *)
(* database, and a build that read its label before an install is the only *)
(* one whose epoch overtakes it.                                           *)
THEOREM StoreInvariant == StoreSpec => []StoreInv
<1>1. Init => StoreInv
  BY InitInv
<1>2. StoreInv /\ [Next]_storeVars => StoreInv'
  BY StepKeeps
<1> QED
  BY <1>1, <1>2, PTL DEF StoreSpec

-----------------------------------------------------------------------------
(* What follows from it.                                                   *)

LEMMA TypeHolds == StoreInv => StoreTypeOK
<1> SUFFICES ASSUME StoreInv PROVE StoreTypeOK
  OBVIOUS
<1>1. Stored /\ Scalars /\ FilesOK /\ WorkerOK /\ BuilderOK
  BY Parts
<1>2. \A d \in tail \cup {db} :
         /\ d.log \subseteq Indexes /\ d.data \in Seq(Indexes)
         /\ {d.purged, d.committed, d.applied} \subseteq 0 .. MaxIndex
  BY <1>1, DatabaseFacts DEF Stored
<1>3. files \subseteq Files
  <2>1. 1 .. MaxSnapshots \subseteq Nat /\ 0 .. MaxIndex \subseteq Nat /\ Indexes \subseteq Nat
    BY StoreAssumption DEF Indexes
  <2>2. ASSUME NEW s \in Seq(Indexes) PROVE s \in Seq(Nat)
    <3>1. s \in [1 .. Len(s) -> Indexes] /\ Len(s) \in Nat
      BY LenProperties
    <3>2. s \in [1 .. Len(s) -> Nat]
      BY <2>1, <3>1
    <3> QED
      BY <3>1, <3>2
  <2> QED
    BY <1>1, <2>1, <2>2 DEF FilesOK, SnapshotOK, Snapshots, Files
<1>4. sm.op \in {"idle", "apply", "numbered", "install", "swap"}
  BY <1>1 DEF WorkerOK, Idle
<1>5. builder.op \in {"idle", "spawned", "labelled", "numbered", "captured", "written"}
  BY <1>1 DEF BuilderOK, Idle
<1> QED
  BY <1>1, <1>2, <1>3, <1>4, <1>5 DEF StoreTypeOK, Stored, Scalars, FilesOK

LEMMA LogReaches == StoreInv => LogReachesApplied
<1> SUFFICES ASSUME StoreInv, status = "up", last_log_id(db) > db.applied
             PROVE  (db.applied + 1 .. last_log_id(db)) \subseteq db.log
  BY DEF LogReachesApplied
<1>1. DatabaseOK(db)
  BY UpFacts
<1>2. db.log = db.purged + 1 .. last_log_id(db) /\ db.purged <= db.applied
  BY <1>1 DEF DatabaseOK
<1>3. /\ last_log_id(db) \in 0 .. MaxIndex /\ db.applied \in 0 .. MaxIndex
      /\ db.purged \in 0 .. MaxIndex /\ MaxIndex \in Nat
  BY <1>1, DatabaseFacts
<1> QED
  BY <1>2, <1>3

LEMMA AllHold == StoreInv => NothingLost
<1> SUFFICES ASSUME StoreInv PROVE NothingLost
  OBVIOUS
<1>1. DatabaseOK(db) /\ \A f \in files : SnapshotOK(f)
  BY Parts DEF Stored, FilesOK
<1> QED
  BY <1>1 DEF NothingLost, DatabaseOK, SnapshotOK

LEMMA MemoryFollows == StoreInv => MemoryIsDatabase
  BY WorkerIdle DEF MemoryIsDatabase

(* Every variable keeps its type through the steps of the log store, the   *)
(* state machine store and the snapshot builder.                           *)
THEOREM StoreTypeCorrect == StoreSpec => []StoreTypeOK
  BY StoreInvariant, TypeHolds, PTL

(* The startup check accepts every store a crash can leave behind.         *)
THEOREM StoreNeverRefused == StoreSpec => []NeverRefused
<1>1. StoreInv => NeverRefused
  BY DEF StoreInv, NeverRefused
<1> QED
  BY <1>1, StoreInvariant, PTL

(* After any crash and recovery the log still holds every entry that is    *)
(* not applied yet, so apply is never stuck.                               *)
THEOREM LogAlwaysReaches == StoreSpec => []LogReachesApplied
  BY StoreInvariant, LogReaches, PTL

(* Every applied entry is in the database's data, and in the data of every *)
(* snapshot file labelled with it or later, whatever the state machine and *)
(* the snapshot builder were doing when the node crashed.                  *)
THEOREM NothingIsLost == StoreSpec => []NothingLost
  BY StoreInvariant, AllHold, PTL

(* Between operations the in-memory copy is the database's data, although  *)
(* apply and install_snapshot update it in a later step.                   *)
THEOREM MemoryStaysDatabase == StoreSpec => []MemoryIsDatabase
  BY StoreInvariant, MemoryFollows, PTL

LabelsOK == Max(Labels) \in Labels /\ \A x \in Labels : x <= Max(Labels) /\ x \in Nat

LEMMA Greatest == FilesOK => LabelsOK
  BY LabelFacts DEF LabelsOK

LEMMA GreatestNext == FilesOK' => LabelsOK'
  BY Greatest, PTL

LEMMA SameLabels == ASSUME StoreInv, files' = files PROVE Max(Labels') >= Max(Labels)
<1>1. Labels' = Labels
  BY DEF Labels
<1>2. Max(Labels) \in Nat
  BY Parts, Greatest DEF LabelsOK
<1> QED
  BY <1>1, <1>2

(* Of the two files that make a third one old, one is as new as it.        *)
LEMMA PruneAdvances ==
  ASSUME StoreInv, NEW f \in files, Prune(f)
  PROVE  Max(Labels') >= Max(Labels)
<1>1. files' = files \ {f} /\ f \notin prune_old_snapshots(files)
  BY DEF Prune
<1>2. FilesOK /\ EpochsUnique /\ FewOvertake /\ FilesOK'
  BY Parts, Prune_Keeps, PartsHold
<1>3. PICK g, h \in files : g # h /\ g.epoch > f.epoch /\ h.epoch > f.epoch
  BY <1>1, <1>2, PrunedHasTwo DEF FilesOK
<1>4. \A x \in files : x.log \in Nat /\ x.epoch \in Nat
  BY <1>2, StoreAssumption DEF FilesOK, SnapshotOK, Snapshots
<1>5. g \in files' /\ h \in files'
  BY <1>1, <1>3, <1>4
<1>6. f.log <= g.log \/ f.log <= h.log
  <2> SUFFICES ASSUME g.log < f.log, h.log < f.log PROVE FALSE
    BY <1>3, <1>4
  <2>1. \A x \in files : Label(x) \in Handed /\ Label(x).epoch = x.epoch /\ Label(x).log = x.log
    BY DEF Handed, Written, Label
  <2>2. Overtakes(Label(g), Label(f)) /\ Overtakes(Label(h), Label(f))
    BY <1>3, <2>1 DEF Overtakes
  <2>3. Label(g) = Label(h)
    BY <1>2, <2>1, <2>2 DEF FewOvertake
  <2>4. g.epoch = h.epoch
    BY <2>1, <2>3
  <2> QED
    BY <1>2, <1>3, <2>4 DEF EpochsUnique
<1>7. /\ Max(Labels) \in Labels /\ Max(Labels) \in Nat /\ Max(Labels') \in Nat
      /\ \A x \in Labels' : x <= Max(Labels') /\ x \in Nat
  BY <1>2, Greatest, GreatestNext DEF LabelsOK
<1>8. 0 \in Labels' /\ \A x \in files' : x.log \in Labels'
  BY DEF Labels
<1>9. CASE Max(Labels) = f.log
  <2>1. g.log <= Max(Labels') /\ h.log <= Max(Labels')
    BY <1>5, <1>7, <1>8
  <2> QED
    BY <1>3, <1>4, <1>6, <1>7, <1>9, <2>1
<1>10. CASE Max(Labels) # f.log
  <2>1. Max(Labels) \in Labels'
    BY <1>1, <1>7, <1>10 DEF Labels
  <2> QED
    BY <1>7, <2>1
<1> QED
  BY <1>9, <1>10

LEMMA AddAdvances ==
  ASSUME StoreInv, FilesOK', files \subseteq files'
  PROVE  Max(Labels') >= Max(Labels)
<1>1. /\ Max(Labels) \in Labels /\ Max(Labels) \in Nat /\ Max(Labels') \in Nat
      /\ \A x \in Labels' : x <= Max(Labels')
  BY Parts, Greatest, GreatestNext DEF LabelsOK
<1>2. Labels \subseteq Labels'
  BY DEF Labels
<1> QED
  BY <1>1, <1>2

LEMMA StepAdvances ==
  ASSUME StoreInv, [Next]_storeVars
  PROVE  [Max(Labels') >= Max(Labels)]_storeVars
<1>1. FilesOK'
  BY StepKeeps, PartsHold
<1>2. CASE write_snapshot_file
  BY <1>1, <1>2, AddAdvances DEF write_snapshot_file
<1>3. CASE PersistInstalled
  BY <1>1, <1>3, AddAdvances DEF PersistInstalled
<1>4. CASE \E f \in files : Prune(f)
  BY <1>4, PruneAdvances
<1>5. CASE ~write_snapshot_file /\ ~PersistInstalled /\ ~\E f \in files : Prune(f)
  <2>1. files' = files
    BY <1>5 DEF Next, append, save_committed, truncate_after, purge, apply, apply_memory_changes,
                StartBuild, build_snapshot, TakeEpoch, CaptureData, SnapshotBuilt,
                install_snapshot, restore_snapshot_to_db, SwapMemory, SetSyncWrites, Crash,
                Restart, storeVars
  <2> QED
    BY <2>1, SameLabels
<1> QED
  BY <1>2, <1>3, <1>4, <1>5

(* No step makes the newest snapshot on disk older.  prune_old_snapshots   *)
(* goes by epoch, and a build may hold an older label with a later epoch   *)
(* than a snapshot installed beside it; but at most one does, so two files *)
(* kept are enough.                                                        *)
THEOREM SnapshotsOnlyAdvance == StoreSpec => SnapshotsAdvance
<1>1. StoreInv /\ [Next]_storeVars => [Max(Labels') >= Max(Labels)]_storeVars
  BY StepAdvances
<1> QED
  BY <1>1, StoreInvariant, PTL DEF StoreSpec, SnapshotsAdvance

=============================================================================
