SPECIFICATION Spec
CONSTANTS
  Task = {t1, t2}
  Node = {n1, n2}
  Epoch = {1}
  IdemKey = {k1}
  Time = {1, 2}
  AttemptCap = 1
  NoRec = NoRec
  NoTask = NoTask
  NoNode = NoNode
  NoEpoch = NoEpoch
  NoKey = NoKey
  NoLease = NoLease
SYMMETRY Symmetry
INVARIANTS TypeOK IndexesExact IdemExact CommittedNeverWaits
PROPERTIES CommitIsFinal LifecycleSpec
