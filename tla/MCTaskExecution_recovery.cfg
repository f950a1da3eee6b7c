SPECIFICATION FairExecSpec
CONSTANTS
  Task = {t1, t2}
  Irreversible = {t1}
  Node = {n1, n2}
  MaxEpoch = 1
  Epoch = {1}
  IdemKey = {}
  Time = {1}
  AttemptCap = 2
  MaxAttempts = 2
  MaxConcurrent = 1
  MaxMinted = 1
  MaxFaults = 2
  NoRec = NoRec
  NoTask = NoTask
  NoNode = NoNode
  NoEpoch = NoEpoch
  NoKey = NoKey
  NoLease = NoLease
INVARIANTS ExecTypeOK AtMostOnce DoneMeansPerformed
PROPERTY EventuallySettled
