SPECIFICATION GuardSpec
CONSTANTS
    Keys = {raft, task}
    Callers = {c1, c2, c3}
    PerPeerMax = 2
    GlobalMax = 2
    Threshold = 2
    OpenDuration = 1
    MaxNow = 2
SYMMETRY Symmetry
INVARIANTS GuardTypeOK PermitsConserved StreakIsActedOn OpenIsBounded
CHECK_DEADLOCK FALSE
