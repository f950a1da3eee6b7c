SPECIFICATION ClockSpec
CONSTANTS
    p1 = p1
    p2 = p2
    Patchers = {p1, p2}
    Patches <- Changes
    InitConfig <- Start
    MaxTtl = 9
    MaxDelay = 1
    MaxLag = 1
    MaxMisses = 1
    PassEvery = 1
    Grace = 2
    MaxLate = 1
    MaxPatches = 2
    MaxTurns = 1
    Keep = Keep
    None = None
SYMMETRY Sym
INVARIANTS LiveIsKept DeadIsReleased GraceIsFull
