SPECIFICATION KvSpec
CONSTANTS
    c1 = c1
    c2 = c2
    n1 = n1
    n2 = n2
    Client = {c1, c2}
    Ctrl = {n1, n2}
    Kinds = {"get", "set", "update", "delete"}
    ReadAttempts = 2
    RebuildGap = 0
    NoNode = NoNode
    Free = Free
    MaxLog = 2
    MaxFaults = 2
SYMMETRY Symmetry
INVARIANTS HandleCoversIndex SecondaryIsGuarded
PROPERTIES Linearizable
