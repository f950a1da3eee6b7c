SPECIFICATION FairControlSpec
CONSTANTS
    n1 = n1
    n2 = n2
    n3 = n3
    Ctrl = {n1, n2, n3}
    KnownAtStart <- Known
    Renewers = {"renew"}
    Pollers = {"poll"}
    Frontends = {"front"}
    MaxRedirects = 3
    NoNode = NoNode
INVARIANTS TriesBounded CopiesBounded
PROPERTY ReadsRecover
