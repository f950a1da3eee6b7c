SPECIFICATION FairMemberSpec
CONSTANTS
    n1 = n1
    n2 = n2
    n3 = n3
    n4 = n4
    Nodes = {n1, n2, n3, n4}
    Leader = n1
    InitialVoters = {n1, n2}
    InitialNodes = {n1, n2, n3}
    MaxVoters = 3
    Admins = {a1}
    ReplaceAfter = 1
    MaxFlaps = 3
    MaxOps = 2
    MaxFaults = 1
INVARIANT MemberTypeOK
PROPERTIES AdminRemovesOnlyNamed DeadVoterIsReplaced
CHECK_DEADLOCK FALSE
