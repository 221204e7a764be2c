CONSTANTS
    g0 = g0
    a1 = a1
    a2 = a2
    b2 = b2
    o1 = o1
    None = None
    Block <- MCBlock
    Num <- MCNum
    Parent <- MCParent
    Time <- MCNum
    MaxRecords = 1
    MaxRevision = 3
    MaxSequence = 5
    Owner = {o1}
    Interest = {i1}
    Environments <- MCEnvironments
SPECIFICATION Spec
CHECK_DEADLOCK FALSE
INVARIANTS
    MirrorFollowsRow
    OutboxDecodes
    RestartKeepsMirror
PROPERTIES
    BackfillNotAbandoned
