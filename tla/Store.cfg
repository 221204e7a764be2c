CONSTANTS
    g0 = g0
    a1 = a1
    a2 = a2
    b1 = b1
    b2 = b2
    o1 = o1
    None = None
    Block <- MCBlock
    Num <- MCNum
    Parent <- MCParent
    Time <- MCNum
    MaxRecords = 3
    MaxRevision = 2
    MaxSequence = 5
    Session = {s1}
    MaxPersisted = 1
    Topologies <- MCTopologies
    Payloads <- MCPayloads
    Positions <- MCPositions
SPECIFICATION MCSpec
CHECK_DEADLOCK FALSE
INVARIANTS
    RowsLoadable
    ReorgPromiseKept
    HeadMovesOnlyToCarriedBlocks
    OutboxAcceptable
    ActivationOpensRevision
    ActivationReplyStable
