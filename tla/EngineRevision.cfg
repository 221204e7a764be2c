CONSTANTS
    g0 = g0
    a1 = a1
    a2 = a2
    a3 = a3
    a4 = a4
    b2 = b2
    b3 = b3
    b4 = b4
    o1 = o1
    None = None
    Malformed = Malformed
    Block <- MCBlock
    Num <- MCNum
    Parent <- MCParent
    Time <- MCNum
    MaxRecords = 20
    MaxResponseBlocks = 3
    MaxResponseLogs = 2
    MaxRevision = 2
    MaxSequence = 9
    Depth = 3
    MaxDelivery = 10
    MaxLogsPerQuery = 1
    Genesis = a1
    Environments <- RevisingEnvironments
SPECIFICATION FairSpec
CHECK_DEADLOCK FALSE
PROPERTIES
    CatchesUp
