CONSTANTS
    g0 = g0
    a1 = a1
    a2 = a2
    a3 = a3
    a4 = a4
    b2 = b2
    b3 = b3
    b4 = b4
    None = None
    Block <- MCBlock
    Num <- MCNum
    Parent <- MCParent
    Time <- MCNum
    HistoryCapacity = 3
    RecentCapacity = 3
    Genesis = g0
    PageBlocks = 2
    MaxBufferedBatches = 2
    MaxBufferedRecords = 3
    Environments <- MCEnvironments
SPECIFICATION FairSpec
CHECK_DEADLOCK FALSE
INVARIANTS
    EffectsFollowHead
    NeverTwice
    Restartable
PROPERTIES
    CutoverCompletes
