CONSTANTS
    g0 = g0
    a1 = a1
    a2 = a2
    a3 = a3
    a4 = a4
    b2 = b2
    b3 = b3
    b4 = b4
    c3 = c3
    c4 = c4
    o1 = o1
    o2 = o2
    A = A
    B = B
    T = T
    U = U
    Address = {A, B}
    Topic = {T, U}
    Log <- MCLog
    LogInterest <- MCLogInterest
    MaxInterests = 4
    MaxFilters = 2
    None = None
    Malformed = Malformed
    Block <- MCBlock
    Num <- MCNum
    Parent <- MCParent
    Time <- MCNum
    MaxRecords = 20
    MaxResponseBlocks = 3
    MaxResponseLogs = 2
    Pages <- MCPages
    DesiredStates <- MCDesiredStates
    From = 1
    To = 4
    Depth = 4
    Inputs <- MCInputs
SPECIFICATION MCSpec
CHECK_DEADLOCK FALSE
INVARIANTS
    SelectsExactly
    AdmittedPagesDeliverable
    LogsReachTheirOwners
    TrackerLoopAsSpecified
