CONSTANTS
    g0 = g0
    a1 = a1
    None = None
    Block <- MCBlock
    Num <- MCNum
    Parent <- MCParent
    Time <- MCNum
    MaxRecords = 1
    DeliveryLimit = 1
    MaxRevision = 2
    MaxSequence = 3
    Session = {s1}
    Stream = {c1, c2}
    MaxActive = 1
    MaxPersisted = 1
    Topologies <- MCTopologies
    Payloads <- MCPayloads
    Positions <- MCPositions
    Asks <- MCAsks
    DropsAfter = 1
    LastData = 2
SPECIFICATION SessionSpec
SYMMETRY StreamSymmetry
CHECK_DEADLOCK FALSE
INVARIANTS
    NoProtocolFault
    RestartAccepted
    ControlRecorded
    CallsAnswered
PROPERTIES
    ImplementsFeed
