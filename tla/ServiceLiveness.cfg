CONSTANTS
    g0 = g0
    a1 = a1
    b1 = b1
    None = None
    Block <- MCBlock
    Num <- MCNum
    Parent <- MCParent
    Time <- MCNum
    MaxRecords = 1
    DeliveryLimit = 1
    MaxRevision = 1
    MaxSequence = 2
    Session = {s1}
    Stream = {c1, c2}
    MaxActive = 1
    MaxPersisted = 1
    Topologies <- MCTopologies
    Payloads <- PagePayloads
    Positions <- PagePositions
SPECIFICATION FairServiceSpec
PROPERTIES
    ShutdownCompletes
    ImplementsStore
