CONSTANTS
    g0 = g0
    a1 = a1
    b1 = b1
    None = None
    Block <- MCBlock
    Num <- MCNum
    Parent <- MCParent
    Time <- MCNum
    MaxRecords = 1
    DeliveryLimit = 1
    MaxRevision = 2
    MaxSequence = 3
    Session = {s1}
    Stream = {c1, c2}
    MaxActive = 2
    MaxPersisted = 1
    Topologies <- MCTopologies
    Payloads <- MCPayloads
    Positions <- MCPositions
SPECIFICATION ServiceSpec
SYMMETRY StreamSymmetry
INVARIANTS
    LeaseExclusive
    CachesCoherent
    ActiveMatchesDurable
    SourceFenced
    ExactReplay
    RepliesDurable
