CONSTANTS
    k1 = k1
    k2 = k2
    Key <- MCKey
    None = None
    MaxResident = 1
    MaxRevision = 2
    MaxSequence = 3
    MaxHeight = 1
SPECIFICATION FairSpec
INVARIANTS
    ResidentWithinLimit
    EnginesFollowStore
PROPERTIES
    WaiterWoken
