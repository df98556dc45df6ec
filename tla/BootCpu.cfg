SPECIFICATION FairSpec
CONSTANTS
    Clusters = {"nmc", "ext"}
    Depth = 2
    Statuses <- MCStatuses
    MaxImages = 3
    MaxOut = 2
    MaxKeys = 3
INVARIANTS
    TypeOK
    OutputIsWhole
    OwnStatus
PROPERTY
    PollReturns
CHECK_DEADLOCK FALSE
