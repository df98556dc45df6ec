SPECIFICATION FairSpec
CONSTANTS
    Size = 15
    BlockSize = 2
    SeqMod = 6
    RetryLimit = 4
    SyncLimit = 3
    EotLimit = 3
    Sender <- Senders
    MaxFaults = 2
    MaxLate = 2
INVARIANTS
    TypeOK
    Masked
    SenderNotFooled
PROPERTIES
    IsTransfer
    BothReturn
CHECK_DEADLOCK FALSE
