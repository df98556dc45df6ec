SPECIFICATION FairSpec
CONSTANTS
    Line <- Two
    Spurious = 9
    NumIrqs = 8
    Table <- TwoTables
    Handler <- Only
    NoTable = NoTable
    NoHandler = NoHandler
    MinPriority = 0
    MaxPriority = 3
    DefaultPriority = 1
    Level <- One
    CriticalBorder = 4
    Wanted <- Raised
    MainCalls <- Disabling
    IsrCalls <- None
    MaxDepth = 3
    CountMod = 1
INVARIANTS TypeOK HandlerGetsItsArg
PROPERTY EveryInterruptEnds
