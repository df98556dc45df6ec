SPECIFICATION Spec
CONSTANTS
    Line <- One
    Spurious = 9
    NumIrqs = 8
    Table <- OneTable
    Handler <- Only
    NoTable = NoTable
    NoHandler = NoHandler
    MinPriority = 0
    MaxPriority = 3
    DefaultPriority = 1
    Level <- None
    CriticalBorder = 3
    Wanted <- Raised
    MainCalls <- Nested
    IsrCalls <- None
    MaxDepth = 3
    CountMod = 1
INVARIANT CriticalReturns
