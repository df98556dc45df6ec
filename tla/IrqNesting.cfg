SPECIFICATION ReadySpec
CONSTANTS
    Line <- Two
    Spurious = 9
    NumIrqs = 8
    Table <- OneTable
    Handler <- Only
    NoTable = NoTable
    NoHandler = NoHandler
    MinPriority = 0
    MaxPriority = 3
    DefaultPriority = 1
    Level <- None
    CriticalBorder = 2
    Wanted <- Raised
    MainCalls <- Changing
    IsrCalls <- Setting
    MaxDepth = 4
    CountMod = 1
INVARIANTS ContextCounts TypeTells EndsItsOwn MaskNests NormalReturns
