SPECIFICATION Spec
CONSTANTS
    rom = rom
    spl = spl
    IM0 = IM0
    IM1 = IM1
    SRAM0 = SRAM0
    SDRAM = SDRAM
    NoName = NoName
    NumHeaps = 3
    Word = 32
    Programs = {rom, spl}
    Boot = rom
    Layout <- MCLayout
    Statuses <- MCStatuses
    Requests <- MCRequests
    EarlyPanics = TRUE
    MaxRuns = 3
    MaxBlocks = 2
    MaxTests = 1
    MaxMarks = 2
INVARIANTS
    TypeOK
    BlocksSound
    HeapsAreFound
    LeavesComeHome
    CallerGetsStatus
PROPERTIES
    TestsReleaseMemory
