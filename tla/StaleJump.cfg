SPECIFICATION Spec
CONSTANTS
    rom = rom
    spl = spl
    IM0 = IM0
    IM1 = IM1
    SRAM0 = SRAM0
    SDRAM = SDRAM
    NoName = NoName
    NumHeaps = 3
    Word = 32
    Programs = {rom, spl}
    Boot = rom
    Layout <- MCLayout
    Statuses = {0, 1}
    Requests <- MCRequests
    EarlyPanics = FALSE
    MaxRuns = 3
    MaxBlocks = 1
    MaxTests = 2
    MaxMarks = 2
INVARIANT
    ExitReturnsToCaller
