SPECIFICATION Spec
CONSTANTS
    rom = rom
    spl = spl
    IM0 = IM0
    IM1 = IM1
    SRAM0 = SRAM0
    SDRAM = SDRAM
    NoName = NoName
    NumHeaps = 3
    Word = 32
    Programs = {rom, spl}
    Boot = rom
    Layout <- ZeroLayout
    Statuses = {0}
    Requests <- MCRequests
    EarlyPanics = FALSE
    MaxRuns = 2
    MaxBlocks = 1
    MaxTests = 2
    MaxMarks = 2
INVARIANT
    HeapsAreFound
