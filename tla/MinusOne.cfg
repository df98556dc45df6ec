SPECIFICATION Spec
CONSTANTS
    Name <- MCName
    Blank = "blank"
    Img <- MCImg
    HdrSize = 2
    WordHalf = 64
    SwapSupported = TRUE
    NumClusters = 2
    ChipId = 7
    Region = {"im1", "ddr"}
    NumSources = 3
    Align <- MCAlign
    Offset0 <- MCOffset0
    Media <- MCMedia
    MaxSize = 12
    Residue = {"blank", "next", "badver"}
    Upload = {"badcrc", "async", "jump", "pack", "absent"}
    KillHook = {1}
    PollHook = {1}
    PollMask = 256
PROPERTIES
    MinusOneForcesHost
