SPECIFICATION FairSpec
CONSTANTS
    Sector = 2
    Attempts = 2
    Kind <- AnyCard
    MaxBusy = 1
    Offset <- Offsets
    Length <- Lengths
    MaxReads = 2
    MaxFaults = 2
INVARIANTS
    CountedSectorsAreTheCards
    ReadIsComplete
PROPERTIES
    CardIsFound
    DriverReturns
