SPECIFICATION Spec
CONSTANTS
    Space = 8
    Page = 3
    Offset <- Offsets
    Length <- Lengths
    MaxFaults = 4
INVARIANTS
    BytesAreTheEeproms
    ReadIsComplete
