SPECIFICATION Spec
CONSTANTS
    Length = 7
    BufferSize = 3
    Sizes <- MCSizes
    SeekTargets <- MCSeekTargets
    HasSeek = TRUE
    MaxFaults = 2
INVARIANTS
    PositionKept
    ReadDelivers
    ReadReports
    SkipHonest
PROPERTIES
    NoOverrun
