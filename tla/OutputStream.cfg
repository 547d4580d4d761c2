SPECIFICATION FairSpec
CONSTANTS
    BufferSize = 2
    Sizes <- MCSizes
    SeekTargets <- MCSeekTargets
    FileSize = 5
    MaxBytes = 5
    MaxFaults = 1
    MayFill = TRUE
INVARIANTS
    BufferKept
    CallsReport
PROPERTIES
    ImplementsByteFile
    FlushReturnsUnlessFull
