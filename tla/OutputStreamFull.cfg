SPECIFICATION FairSpec
CONSTANTS
    BufferSize = 2
    Sizes <- MCSizes
    SeekTargets <- MCSeekTargets
    FileSize = 5
    MaxBytes = 5
    MaxFaults = 0
    MayFill = TRUE
PROPERTIES
    FlushReturns
