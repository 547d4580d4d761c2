SPECIFICATION FairSpec
CONSTANTS
    MaxThreads = 1
    MaxJobs = 2
    MaxWaits = 1
    WaitArgs <- MCWaitArgs
    QueueFactor = 1
    MaxSpurious = 0
    MaxAllocFails = 1
    SpawnMayFail = FALSE
PROPERTIES
    EveryJobRuns
CHECK_DEADLOCK FALSE
