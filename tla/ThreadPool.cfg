SPECIFICATION FairSpec
CONSTANTS
    MaxThreads = 2
    MaxJobs = 4
    MaxWaits = 1
    WaitArgs <- MCWaitArgs
    QueueFactor = 1
    MaxSpurious = 1
    MaxAllocFails = 2
    SpawnMayFail = TRUE
INVARIANTS
    TypeOK
    PendingAccounting
    NoLostWakeup
    ClientSleepsForCause
    AssertionsHold
    DestroyDrains
PROPERTIES
    WaitPost
    ImplementsJobPool
    JobRunsWhileWorkersLive
    EveryCallReturns
CHECK_DEADLOCK FALSE
