SPECIFICATION FairSpec
CONSTANTS
    Threads = {t1, t2, t3}
    NumCl = 2
    NumCu = 2
    Kinds <- MCKinds
    Unstaged = 2
    Budget = 7
    Demands <- MCDemands
    MaxCalls = 4
    MaxFaults = 1
INVARIANTS
    TypeOK
    BudgetExact
    LeaseExclusive
    WakeupOwed
PROPERTIES
    ActiveUntouched
    EveryCallAnswered
