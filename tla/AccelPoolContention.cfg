SPECIFICATION Spec
CONSTANTS
    Threads = {t1, t2}
    NumCl = 1
    NumCu = 1
    Kinds <- MCKinds
    Unstaged = 2
    Budget = 7
    Demands <- MCDemands
    MaxCalls = 2
    MaxFaults = 0
PROPERTIES
    ContentionParks
