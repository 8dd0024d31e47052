SPECIFICATION Spec
CONSTANTS
    t1 = t1
    t2 = t2
    x1 = x1
    x2 = x2
    Threads <- MCThreads
    Texts <- MCTexts
    Cap = 1
    KeepDays = 1
    LastDay = 3
    MaxRequests = 3
    MaxFaults = 2
SYMMETRY MCSymmetry
INVARIANTS
    TypeOK
    OneSaltPerDay
    RowsBounded
    RetryIsSafe
    SightingsKept
CHECK_DEADLOCK FALSE
