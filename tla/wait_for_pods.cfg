SPECIFICATION FairSpec
CONSTANTS
    Old = {o1, o2}
    New = {n1, n2}
    Expected = 2
    Timeout = 2
    RolloutAttempts = 2
INVARIANTS
    TypeOK
    SuccessMeansRolledOut
    StartupHasItsOwnBudget
PROPERTIES
    WaitEnds
CHECK_DEADLOCK FALSE
