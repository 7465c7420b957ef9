SPECIFICATION FairSpec
CONSTANTS
    Waits = {"a", "b"}
    Uids = {1, 2, 3}
    Owner <- MCOwner
    Initial = {1, 2}
    Bare = {}
    Limit = 2
    Grace = 1
    Timeout = 0
INVARIANTS
    TypeOK
    DeletionsWithinBudget
    DeletedOnce
    SparesRestartedPods
    SuccessMeansReady
    WaitIsBounded
PROPERTIES
    ImplementsAllowance
    WaitsEnd
CHECK_DEADLOCK FALSE
