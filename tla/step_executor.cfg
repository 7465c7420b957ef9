SPECIFICATION FairSpec
CONSTANTS
    NumSteps = 4
    Number <- MCNumber
    PerStack <- MCPerStack
    Stacks = {stackA, stackB, stackC}
    MaxParallel = 2
INVARIANTS
    TypeOK
    PreparationFirst
    NoTailBeforeStacksEnd
    StopsAtFirstFailure
    ResultIsComplete
PROPERTIES
    ImplementsPhase
    PhaseEnds
CHECK_DEADLOCK FALSE
