SPECIFICATION FairSpec
CONSTANTS
    NumTreatments = 3
    Group <- MCGroup
    NoGroup = NoGroup
    MaxParallel = 2
    MaxAttempts = 2
INVARIANTS
    TypeOK
    LoadIsAccountedFor
    RecordedOnceAndWhole
    StopsAtGroupBoundary
PROPERTIES
    RequiredMeansCold
    ImplementsTrials
    StepEnds
CHECK_DEADLOCK FALSE
