SPECIFICATION Spec
CONSTANTS
    NumTreatments = 3
    Group <- MCGroup
    NoGroup = NoGroup
    MaxParallel = 2
    MaxAttempts = 2
PROPERTIES
    RecordedRanToEnd
CHECK_DEADLOCK FALSE
