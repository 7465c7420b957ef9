SPECIFICATION Spec
CONSTANT NumSetup = 3
INVARIANTS
    TypeOK
    SummaryIsComplete
    StopsAfterFailure
PROPERTIES
    NothingLeftBehind
CHECK_DEADLOCK FALSE
