SPECIFICATION Spec
CONSTANT NumSetup = 3
INVARIANTS
    AbortsOnFirstFailure
CHECK_DEADLOCK FALSE
