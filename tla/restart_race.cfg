SPECIFICATION Spec
CONSTANTS
    Waits = {"a", "b"}
    Uids = {1, 2, 3}
    Owner <- MCOwner
    Initial = {1, 2}
    Bare = {}
    Limit = 2
    Grace = 1
    Timeout = 1
INVARIANT
    ChargedIsDeleted
CHECK_DEADLOCK FALSE
