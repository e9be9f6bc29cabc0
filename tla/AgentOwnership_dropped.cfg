\* A connection whose read fails skips the end of its handler.
SPECIFICATION Spec
CONSTANTS
    MaxConns = 1
    MaxDeletes = 0
    Requests = {}
    Kinds = {}
    Sweeps = FALSE
    Failing = TRUE
INVARIANT DropIsReleased
CHECK_DEADLOCK FALSE
