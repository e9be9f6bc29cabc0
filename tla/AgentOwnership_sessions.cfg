\* A session report is applied after its connection was superseded.
SPECIFICATION Spec
CONSTANTS
    MaxConns = 2
    MaxDeletes = 0
    Requests = {}
    Kinds = {"sessions"}
    Sweeps = FALSE
    Failing = FALSE
INVARIANT NoStaleSessions
CHECK_DEADLOCK FALSE
