\* The clean-up of an offline agent races its return.
SPECIFICATION Spec
CONSTANTS
    MaxConns = 2
    MaxDeletes = 0
    Requests = {}
    Kinds = {"heartbeat"}
    Sweeps = TRUE
    Failing = FALSE
PROPERTY CleanUpSparesReconnected
CHECK_DEADLOCK FALSE
