\* A deleted agent's connection keeps speaking.
SPECIFICATION Spec
CONSTANTS
    MaxConns = 1
    MaxDeletes = 1
    Requests = {}
    Kinds = {"heartbeat"}
    Sweeps = TRUE
    Failing = FALSE
INVARIANT BrokerTracksRegistry
CHECK_DEADLOCK FALSE
