\* Two commands, sweeps and a delete, around the ownership record.
SPECIFICATION Spec
CONSTANTS
    MaxConns = 2
    MaxDeletes = 1
    Requests = {r, s}
    Kinds = {"heartbeat", "addresses"}
    Sweeps = TRUE
    Failing = TRUE
SYMMETRY RequestSymmetry
INVARIANTS TypeOK PendingHasOwner
PROPERTY BrokerImplementsFence
CHECK_DEADLOCK FALSE
