\* An address update writes back the entry it read.
SPECIFICATION Spec
CONSTANTS
    MaxConns = 2
    MaxDeletes = 0
    Requests = {}
    Kinds = {"addresses"}
    Sweeps = FALSE
    Failing = FALSE
PROPERTY RegistryNeverRegresses
CHECK_DEADLOCK FALSE
