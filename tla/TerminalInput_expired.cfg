\* Expiry frees positions that are still on the wire.
SPECIFICATION Spec
CONSTANTS
    Pages = {a}
    NoPage = NoPage
    MaxTyped = 3
    MaxQueue = 2
    MaxConns = 2
    MaxEpochs = 1
    MaxGen = 1
    Events = {"age"}
INVARIANT NoSilentLoss
CHECK_DEADLOCK FALSE
