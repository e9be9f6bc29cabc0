\* Input typed before the first attach of a transport.
SPECIFICATION Spec
CONSTANTS
    Pages = {a, b}
    NoPage = NoPage
    MaxTyped = 2
    MaxQueue = 2
    MaxConns = 2
    MaxEpochs = 1
    MaxGen = 1
    Events = {"early"}
INVARIANT NoSilentLoss
CHECK_DEADLOCK FALSE
