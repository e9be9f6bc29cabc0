\* A write abandoned after admission is retried.
SPECIFICATION Spec
CONSTANTS
    Pages = {a}
    NoPage = NoPage
    MaxTyped = 1
    MaxQueue = 1
    MaxConns = 2
    MaxEpochs = 1
    MaxGen = 1
    Events = {"interrupt"}
INVARIANT AtMostOnce
CHECK_DEADLOCK FALSE
