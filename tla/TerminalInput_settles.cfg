\* The same with a full queue, and fair: what is held settles.
SPECIFICATION FairSpec
CONSTANTS
    Pages = {a, b}
    NoPage = NoPage
    MaxTyped = 3
    MaxQueue = 1
    MaxConns = 2
    MaxEpochs = 2
    MaxGen = 2
    Events = {}
PROPERTY HeldInputResolves
CHECK_DEADLOCK FALSE
