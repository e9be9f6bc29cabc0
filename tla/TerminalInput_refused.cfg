\* The writer refuses a chunk the page still holds.
SPECIFICATION FairSpec
CONSTANTS
    Pages = {a}
    NoPage = NoPage
    MaxTyped = 2
    MaxQueue = 2
    MaxConns = 1
    MaxEpochs = 1
    MaxGen = 1
    Events = {"refuse"}
PROPERTY HeldInputResolves
CHECK_DEADLOCK FALSE
