\* The page moves to another transport generation.
SPECIFICATION Spec
CONSTANTS
    Pages = {a}
    NoPage = NoPage
    MaxTyped = 1
    MaxQueue = 1
    MaxConns = 2
    MaxEpochs = 1
    MaxGen = 1
    Events = {"swap"}
INVARIANT NoSilentLoss
CHECK_DEADLOCK FALSE
