\* Pending input outlives its TTL while the page is away.
SPECIFICATION Spec
CONSTANTS
    Pages = {a}
    NoPage = NoPage
    MaxTyped = 2
    MaxQueue = 2
    MaxConns = 2
    MaxEpochs = 1
    MaxGen = 1
    Events = {"age"}
PROPERTY NoStaleInputSent
CHECK_DEADLOCK FALSE
