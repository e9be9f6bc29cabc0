\* Two pages: reconnects, takeovers and an Agent restart, every write completes.
SPECIFICATION Spec
CONSTANTS
    Pages = {a, b}
    NoPage = NoPage
    MaxTyped = 2
    MaxQueue = 2
    MaxConns = 3
    MaxEpochs = 2
    MaxGen = 2
    Events = {}
SYMMETRY PageSymmetry
INVARIANTS TypeOK LeaseCoversWrite PositionNamesOneChunk
PROPERTY ImplementsInputLog
CHECK_DEADLOCK FALSE
