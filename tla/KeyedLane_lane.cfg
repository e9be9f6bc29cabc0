\* Two connections, every failure: order, bounds, barrier, progress.
SPECIFICATION FairSpec
CONSTANTS
    Conns = {c, d}
    Keys = {k}
    NoWork = NoWork
    MaxFrames = 2
    Depth = 1
    Slots = 1
    Failures = {"panic", "grace", "abort"}
INVARIANTS TypeOK BarrierHolds
PROPERTIES ImplementsKeyOrder LeftNeverStarts QueuedSettles ReaderReadsOn
CHECK_DEADLOCK FALSE
