\* Reconnects, restarts and evictions, with every answer in time.
SPECIFICATION FairSpec
CONSTANTS
    None = None
    Script <- Plain
    MaxEpochs = 2
    MaxAttaches = 3
    MaxFrames = 2
    HOLE_ATTEMPT_LIMIT = 2
    MaxAsked = 1
    Events = {"restart", "evict"}
INVARIANT ShownOnce
PROPERTIES Settles CatchesUp
CHECK_DEADLOCK FALSE
