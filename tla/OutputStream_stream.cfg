\* Reconnects, restarts, evictions, refusals, late answers and sizes.
SPECIFICATION Spec
CONSTANTS
    None = None
    Script <- Bulky
    MaxEpochs = 2
    MaxAttaches = 2
    MaxFrames = 1
    HOLE_ATTEMPT_LIMIT = 2
    MaxAsked = 1
    Events = {"restart", "evict", "slow", "fail", "level"}
INVARIANTS TypeOK BufferHonest HeldIsBehindAHole LevelWins
CHECK_DEADLOCK FALSE
