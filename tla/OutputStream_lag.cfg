\* A snapshot is parsed after the next attach asked for another.
SPECIFICATION Spec
CONSTANTS
    None = None
    Script <- Plain
    MaxEpochs = 2
    MaxAttaches = 2
    MaxFrames = 2
    HOLE_ATTEMPT_LIMIT = 2
    MaxAsked = 1
    Events = {"lag"}
INVARIANT BufferHonest
CHECK_DEADLOCK FALSE
