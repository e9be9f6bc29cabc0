\* The connection is lost between the snapshot and the attach answer.
SPECIFICATION Spec
CONSTANTS
    None = None
    Script <- Plain
    MaxEpochs = 2
    MaxAttaches = 2
    MaxFrames = 2
    HOLE_ATTEMPT_LIMIT = 2
    MaxAsked = 1
    Events = {"early"}
INVARIANT BufferHonest
CHECK_DEADLOCK FALSE
