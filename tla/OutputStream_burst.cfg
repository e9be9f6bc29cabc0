\* Two frames of a new epoch ahead of the attach answer.
SPECIFICATION Spec
CONSTANTS
    None = None
    Script <- Plain
    MaxEpochs = 2
    MaxAttaches = 2
    MaxFrames = 2
    HOLE_ATTEMPT_LIMIT = 2
    MaxAsked = 1
    Events = {"restart", "burst"}
PROPERTY HeldIsAccounted
CHECK_DEADLOCK FALSE
