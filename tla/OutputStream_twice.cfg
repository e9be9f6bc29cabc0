\* The deadline of a request passes between a snapshot and its attach answer.
SPECIFICATION Spec
CONSTANTS
    None = None
    Script <- Plain
    MaxEpochs = 1
    MaxAttaches = 3
    MaxFrames = 2
    HOLE_ATTEMPT_LIMIT = 2
    MaxAsked = 1
    Events = {"slow"}
INVARIANT ShownOnce
CHECK_DEADLOCK FALSE
