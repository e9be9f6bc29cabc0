\* A new transport over the renderer that was kept.
SPECIFICATION Spec
CONSTANTS
    None = None
    Script <- Plain
    MaxEpochs = 2
    MaxAttaches = 2
    MaxFrames = 2
    HOLE_ATTEMPT_LIMIT = 2
    MaxAsked = 1
    Events = {"swap"}
INVARIANT BufferHonest
CHECK_DEADLOCK FALSE
