\* Two holes, and the lower one is given up.
SPECIFICATION FairSpec
CONSTANTS
    None = None
    Script <- Plain
    MaxEpochs = 2
    MaxAttaches = 3
    MaxFrames = 2
    HOLE_ATTEMPT_LIMIT = 2
    MaxAsked = 1
    Events = {"fail"}
PROPERTY Settles
CHECK_DEADLOCK FALSE
