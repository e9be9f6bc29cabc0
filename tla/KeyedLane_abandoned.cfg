\* A connection whose reader is aborted leaves its mutations behind.
SPECIFICATION Spec
CONSTANTS
    Conns = {c}
    Keys = {k}
    NoWork = NoWork
    MaxFrames = 2
    Depth = 1
    Slots = 2
    Failures = {"abort"}
PROPERTY GoneNeverStarts
CHECK_DEADLOCK FALSE
