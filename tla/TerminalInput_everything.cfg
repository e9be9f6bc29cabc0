\* Every event at once, within one attachment: delivery is no longer exactly
\* once, but a page's input still arrives in the order it was typed.
SPECIFICATION Spec
CONSTANTS
    Pages = {a, b}
    NoPage = NoPage
    MaxTyped = 2
    MaxQueue = 2
    MaxConns = 2
    MaxEpochs = 1
    MaxGen = 2
    Events = {"early", "age", "swap", "refuse", "interrupt"}
INVARIANT AppliedInTypingOrder
CHECK_DEADLOCK FALSE
