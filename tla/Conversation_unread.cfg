\* Listing fails when the choice of an earlier visit is to be opened.
SPECIFICATION Spec
CONSTANTS
    None = None
    k1 = k1
    k2 = k2
    a1 = a1
    a2 = a2
    s1 = s1
    s2 = s2
    Contexts <- Rotating
    Convs = {c1}
    Policies = {"poll", "push", "manual"}
    PageSize = 2
    MaxLength = 4
    MaxOps = 4
    MaxRefusals = 1
    Events = {"unread"}
CHECK_DEADLOCK FALSE
INVARIANTS SpinnersHaveReads
