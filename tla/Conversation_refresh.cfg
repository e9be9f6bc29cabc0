\* Every policy: rotations, selections, reloads, refusals; and what is watched catches up.
SPECIFICATION FairSpec
CONSTANTS
    None = None
    k1 = k1
    k2 = k2
    a1 = a1
    a2 = a2
    s1 = s1
    s2 = s2
    Contexts <- Rotating
    Convs = {c1}
    Policies = {"poll", "push", "manual"}
    PageSize = 2
    MaxLength = 4
    MaxOps = 3
    MaxRefusals = 1
    Events = {}
INVARIANTS TypeOK OnlyTheOpenPublishes HistoryReachable FollowUpHasARead RefreshWatchesTheOpen SpinnersHaveReads
PROPERTIES CatchesUp
CHECK_DEADLOCK FALSE
