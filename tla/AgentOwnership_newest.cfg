\* Registrations and reports of three connections until the agent is deleted:
\* which one is published, who owns the channel, and that both settle.
SPECIFICATION FairSpec
CONSTANTS
    MaxConns = 3
    MaxDeletes = 0
    Requests = {}
    Kinds = {"heartbeat", "sessions"}
    Sweeps = TRUE
    Failing = FALSE
INVARIANTS NewestWins DropIsReleased
PROPERTIES RegistryNeverRegresses OwnerRecovers RegistrationSettles
CHECK_DEADLOCK FALSE
