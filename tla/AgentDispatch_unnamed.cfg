\* A run whose number was lost and that reconciliation refuses.
SPECIFICATION Spec
CONSTANTS
    Issuers = {c1, c2}
    NoIssuer = nobody
    Developers = {"cursor", "qwen"}
    MaxSlices = 1
    MaxRepairs = 1
    MaxRecoveries = 0
INVARIANT RunIsNamed
CHECK_DEADLOCK FALSE
