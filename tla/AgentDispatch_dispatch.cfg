\* Two controllers, both developers: every run answers for one action.
SPECIFICATION Spec
CONSTANTS
    Issuers = {c1, c2}
    NoIssuer = nobody
    Developers = {"cursor", "qwen"}
    MaxSlices = 1
    MaxRepairs = 1
    MaxRecoveries = 1
SYMMETRY ControllerSymmetry
INVARIANTS TypeOK OneRunPerAction RunsMatchStore OneChain ValidAlways ReconciliationFinds
CHECK_DEADLOCK FALSE
