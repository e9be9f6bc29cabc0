\* The rerun of a run that was turned away.
SPECIFICATION Spec
CONSTANTS
    Issuers = {c1, c2}
    NoIssuer = nobody
    Developers = {"cursor", "qwen"}
    MaxSlices = 1
    MaxRepairs = 1
    MaxRecoveries = 0
PROPERTY DeniedRunResumes
CHECK_DEADLOCK FALSE
