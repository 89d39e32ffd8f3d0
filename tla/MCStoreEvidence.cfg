SPECIFICATION Spec
CONSTANTS
    Procs = {p1, p2}
    RunIds = {"a"}
    Requests <- EvidenceRequests
    MaxRevision = 3
    MaxReceipts = 3
INVARIANTS
    ProgressIsEarned
CHECK_DEADLOCK FALSE
