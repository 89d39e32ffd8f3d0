SPECIFICATION Spec
CONSTANTS
    Procs = {p1, p2}
    RunIds = {"b"}
    Requests <- SteerRequests
    MaxRevision = 2
    MaxReceipts = 0
INVARIANTS
    ReplayedIsApplied
CHECK_DEADLOCK FALSE
