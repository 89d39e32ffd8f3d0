SPECIFICATION Spec
CONSTANTS
    Procs = {p1, p2}
    RunIds = {"a"}
    Requests <- ReceiptRequests
    MaxRevision = 2
    MaxReceipts = 3
INVARIANTS
    DivergedIsRepairable
CHECK_DEADLOCK FALSE
