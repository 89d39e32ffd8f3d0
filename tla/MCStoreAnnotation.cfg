SPECIFICATION Spec
CONSTANTS
    Procs = {p1, p2}
    RunIds = {"b"}
    Requests <- AnnotationRequests
    MaxRevision = 2
    MaxReceipts = 0
INVARIANTS
    StoreStaysReadable
CHECK_DEADLOCK FALSE
