SPECIFICATION LiveSpec
CONSTANTS
    Procs = {p1, p2}
    RunIds = {"a", "b"}
    Requests <- StoreRequests
    MaxRevision = 3
    MaxReceipts = 0
INVARIANTS
    LogIsLinear
    SnapshotsFollowIndex
    CommittedIsDurable
    DivergedIsRepairable
PROPERTIES
    RunsAdvance
    CallsEnd
    ImplementsAtomicLog
CHECK_DEADLOCK FALSE
