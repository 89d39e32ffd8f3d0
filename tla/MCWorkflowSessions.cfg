SPECIFICATION Spec
CONSTANTS
    RunIds = {"a"}
    Sessions = {"s1", "s2"}
    Heads = {"h1", "h2"}
    PlanTasks <- OneTask
    Ops <- WorkOps
    MaxRevision = 4
    MaxReceipts = 2
INVARIANTS
    NoProgressBound
    CompletedIsAccepted
PROPERTIES
    OnlyEntitledWrite
CHECK_DEADLOCK FALSE
