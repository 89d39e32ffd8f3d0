SPECIFICATION Spec
CONSTANTS
    RunIds = {"a", "b"}
    Sessions = {"s1", "s2"}
    Heads = {"h1"}
    PlanTasks <- OneTask
    Ops <- AdoptOps
    MaxRevision = 4
    MaxReceipts = 0
INVARIANTS
    UniqueActiveKey
CHECK_DEADLOCK FALSE
