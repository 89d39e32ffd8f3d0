SPECIFICATION LiveOrderlySpec
CONSTANTS
    Procs = {p1, p2}
    Order <- PublishOrder
    Active = "active"
    Run = "run"
    NewEvents = {"event-2", "event-3"}
INVARIANTS
    Recoverable
PROPERTIES
    CommitsSurvive
    PreflightEnds
CHECK_DEADLOCK FALSE
