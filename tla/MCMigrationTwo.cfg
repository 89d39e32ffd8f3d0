SPECIFICATION MigrationSpec
CONSTANTS
    Procs = {p1, p2}
    Order <- PublishOrder
    Active = "active"
    Run = "run"
    NewEvents = {"event-2", "event-3"}
PROPERTIES
    CommitsSurvive
CHECK_DEADLOCK FALSE
