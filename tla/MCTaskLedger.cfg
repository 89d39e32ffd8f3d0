SPECIFICATION Spec
CONSTANTS
    c1 = c1
    c2 = c2
    c3 = c3
    Sessions = {s1, s2}
    Runs = {start_work, ultrawork}
    Calls = {c1, c2, c3}
    Offers <- CallOffers
    MaxFanOut = 2
    MaxItems = 2
    MaxCommits = 2
    Reports <- HostReports
    MaxDeliveries = 3
SYMMETRY Symmetry
INVARIANTS
    LedgersDecode
    FanOutHeld
    ControlsReachOwnWorkers
    ReceiptsAreCurrent
PROPERTIES
    OnlyOwnerAppends
CHECK_DEADLOCK FALSE
