SPECIFICATION Spec
CONSTANTS
    Procs = {p1, p2, p3}
    Clearers = {c1}
    MaxRounds = 3
    IoFaults = TRUE
INVARIANTS
    MutualExclusion
PROPERTIES
    OnlyOwnNonceRemoved
    ImplementsExclusiveLock
CHECK_DEADLOCK FALSE
