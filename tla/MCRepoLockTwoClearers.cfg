SPECIFICATION Spec
CONSTANTS
    Procs = {p1, p2, p3}
    Clearers = {c1, c2}
    MaxRounds = 1
    IoFaults = FALSE
PROPERTIES
    OnlyOwnNonceRemoved
CHECK_DEADLOCK FALSE
