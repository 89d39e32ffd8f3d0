SPECIFICATION TeamSpec
CONSTANTS
    Sessions = {s1, s2}
    Runs = {r1, r2}
    Definitions = {d1}
    Heads = {h1, h2}
    MaxCommits = 1
    MaxDispatch = 2
    MaxTears = 1
SYMMETRY Symmetric
INVARIANTS
    CompletedIsAccepted
    ReservationIsSpent
PROPERTIES
    RosterIsKept
CHECK_DEADLOCK FALSE
