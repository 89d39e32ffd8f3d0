SPECIFICATION LiveSpec
CONSTANTS
    Procs = {p1}
    Readers = {r1}
    Agents = {"w"}
    Artifacts = {"x", "y"}
    Heads = {"h1", "h2"}
    Offers <- WorkerOffers
    MaxWalEntries = 2
    MaxAttempt = 2
    MaxGeneration = 1
INVARIANTS
    LedgerIsSound
PROPERTIES
    CapIsHeld
    CallsEnd
    ImplementsAcceptanceLog
CHECK_DEADLOCK FALSE
