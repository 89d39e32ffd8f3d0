SPECIFICATION RunnerSpec
CONSTANTS
    Children = {"child", "grandchild"}
    Jobs <- MCJobs
INVARIANTS
    ReceiptIsTrue
PROPERTIES
    RunEnds
CHECK_DEADLOCK FALSE
