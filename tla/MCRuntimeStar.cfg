SPECIFICATION Spec
CONSTANTS
    TierBudgets <- MCTierBudgets
    Normal <- MCNormal
    Prompts <- MCPrompts
    Runs <- MCRuns
    Results <- MCResults
    Injections <- MCInjections
    FileNames = {1, 2, 3}
    NotFlat = {3}
    Files <- MCFiles
    Requests <- MCStarRequests
    MAX_RULE_BYTES = 6
    INJECTION_BUDGET_BYTES = 14
    DIRECTIVE_BUDGET_BYTES = 4
    CATALOG_BUDGET_BYTES = 4
    RULES_BUDGET_BYTES = 6
    MaxEdits = 1
    Works <- MCWorks
    Settings <- MCSettings
    BadAliases = {"@x"}
    Parts <- MCParts
    Catalog <- MCCatalog
    Providers = {"p", "q"}
    DefaultRole = "@smol"
    MaxChanges = 2
    MaxResultBytes = 5
    Scopes = {s}
    MaxToolCalls = 4
    MaxModelCalls = 2
    MaxTurns = 2
    MaxFaults = 1
    Sessions = {"s1", "s2"}
    PlanPaths = {"plan"}
    OtherPaths = {"else"}
    Documents <- MCDocuments
    MaxPlanEdits = 1
    MaxPlanCommits = 3
INVARIANTS
    GlobsAreAsDocumented
CHECK_DEADLOCK FALSE
