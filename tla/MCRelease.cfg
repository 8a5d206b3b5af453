SPECIFICATION ReleaseSpec
CONSTANTS
    Policies <- MCPolicies
    Defects <- MCDefects
    MaxBuilds = 2
    MaxTrees = 2
    MaxPrepares = 2
    MaxLedgers = 3
    MaxReceipts = 2
    CaseCount = 1
    MaxSets = 1
    MaxSessions = 2
    MaxRuns = 2
    MaxRunChanges = 3
    MaxReindexes = 2
INVARIANTS
    CaseRunsOnce
    EvaluatedInOneSession
    
CHECK_DEADLOCK FALSE
