SPECIFICATION ReviewSpec
CONSTANTS
    AttemptId <- Rows
    ApprovalId = {}
    NoAttempt = 0
    MaxRevisions = 1
    MaxRemediations = 1
    Collectors <- Workstreams
    MaxRevision = 60
    MaxPlanAttempts = 2
    MaxCrashes = 1
    MaxFaults = 1
    MaxActions = 2
INVARIANTS
    
    
    SuccessWasReviewed
    CrashLeavesACheckpoint
    
PROPERTIES
    EngineReturns
CHECK_DEADLOCK FALSE
