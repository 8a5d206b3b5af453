SPECIFICATION FairFlowSpec
CONSTANTS
    plan = plan
    c0 = c0
    c1 = c1
    r1 = r1
    r2 = r2
    AttemptId = {plan, c0, c1}
    ApprovalId = {r1, r2}
    Repeats = {r2}
    NoAttempt = NoAttempt
    NoApproval = NoApproval
    MaxRevisions = 0
    MaxRemediations = 0
    Collectors = {0, 1}
    MaxRevision = 12
    Plan = plan
    Crew = {c0, c1}
    OrdinalOf <- Ordinals2
    AskingTurns = {plan, c0, c1}
    AskedKinds = {"auto", "planned", "read_only", "external", "solver"}
    MaxCrashes = 1
    MaxFaults = 1
    MaxPrepErrors = 1
CHECK_DEADLOCK FALSE
INVARIANTS
    NoOpenApprovalOnClosedRun
    ReleasedOnlyAfterBoundary
    AnswerFollowsDecision
    OrdinaryEndHidesNoOutcome
    InterruptedHasNoOpenBoundary
PROPERTIES
    StoreSpec
    ClosedIsFinal
    RunSettles
