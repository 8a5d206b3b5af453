SPECIFICATION ConversationSpec
CONSTANTS
    Sessions <- MCSessions
    Requests <- MCRequests
    MaxRuns = 2
    MaxActs = 5
INVARIANTS
    ThreadStartedOnce
    AgreedPlanIsWhatRuns
CHECK_DEADLOCK FALSE
