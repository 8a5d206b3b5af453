SPECIFICATION FairDispatchSpec
CONSTANTS
    Runs <- TwoRuns
    Project <- OneProject
    Scheduled <- SecondScheduled
    MaxConcurrent = 2
    MaxCancels = 1
INVARIANTS
    OneActiveRunPerProject
PROPERTIES
    NoOlderWorkIsBypassed
    StartableRunsStart
CHECK_DEADLOCK FALSE
