SPECIFICATION SweepSpec
CONSTANTS
    AttemptId = {1, 2, 3, 4, 5}
    ApprovalId = {1, 2, 3}
    JobId = {1, 2, 3}
    NoAttempt = 0
    MaxRevisions = 0
    MaxRemediations = 2
    Collectors = {0, 1, 2}
    MaxRevision = 20
    Cells = 2
    MaxSlots = 2
    CallScopes = {0, 1}
    CrewCallScopes = {0}
    Drags = {0, 1}
    CrewCycles = 1
    MaxMishaps = 1
CHECK_DEADLOCK FALSE
INVARIANTS
    
    SweepIsWhole
    ReceiptsAreCurrent
PROPERTIES
    MatrixNeedsConsent
