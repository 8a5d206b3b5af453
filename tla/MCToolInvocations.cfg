SPECIFICATION ToolSpec
CONSTANTS
    Package = {p1, p2}
    NameOf <- OneName
    Stage = {a1, a2}
    WorkOf <- OneWork
    Request = {q1}
    Call = {c1, c2}
    NoStage = NoStage
    MaxInstalls = 2
    MaxFaults = 1
INVARIANTS
    NativeRunsOnce
SYMMETRY ToolSymmetry
CHECK_DEADLOCK FALSE
