SPECIFICATION FairSpec
CONSTANTS
    r1 = r1
    r2 = r2
    e1 = e1
    d1 = d1
    Runs = {r1, r2}
    Edits = {e1}
    Docs = {d1}
    MaxGenerations = 2
    MaxOntology = 1
    MaxMishaps = 1
INVARIANTS
    PatchAppliedOnce
PROPERTIES
    SwapKeepsTheLedger
    StartupCompletes
CHECK_DEADLOCK FALSE
