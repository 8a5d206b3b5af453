SPECIFICATION MemorySpec
CONSTANTS
    Docs = {d1, d2, d3}
    Blobs = {b1, b2}
    Indexes = {i1, i2}
    Runs = {r1}
    None = None
    MaxCrashes = 2
SYMMETRY Interchangeable
INVARIANTS
    ActiveIndexIsComplete
    ReferencedIsStored
CHECK_DEADLOCK TRUE
