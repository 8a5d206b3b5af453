SPECIFICATION FairSpec
CONSTANTS
    Candidates <- Releases
    Components <- Parts
    Content <- Trees
    MaxCrashes = 3
INVARIANTS
    ServedSetIsTheVerifiedOne
PROPERTIES
    KeepsPromise
    StartsUnlessBlocked
CHECK_DEADLOCK FALSE
