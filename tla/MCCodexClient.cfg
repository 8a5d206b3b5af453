SPECIFICATION FairSpec
CONSTANTS
    t1 = t1
    i1 = i1
    i2 = i2
    q1 = q1
    Turns = {t1}
    Stopper = Stopper
    Items = {i1, i2}
    Requests = {q1}
    TurnOf <- OneTurn
    ContentOf <- SameContent
    AskedFor <- Subjects
    Supported = {q1}
    PipeSize = 1
    InputSize = 1
    OutputSize = 1
    Nothing = Nothing
INVARIANTS
    TurnAnswersItsCaller
    OfferNamesItsCall
PROPERTIES
    EveryTurnReturns
CHECK_DEADLOCK FALSE
