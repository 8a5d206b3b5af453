SPECIFICATION FairScheduleSpec
CONSTANTS
    ScheduleId = {s1}
    Horizon = 5
    Timetables <- Tables
    Window = 1
    PageSize = 2
    MaxFaults = 2
INVARIANTS
    NoOccurrenceVanishes
PROPERTY CatchesUp
