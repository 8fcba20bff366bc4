SPECIFICATION FairSpec
CONSTANTS
    c1 = c1
    c2 = c2
    c3 = c3
    None = None
    Cursors <- Views
    MaxActivities = 2
    Casts = {"refused", "accepted"}
    Outcomes = {"null", "threw", "result"}
INVARIANTS
    TypeOK
    OneStaleCursor
    BurstsApart
    ModesApart
PROPERTIES
    RunOnce
    LocateReturns
    FailuresAreFatal
CHECK_DEADLOCK FALSE
