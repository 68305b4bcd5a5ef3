SPECIFICATION FairSpec
CONSTANTS
    r1 = r1
    r2 = r2
    t1 = t1
    t2 = t2
    Rels = {r1}
    Tasks = {t1}
    None = None
    Api = Api
    InitialDelay = 1
    MaxDelay = 3
    Interval = 2
    MaxEvents = 0
    EventStorm = TRUE
PROPERTY
    SafetyNetRuns
CHECK_DEADLOCK FALSE
