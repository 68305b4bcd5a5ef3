SPECIFICATION MCSpec
CONSTANTS
    r1 = r1
    r2 = r2
    t1 = t1
    t2 = t2
    Rels = {r1, r2}
    Tasks = {t1, t2}
    None = None
    Api = Api
    InitialDelay = 2
    MaxDelay = 3
    Interval = 1
    MaxEvents = 1
    EventStorm = FALSE
INVARIANTS
    TypeOK
    OneSyncAtATime
    NoOrphanLoop
    SuccessClearsBackoff
PROPERTIES
    DisabledLoopEnds
    SafetyNetRuns
CHECK_DEADLOCK FALSE
