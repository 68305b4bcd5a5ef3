SPECIFICATION MCSpec
CONSTANTS
    f1 = f1
    f2 = f2
    a = a
    b = b
    big = big
    None = None
    Files = {f1, f2}
    Contents = {a, b, big}
    SizeOf <- MCSizeOf
    Territories <- MCTerritories
    Refusable = {f2}
    Oversized = {big}
    DeleteLocalToRemote = TRUE
    MaxClock = 3
    MaxFaults = 1
INVARIANTS
    TypeOK
    LiteSkipSound
    MetaMatchesRemote
PROPERTIES
    RemoteDeletesExplained
    PushConverges
    RefusedGoesQuiet
CHECK_DEADLOCK FALSE
