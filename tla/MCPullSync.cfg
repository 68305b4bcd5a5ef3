SPECIFICATION FairSpec
CONSTANTS
    f1 = f1
    f2 = f2
    x = x
    y = y
    None = None
    Files = {f1, f2}
    NumChunks = 1
    Chunks = {x, y}
    Contents <- MCContents
    SizeOf <- MCSizeOf
    Territories <- MCTerritories
    DeleteRemoteToLocal = TRUE
    MaxClock = 3
    MaxFaults = 1
INVARIANTS
    TypeOK
    CheckpointHonest
    LiteSkipSound
PROPERTIES
    PullConverges
CHECK_DEADLOCK FALSE
