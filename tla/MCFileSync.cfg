SPECIFICATION FairSpec
CONSTANTS
    f1 = f1
    f2 = f2
    x = x
    y = y
    z = z
    None = None
    Files = {f1}
    NumChunks = 1
    Chunks = {x, y}
    Contents <- MCContents
    SizeOf <- MCSizeOf
    Territories <- MCTerritories
    Refusable = {}
    Oversized = {}
    DeleteRemoteToLocal = TRUE
    DeleteLocalToRemote = TRUE
    MaxClock = 3
    MaxFaults = 2
INVARIANTS
    TypeOK
    LiteSkipSound
PROPERTIES
    BothSidesAgree
CHECK_DEADLOCK FALSE
