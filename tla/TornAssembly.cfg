SPECIFICATION Spec
CONSTANTS
    f1 = f1
    f2 = f2
    x = x
    y = y
    None = None
    Files = {f1}
    NumChunks = 2
    Chunks = {x, y}
    Contents <- MCContents
    SizeOf <- MCSizeOf
    Territories <- MCTerritories
    DeleteRemoteToLocal = TRUE
    MaxClock = 2
    MaxFaults = 0
PROPERTY
    AssembledMatchesRemote
CHECK_DEADLOCK FALSE
