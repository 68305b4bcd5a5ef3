SPECIFICATION Spec
CONSTANTS
    f1 = f1
    f2 = f2
    x = x
    y = y
    z = z
    None = None
    Files = {f1}
    NumChunks = 1
    Chunks = {x, y, z}
    Contents <- MCContents
    SizeOf <- MCSizeOf
    Territories <- MCTerritories
    Refusable = {}
    Oversized = {}
    DeleteRemoteToLocal = TRUE
    DeleteLocalToRemote = TRUE
    MaxClock = 4
    MaxFaults = 0
PROPERTY
    UnsyncedEditsKept
CHECK_DEADLOCK FALSE
