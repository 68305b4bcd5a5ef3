SPECIFICATION MCSpec
CONSTANTS
    f1 = f1
    f2 = f2
    a = a
    b = b
    big = big
    None = None
    Files = {f1, f2}
    Contents = {a, b, big}
    SizeOf <- MCSizeOf
    Territories <- MCTerritories
    Refusable = {f2}
    Oversized = {big}
    DeleteLocalToRemote = TRUE
    MaxClock = 1
    MaxFaults = 1
PROPERTY
    DeletesOnlyWhatIsGone
CHECK_DEADLOCK FALSE
