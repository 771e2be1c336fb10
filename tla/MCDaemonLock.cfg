SPECIFICATION FairSpec
CONSTANTS
    h1 = h1
    h2 = h2
    r1 = r1
    r2 = r2
    Handlers = {h1}
    Requests = {r1, r2}
    MaxWorlds = 2
    MaxDrops = 1
INVARIANTS TypeOK OneOwner TasksAreOwned ReleasedIsClosed
PROPERTIES CallReturns LockedWorldEnds ShutdownCompletes
CHECK_DEADLOCK FALSE
