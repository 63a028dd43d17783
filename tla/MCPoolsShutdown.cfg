SPECIFICATION FairSpec
CONSTANTS
    h1 = h1
    h2 = h2
    t1 = t1
    t2 = t2
    w1 = w1
    w2 = w2
    Regions <- MCRegions
    Paths <- MCPaths
    Ends <- MCEnds
    Cost <- MCCost
    CanonicalRoutes <- MCRoutes
    Detectors <- MCDetectors
    Worlds <- MCWorlds
    Handlers = {h1}
    Triggers = {t1}
    Workers = {w1, w2}
    DispatchCap = 1
    WorkerCap = 1
PROPERTY ShutdownEnds
CHECK_DEADLOCK FALSE
