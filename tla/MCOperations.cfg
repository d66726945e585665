SPECIFICATION FairSpec
CONSTANTS
    o1 = o1
    o2 = o2
    o3 = o3
    p1 = p1
    p2 = p2
    w1 = w1
    Ops = {o1, o2, o3}
    Packages = {p1, p2}
    Watchers = {w1}
    RETAIN_COMPLETED = 1
    MAX_LOG_LINES = 1
    MaxAppended = 2
    MaxClock = 1
INVARIANTS
    InFlightIsRunning
    LatestAreRetained
    WatcherIsUpToDate
    ListenersLeaveWithTheirSocket
PROPERTY
    WatchersAreReleased
CHECK_DEADLOCK FALSE
