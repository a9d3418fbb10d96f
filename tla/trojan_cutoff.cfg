CONSTANTS
    Conn = {c1, c2}
    UserObj = {u1}
    IP = {i1}
    Nil = Nil
    Commands = {"connect", "unknown"}
    MaxConnNum = 0
    QueueSize = 1
    IPLimits = {}
    Quotas = {1}
    MaxTraffic = 1
    MaxRetags = 0
    MayStop = TRUE
SPECIFICATION FairSpec
CHECK_DEADLOCK FALSE
INVARIANTS
    UncutTunnelsWatched
PROPERTIES
    WatchedCutoffCloses
