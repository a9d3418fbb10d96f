SPECIFICATION DgSpec
CONSTANTS
    Source = {s1, s2}
    UDPSession = {k1, k2}
    NoSession = NoSession
    Capacity = 1
    MaxDatagrams = 2
    MaxSets = 4
    RouterQueue = 1
INVARIANTS
    
    DeadlineSound
PROPERTIES
    
    RouterReleases
CHECK_DEADLOCK FALSE
