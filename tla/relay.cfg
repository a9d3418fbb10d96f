SPECIFICATION FairSpec
CONSTANTS
    Session = {s1, s2}
    QueueSize = 1
    IdleLimit = TRUE
    Kinds <- Pairs
INVARIANTS
    NoEarlyClose
    
PROPERTIES
    EndsTogether
    ShutdownEnds
    
CHECK_DEADLOCK FALSE
