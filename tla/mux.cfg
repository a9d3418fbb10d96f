SPECIFICATION FairSpec
CONSTANTS
    Session = {m1, m2}
    Stream = {x1, x2}
    Concurrency = 1
    StickySize = 1
    Nil = Nil
INVARIANTS
    PoolSound
    FramesInOrder
PROPERTIES
    HeadersFlushed
    ShutdownClosesSessions
CHECK_DEADLOCK FALSE
