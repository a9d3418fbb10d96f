SPECIFICATION Spec
CONSTANTS
    Conn = {c1, c2}
    Nil = Nil
    None = "none"
    QueueSize = 1
    MaxRequests = 2
    Peers <- MCPeers
    Configs <- MCConfigs
INVARIANTS
    
    
    RightDestination
PROPERTIES
    SilentPeersMoveOn
CHECK_DEADLOCK FALSE
