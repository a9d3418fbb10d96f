SPECIFICATION Spec
CONSTANTS
    Conn = {c1}
    Nil = Nil
    None = "none"
    QueueSize = 1
    MaxRequests = 1
    Peers <- MCPeers
    Configs <- MCConfigs
INVARIANTS
    RuleReachesTrojan
CHECK_DEADLOCK FALSE
