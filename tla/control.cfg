SPECIFICATION Spec
CONSTANTS
    Missing = Missing
    MaxVersion = 2
    Stream = {u1, u2}
    Records <- MCRecords
    RecordQueue = 2
    Caller = {1, 2}
    Hash = {h1}
    MaxPacketSize = 4
    ParseIP <- MCParseIP
    PacketAddrs <- MCPacketAddrs
    Payloads <- MCPayloads
    MaxPackets = 2
    MaxWrites = 2
    RouteAddrs <- MCRouteAddrs
    Answers <- MCAnswers
    NoIP = NoIP
    InNet <- MCInNet
    GeoIP <- MCGeoIP
    GeoSite <- MCGeoSite
    NoAttr = NoAttr
    EmptyCode = EmptyCode
    Invalid = Invalid
    RouterConfigs <- MCConfigs
INVARIANTS
    RecordsAsAsked
    
    PacketsStayAligned
    
PROPERTIES
    RenewedPairServed
    HeaderFirst
CHECK_DEADLOCK FALSE
