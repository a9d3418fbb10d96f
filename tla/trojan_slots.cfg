CONSTANTS
    Conn = {c1, c2, c3}
    UserObj = {u1}
    IP = {i1, i2}
    Nil = Nil
    Commands = {"connect"}
    MaxConnNum = 2
    QueueSize = 1
    IPLimits = {0, 1}
    Quotas = {}
    MaxTraffic = 0
    MaxRetags = 1
    MayStop = FALSE
SPECIFICATION Spec
SYMMETRY Symmetry
INVARIANTS
    SlotsExact
    ConnCapRespected
PROPERTIES
    IPCapOnAdmission
