CONSTANTS
    Hash = {h1}
    Obj = {o1, o2}
    Operator = {p1}
    Passwords = {h1}
    Fields = {"quota"}
    Values = {1}
    MaxTraffic = 1
    MaxFaults = 2
    Nil = Nil
SPECIFICATION Spec
SYMMETRY Symmetry
INVARIANTS
    
    RowMatchesUser
    RemovedUsersCutOff
    
