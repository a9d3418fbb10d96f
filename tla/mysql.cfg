CONSTANTS
    Hash = {h1, h2}
    Nil = Nil
    BatchSize = 1
    Quotas <- UnlimitedOrTwo
    Limits = {1}
    MaxBytes = 2
    MaxFaults = 1
    MaxChanges = 1
SPECIFICATION FairSpec
INVARIANTS
    Accounted
PROPERTIES
    LedgerSpec
    
    Converges
