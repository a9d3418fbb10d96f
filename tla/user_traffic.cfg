CONSTANTS
    Adder = {a1, a2}
    Resetter = {r1}
    Chunks = {3}
    Quotas = {4}
    Bursts = {2}
    Presets = {3}
    MaxBytes = 3
SPECIFICATION Spec
SYMMETRY Symmetry
INVARIANTS
    CrossingDetected
    
    NoByteLost
    NeverBypassed
