CONSTANTS
    Keys = {k1}
    Vals = {v1, v2}
    TTLs = {2}
    Setters = {s1, s2}
    MaxSets = 2
    MaxTime = 2
    MaxDelay = 1
    TransferFails = TRUE
    k1 = k1
    k2 = k2
    v1 = v1
    v2 = v2
    s1 = s1
    s2 = s2
SPECIFICATION Spec
INVARIANT NoDuplicateValues
