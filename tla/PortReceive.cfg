SPECIFICATION MCSpec
CONSTANTS
    Macs = {m1, m2, m3, m4}
    MaxMacs = 2
    DeviceFails = TRUE
    FlowMacs = {m1, m2, m3}
    MaxRules = 3
    MaxOverflows = 3
    i1 = i1
    i2 = i2
    Ifs = {i1, i2}
    Kinds <- MCKinds
    BurstSize = 2
    MaxChanges = 1
    MaxCount = 2
INVARIANTS
    StateMeans
    FlowsCover
    ReleasedOnce
    PacketsServed
    CountCovers
PROPERTIES
    Admits
