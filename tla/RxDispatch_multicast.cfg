CONSTANTS
    i1 = i1
    i2 = i2
    Ifs <- MCIfs
    Kinds <- MCKinds
    BurstSize = 2
    MaxChanges = 0
    MaxCount = 2
SPECIFICATION Spec
INVARIANTS
    MulticastComplete
