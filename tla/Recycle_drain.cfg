CONSTANTS
    r1 = r1
    r2 = r2
    Readers <- TwoReaders
    Spinning <- OneSpinning
    Draining <- OneDraining
    Buffering <- NoReaders
    MaxTables = 2
    MaxVersion = 1
    MaxBuffered = 1
SPECIFICATION Spec
INVARIANTS
    NoUseAfterFree
