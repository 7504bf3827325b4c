CONSTANTS
    r1 = r1
    r2 = r2
    Readers <- TwoReaders
    Spinning <- OneSpinning
    Draining <- OneDraining
    Buffering <- OneBuffering
    MaxTables = 2
    MaxVersion = 1
    MaxBuffered = 2
SPECIFICATION FairSpec
INVARIANTS
    PublishedRefsSafe
    OrderedReadersSafe
    SingleOwner
PROPERTIES
    EventuallyFreed
