SPECIFICATION MCSpec
CONSTANTS
    Workers = {v, w}
    MaxPipe = 2
    MaxCmd = 2
    Drops = FALSE
    NParts = 2
    Entries = 2
    Toggles = {2}
    MaxStarts = 2
    MaxFaults = 1
    Slots = 4
    MaxSyncs = 9
    Readers = {r}
INVARIANTS
    SocketExclusive
    Fenced
    ProfilesSettle
    OneSync
PROPERTIES
    RequestsReturn
