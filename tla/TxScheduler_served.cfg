SPECIFICATION FairSpec
CONSTANTS
    s1 = s1
    s2 = s2
    Sources <- MCSources
    Period <- MCPeriod
    BurstSize = 3
    ChunkSize = 2
    IdlePoll = 1
    LinkPoll = 1
    SchedulePoll = 3
    MaxLate = 1
INVARIANTS
    HeldOnlyWhenBlocked
    NoDuplicateEntries
    NoOversleep
    TimerArmed
PROPERTY
    ActiveSourcesServed
