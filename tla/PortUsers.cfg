SPECIFICATION MCSpec
CONSTANTS
    s1 = s1
    s2 = s2
    s3 = s3
    w1 = w1
    w2 = w2
    Sources = {s1, s2, s3}
    TargetPort <- MCPort
    Load <- MCLoad
    Signature = {s1, s2}
    MaxLen <- MCMaxLen
    PortQueues <- MCQueues
    WorkerOf <- MCWorkerOf
    Pools = {p1, p2}
    Overhead = 1
    AllocFails = TRUE
    MaxOut = 1
    CaptureIds = {1, 2}
    CaptureConfs <- MCConfs
    CaptureWorkers = {w1, w2}
    CaptureFds = {1, 2}
    MaxSinks = 2
    MaxResults = 2
    MaxTransfers = 2
    CaptureBurst = 2
    TaskFds = {1, 2}
    HeaderSize = 1
    BlockSize = 2
    SendBuffer = 1
    LowWater = 1
    TaskConfigs <- MCTasks
    MaxOps = 1
    SizeMax = 7
    Unreliable = {1}
    Lossy = FALSE
    Size = 7
    Lens = {1, 2, 7}
    MaxPackets = 6
    ServerFds = {1}
    Plans <- MCPlans
    RequestSize = 2
    Length <- MCLength
    RecvBuffer = 3
    SendRoom = 1
    RingSize = 3
    BurstSize = 2
    EventFdMax = 3
    IndexMod = 5
INVARIANTS
    NotificationBalance
    NoDeadQueue
    SourcesKept
    CapturesKept
    BuffersRead
    TasksAligned
    ServedExactly
PROPERTIES
    RingServed
    PoolsReclaimed
    TimerEndsOwn
    ConnectionsServed
