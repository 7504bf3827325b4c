---------------------------- MODULE MCPortUsers -----------------------------
(* Who uses a port: the queue of the stack and the packet sources, which    *)
(* meet only in the driver, captures with their buffers, which get their    *)
(* packets from workers, and network generators with their servers, which   *)
(* use it through sockets.  A behaviour is about one of them.               *)
EXTENDS TxQueue, TLC

CONSTANTS
    Sources, TargetPort, Load, Signature, MaxLen, PortQueues, WorkerOf, Pools,
    Overhead, AllocFails, MaxOut,               \* of the packet sources
    CaptureIds, CaptureConfs, CaptureWorkers, CaptureFds, MaxSinks, MaxResults,
    MaxTransfers, CaptureBurst,                 \* of the captures
    TaskFds, HeaderSize, BlockSize, SendBuffer, LowWater, TaskConfigs, MaxOps,
    SizeMax, Unreliable, Lossy,                 \* of the network task
    Size, Lens, MaxPackets,                     \* of the buffers of captures
    ServerFds, Plans, RequestSize, Length, RecvBuffer, SendRoom,    \* of the server
    s1, s2, s3, w1, w2                          \* sources, workers

VARIABLES
    part,       \* the component that takes steps
    m_tib, m_tx_loads, m_pools, m_source_pools, elt_size, callbacks,
    active, using, out,
    conf, sinks, results, transfers, m_triggers, fd, held, open, polled, ready,
    stopping, push,
    wraps, mem, m_write_addr, m_wrap_addr, m_wrap_end_addr, m_full, m_stats,
    overrun, written, reader, quiet,
    m_config, m_active, m_connections, m_spin_ops_left, loop, batch, at, sock,
    server, acceptor, accepting, ctrl, m_running, conns, wloop, wbatch, wat,
    accepted, up, down, client

S == INSTANCE TxSources

\* One port with two queues on two workers; two sources with signatures, of
\* different packet lengths, and one without.
MCPort   == [s \in Sources |-> 0]
MCLoad   == [s \in Sources |-> IF s = s1 THEN 1 ELSE 2]
MCMaxLen == [s \in Sources |-> IF s = s2 THEN 2 ELSE 1]
MCQueues == {<<0, 0>>, <<0, 1>>}
MCWorkerOf == (<<0, 0>> :> w1) @@ (<<0, 1>> :> w2)

config(duration, start_trigger, packet_count) ==
    [duration |-> duration, start_trigger |-> start_trigger, packet_count |-> packet_count]

\* Two captures, of which one can be lost when the other is deleted, and one can be
\* created again while its predecessor is in the trash.
MCConfs == {config(FALSE, FALSE, 0), config(TRUE, FALSE, 0),
            config(FALSE, TRUE, 0), config(FALSE, FALSE, 2)}

C == INSTANCE Capture WITH
    Captures <- CaptureIds, Confs <- CaptureConfs, Workers <- CaptureWorkers,
    Fds <- CaptureFds, MaxBurst <- CaptureBurst

B == INSTANCE CaptureBuffer

task(operation, connections, ops) ==
    [operation |-> operation, connections |-> connections, ops_per_connection |-> ops]

\* Two connections, of which one may fail, and blocks that are sent in three parts.
MCTasks == {task("READ", 2, 1), task("READ", 1, 1), task("WRITE", 2, 2)}

T == INSTANCE NetworkTask WITH Fds <- TaskFds, Configs <- TaskConfigs

\* One connection at a time; a PUT fills the buffer, and a block takes two sends.
MCPlans  == {<<"GET", "GET">>, <<"PUT", "PUT">>}
MCLength == [GET |-> 2, PUT |-> 1]

F == INSTANCE Firehose WITH
    Fds <- ServerFds, HeaderSize <- RequestSize,
    m_connections <- conns, loop <- wloop, batch <- wbatch, at <- wat, open <- accepted

ASSUME PortUsersAssumption ==
    /\ S!TxSourcesAssumption /\ C!CaptureAssumption /\ B!CaptureBufferAssumption
    /\ T!NetworkTaskAssumption /\ F!FirehoseAssumption

svars == <<m_tib, m_tx_loads, m_pools, m_source_pools, elt_size, callbacks,
           active, using, out>>
captureVars == <<conf, sinks, results, transfers, m_triggers, fd, held, open, polled,
           ready, stopping, push>>
bufferVars == <<wraps, mem, m_write_addr, m_wrap_addr, m_wrap_end_addr, m_full,
           m_stats, overrun, written, reader, quiet>>
taskVars == <<m_config, m_active, m_connections, m_spin_ops_left, loop, batch, at, sock>>
firehoseVars == <<server, acceptor, accepting, ctrl, m_running, conns, wloop, wbatch, wat,
           accepted, up, down, client>>
all == <<part, vars, svars, captureVars, bufferVars, taskVars, firehoseVars>>

\* Captures, their buffers and tasks have several initial states.
MCInit ==
    /\ part \in {"queue", "sources", "captures", "buffer", "task", "firehose"}
    /\ Init /\ S!Init /\ C!Init /\ B!Init /\ T!Init /\ F!Init
    /\ part # "captures" => conf = config(FALSE, FALSE, 0)
    /\ part # "buffer" => wraps
    /\ part # "task" => m_config = task("READ", 2, 1)

\* Bounds: a second sink only of plain captures and of those with a duration, and
\* then no result in two transfers; transfers only of plain captures; pushes only
\* without second sinks and transfers; two workers and one result only where packets
\* are counted.
Captures ==
    LET alone == sinks'[2] = C!NoSink
        untransferred == transfers' = [t \in C!Transfers |-> C!NoTransfer]
    IN
    /\ C!Next
    /\ conf.start_trigger \/ conf.packet_count > 0 => alone
    /\ alone \/ transfers'[1].results \cap transfers'[2].results = {}
    /\ conf # config(FALSE, FALSE, 0) => untransferred
    /\ push'[w1] # C!Idle => alone /\ untransferred
    /\ IF conf.packet_count = 0 THEN push'[w2] = push[w2] ELSE results'[2] = results[2]

MCNext ==
    /\ IF part = "queue" THEN Next ELSE UNCHANGED vars
    /\ IF part = "sources" THEN S!Next ELSE UNCHANGED svars
    /\ IF part = "captures" THEN Captures ELSE UNCHANGED captureVars
    /\ IF part = "buffer" THEN B!Next ELSE UNCHANGED bufferVars
    /\ IF part = "task" THEN T!Next ELSE UNCHANGED taskVars
    /\ IF part = "firehose" THEN F!Next ELSE UNCHANGED firehoseVars
    /\ UNCHANGED part

\* The fairness that the modules state, for the component that takes steps.
MCSpec ==
    /\ MCInit /\ [][MCNext]_all
    /\ WF_vars(part = "queue" /\ producer_step)
    /\ WF_vars(part = "queue" /\ consumer_step)
    /\ \A p \in Pools :
         /\ WF_svars(part = "sources" /\ \E k \in callbacks : k.pool = p /\ S!do_mempool_release(k))
         /\ WF_svars(part = "sources" /\ S!sent(p))
    /\ \A w \in S!Workers :
         /\ WF_svars(part = "sources" /\ S!done(w))
         /\ SF_svars(part = "sources" /\ S!checkpoint(w))
    /\ WF_taskVars(part = "task" /\ T!Run)
    /\ WF_firehoseVars(part = "firehose" /\ F!Worker)
    /\ \A x \in ServerFds :
         /\ WF_firehoseVars(part = "firehose" /\ F!accept(x))
         /\ WF_firehoseVars(part = "firehose" /\ F!Client(x))
    /\ WF_firehoseVars(part = "firehose" /\ F!stop_workers)

\* The load that controllers count on a worker is that of the sources it has;
\* pools are counted right, outlive their packets and are not lost
\* (worker_controller.cpp, tx_mempool_allocator.cpp).
SourcesKept == S!LoadConserved /\ S!RefCounted /\ S!PoolsOutliveUse /\ S!NoPoolLost

\* A pool that no source uses is released in the end.
PoolsReclaimed == S!PoolsReclaimed

\* A transfer can rely on its results until it is over, what was deleted during a
\* transfer is not forgotten when the transfer ends (capture/server.cpp), and the
\* workers of a capture together keep to its packet_count (capture/sink.cpp).
CapturesKept == C!TransfersKept /\ C!TrashWatched /\ C!PacketLimit

\* The timer of one start of a capture never ends a later one.
TimerEndsOwn == C!TimerEndsOwn

\* A reader gets the newest packets, in order, while the worker is at rest, and
\* packets in order if the buffer does not wrap (capture/capture_buffer.cpp).
BuffersRead == B!ReadsNewest /\ B!LiveReadsOrdered

\* A network task does not do more operations than a spin was asked for, never
\* mistakes what is left of one operation for a part of the next, and loses no
\* connection, event or descriptor (network/task.cpp, op_event_loop_epoll.c).
TasksAligned == T!QuotaKept /\ T!Aligned /\ T!ConnectionsKept

\* The network server takes requests for what they are however they are cut up, owes
\* its clients just what they wait for, and leaves no descriptor open
\* (network/firehose/server_tcp.cpp).
ServedExactly == F!ServedExactly /\ F!WorkerKept

\* Every spin of a network task returns.  Clients of the network server are served
\* although epoll reports a change once, and the server ends when it is told to.
ConnectionsServed == T!SpinsReturn /\ F!ClientsServed /\ F!ServerEnds

\* A failed allocation is never recorded as the pool of a source, a pool is large
\* enough for its packets (tx_mempool_allocator.cpp:64, 73).
NoNullRelease == S!NoNullRelease
PoolFits == S!PoolFits
=============================================================================
