# OpenPerf in TLA+

OpenPerf is a traffic generator and analyser. Its heart is the packet I/O
module (`src/modules/packetio`): DPDK worker threads move packets between
ports, network stacks, packet sinks and packet sources, while one server
thread changes, without locks, the tables they work from. Around it are a
socket library that gives other processes its TCP/IP stack over shared memory
(`src/modules/socket`), generators of load with their threads
(`src/framework/generator`), profiles that drive generators over time
(`src/modules/tvlp`), network load with its server (`src/modules/network`),
captures of packets (`src/modules/packet/capture`) and a clock of its own
(`src/modules/timesync`). This directory holds TLA+ models of that machinery, the TLC configurations that
check them on small instances, and TLAPS proofs of the results that matter
most.

Paths below are relative to `src/src/` unless they say otherwise;
`dpdk/` stands for `modules/packetio/workers/dpdk/`.

## 1. The system

### 1.1 Threads and shared state

| Thread | Runs | Writes |
|---|---|---|
| server | the resource servers on one event loop; every call of `worker_controller` | forwarding table, transmit table, recycler callbacks, worker messages, port filters |
| worker, one per core | `worker::main`, `run_pollable` or `run_spinning` | its recycler version, packets, its epoll set, tx schedulers and queues it owns |
| stack | lwIP; on the worker that has the stack's tasks | tx queues (as producer) |
| client process | an application with the preloaded socket library | its half of each channel: ring indexes, event counters, eventfds |
| generator owner, control and workers | `generator::controller`, one control thread, one thread per task | ZeroMQ PUB and SUB sockets, the feedback counter |
| tvlp scheduler, one per part of a running profile | `tvlp_worker_t::schedule` | its state, its results; requests to the generators' servers |
| capture server, workers, one thread per transfer | requests, events and timers; `sink::push`; sending a pcap file | captures, results and trash; states of results and buffers; eventfds |
| network task; acceptor and worker of its server | `network_task::worker_spin`; `tcp_acceptor::run`, `tcp_worker::run` | connections and event loop of their own; messages with descriptors |
| clock | `keeper::sync` on the timesync server; `realtime::now` on any thread | the ring of timehands |
| driver and kernel | DPDK, epoll, eventfd, timerfd, ZeroMQ | external |

The tables are immutable maps behind one atomic pointer. The server exchanges
the pointer and registers a callback that deletes the old map; the recycler
runs the callback once every reader has passed a quiescent point.

### 1.2 Components

| Component | State | Operations | What is hard about it | Correct means |
|---|---|---|---|---|
| recycle depot, `framework/utils/recycle.tcc` | writer version, callbacks by version, one version per reader | add reader, add callback, process callbacks; checkpoint, idle, guard | readers and scan interleave; stores are delayed; callbacks may ask for a retry | nothing is deleted while a reader can reach it, nothing twice, everything in the end |
| stack tx queue, `dpdk/tx_queue.cpp` | ring, `write_idx`, `read_idx`, eventfd | enqueue, notify, ack, enable | non atomic test and announce on both sides, edge triggered epoll | counters and eventfd agree, the queue never goes silent |
| tx scheduler, `dpdk/tx_scheduler.cpp` | four states, schedule, held packets, one timerfd | time outs of each state, transitions | everything depends on the next timer; sources change under it; partial sends | always armed, never late, one entry per source, held packets only when blocked |
| transmit sources, `dpdk/worker_controller.cpp`, `dpdk/tx_mempool_allocator.cpp`, `modules/packetio/transmit_table.tcc` | transmit table, loads, pools with counts | add, delete, swap source; acquire, release pool | steps that fail half way, pools outlive sources | loads and counts exact, no pool freed in use, none lost |
| worker control, `dpdk/worker.cpp`, `worker_client.cpp`, `event_loop_adapter.cpp` | messages, worker state machine, epoll sets, event loop lists | launch, start, stop, add and delete task, shutdown | edge triggered ZeroMQ descriptor, messages while running, shutdown at any time | no message overlooked, configuration as sent, clean stop and exit |
| port filters, `modules/packetio/drivers/dpdk/port/{mac,flow}_filter.cpp` | state, addresses in the device and left over | add, delete, enable, disable | device limits and refusals in every state | every interface keeps receiving; marks only trusted when complete |
| receive dispatch, `dpdk/worker.cpp` 92-467, `forwarding_table.tcc` | tables, one burst in hand | rx_burst; insert and remove interface, sink | several lookups per burst while the table changes; partitioning in place | every mbuf freed or delivered once, in order, to the right sinks and stack |
| socket rings, `modules/socket/circular_buffer_*.tcc` | cells, `read_idx`, `write_idx` in shared memory | write, write of vectors, read, peek, drop | two processes without a lock, wrap, full and empty | a stream of bytes: in order, once, unchanged |
| stream channel, `modules/socket/{client,server}/stream_channel.cpp`, `event_queue_*.tcc`, `server/tcp_socket.cpp` | two rings, two eventfds with two counters each, receive queue | send, recv, connect; io, receive, sent, connected, poll and error callbacks | the client's eventfd is both its notification and its block; every call is several steps against another process | counters and eventfd agree, data moves, writers and readers are woken |
| generator framework, `framework/generator` | list of workers, feedback counter, messages on the way | add, remove, pause, resume, reset, clear | three kinds of thread, lossy handshake, confirmations told apart by kind only | a call that returned is obeyed by all; calls return; one thread at a time on a socket |
| tvlp, `modules/tvlp` | states and results of the parts, generators made | start, stop, erase, get; schedule | requests that fail at any point, stop at any point | results belong to their entries, nothing is left behind, requests are answered |
| time keeper, `modules/timesync/chrono.*` | timehands, `m_now`, `m_idx` | sync, now | lock free readers of a slot that is reused | a time comes from one synchronisation |
| capture server and sinks, `modules/packet/capture/{server,sink}.cpp` | captures, results, trash, transfers, event descriptors | create, start, stop, delete, transfer; events, timers; push | workers and server race on the state of a result; things are deleted while they are read; descriptors are used again | transfers keep what they read, nothing is forgotten, limits and durations hold |
| capture buffers, `modules/packet/capture/capture_buffer.cpp` | memory, addresses of the oldest and the next packet, statistics | write, read, rewind | packets of any length in a buffer that wraps, also longer than the buffer; oldest and newest meet | a reader gets the newest packets, in order, as many as counted |
| network task, `modules/network/task.cpp` | connections with what is left of their operation, quota of the spin | spin; callbacks to begin, read, write, close; change of configuration | operations in parts, over several spins; peers that fail; several ends in one turn of the loop | operations are kept apart, the quota holds, nothing leaks, spins return |
| network server, `modules/network/firehose/server_tcp.cpp` | connections of the worker, messages of the acceptor | accept, control, read, write, close; stop | an edge is reported once; requests in any pieces; stop at any time | every request answered exactly, clean end |
| event loop, `framework/core/op_event_loop_epoll.c` | events, lists of updates and removals, epoll set | add, update, handle, remove, purge | events change and go in their own callbacks | no freed event on a list, epoll counted right |
| transmit dispatch, `dpdk/worker.cpp` 469-647 | as receive dispatch | tx_burst, transmit functions | copies for sinks | not modelled yet |
| analyzer, lists and hash tables of the core | see `PROJECT.json` | | | not modelled yet |

`PROJECT.json` lists all components with their sources, also those that stay
out of the models and why: generated code (swagger, protocol headers), pure
vectorised functions (`lib/spirent_pga`, `lib/regurgitate`), parsing of
configuration, HTTP routing, set up of DPDK, and floating point estimation
(dynamic results, clock synchronisation).

### 1.3 How the models fit together

    WorkerControl      launch, messages, run loops
        |  runs
        +-- RxDispatch      one receive burst    <--- MacFilter / FlowFilter
        +-- TxQueue         stack packets             decide what arrives and
        +-- TxScheduler     one port queue            which marks are trusted
        |        ^ sources of
        +-- TxSources       table, loads, pools
        |
        Recycle            what lets all of them read tables without locks

    StreamChannel      a TCP socket of a client process
        +-- CircularBuffer  each of its rings, which implements ByteStream

    Capture            captures of a port's packets, their results and transfers
        +-- CaptureBuffer   where each worker writes and a transfer reads

    NetworkTask        a network generator's load     --->  Firehose, its server
        +-- EventLoop       descriptors and callbacks of both

    Tvlp               profiles: create, start, stop generators
        +-- GeneratorController   the threads under a generator
    TimeKeeper         the clock that all of them read

Each module is one component together with the part of its surroundings that
decides about its correctness. TxSources and WorkerControl do not repeat the
depot: they use it through what Recycle shows, *a callback runs when every
reader that was active at its registration has since passed a quiescent point*.
RxDispatch keeps the table versions a burst may see instead of pointers; that
those pointers stay valid is Recycle's subject. FlowFilter's `TagsCover` is
what RxDispatch takes for granted when it trusts hardware marks. StreamChannel
keeps how many bytes a ring holds, because CircularBuffer implements
ByteStream: what a ring has accepted comes out of it in order. Tvlp sees a
generator as requests that are answered or fail. NetworkTask sees its server as
a peer that takes requests and answers them in pieces, Firehose its clients as
those who send requests in pieces and wait for answers; the two agree on headers
and lengths. EventLoop has no state of its own: it gives what the functions of a
loop do as operators on a record that the modules of the owners keep.

Components that a change of one cannot disturb are checked in one run, without
their product: `MCPortUsers`, `MCPortReceive`, `MCSocket` and `MCGenerators`
instantiate each component with its own variables, and a variable `part`,
chosen in the initial state, says which of them takes steps. A run of such a
module explores the union of the behaviours of its components, not their
interleaving; what one component relies on in another is the contract above.
Where theorems are about such a component, the sizes of its instance are
constants of the composing module, which the `.cfg` gives their values.

## 2. The modules

Names of variables and actions are those of the code wherever TLA+ allows it.
Definitions that begin with "Mutation:" in their comment are deliberately wrong
variants of the definition that follows; nothing uses them but the mutation
runs recorded in `PROJECT.json`, which show that each property notices such a
mistake.

**Recycle.** `writer_process_gc_callbacks` is `gc_begin`, one `gc_scan` per
reader, `gc_run` with the set of callbacks that answer *retry*. A checkpoint is
a load of the writer's version and a later store. A store of a reader in
`Buffering` sits in its store buffer until `store_drains`: on x86
`memory_order_release` is a plain store, and a later load may overtake it.
Three kinds of reader, after the run functions of `worker.cpp`: spinning
(checkpoint each turn), polling (guard around each turn), and polling with
receive queues, which also serves them before its loop, unguarded
(`begin_drain`, `end_drain`). `exposed` is a history variable: the references a
reader picked up while the writer could see it idle.

**TxQueue.** One action per atomic operation or system call of `enqueue`,
`notify`, `ack` and `enable`. Counters are kept modulo `IndexMod`. epoll is
edge triggered: `edge` is set by each write of the eventfd, `restart` is what
adding the descriptor again does.

**TxScheduler.** Times are ticks relative to now; `tick` lets time pass between
any two steps. `on_timeout(state_running)` is a loop whose turns are separate
actions, because sources, link and time move on between them; the nested call
from the blocked state is kept as such (`nested`). `do_transmit` yields the
outcomes the driver permits: what is sent, held back and left of the burst.

**TxSources.** `add_source`, `del_source` and `swap_source` with all their
failure paths; `acquire` and `release` with shared and private pools; workers
that hold a source of an older table; drivers that hold mbufs.

**WorkerControl.** The controller's life from constructor to destructor, the
requests of clients in between, a shutdown of the ZeroMQ context at any time
after the start, and the workers: `main`, message dispatch, `run`, the loop of
`run_pollable`/`run_spinning`, and `event_loop_adapter`. The ZeroMQ signaller
is external and modelled by its contract: a reader that has found its inbox
empty is signalled by the next message, once.

**MacFilter, FlowFilter.** One action per event and state, as the `on_event`
overloads; the device may refuse at any time if `DeviceFails`. MacFilter treats
its vectors as sets, FlowFilter keeps the order of its overflow list because the
code moves addresses back to the device from its front. What a removal or a
partition leaves of a list is `Only` of Subsequences, in RxDispatch too.

**RxDispatch.** `rx_burst` from the driver to the stack with one action per look
at shared state: port sinks, interfaces, sink count, the lookup of each packet,
the push of each run of packets, each delivery to a stack. Packets are records
of what the code tests (destination, signature, mark). The count of interface
sinks and the map change in two steps (`insert_interface_sink`/
`remove_interface_sink`, then `exchange`), as in `forwarding_table.tcc`.

**ByteStream, CircularBuffer.** ByteStream is the abstract specification: a
queue of bytes of bounded length, `Put` and `Take` of several at once.
CircularBuffer has each call of the producer and the consumer in three steps
(load of the other's index and of the own, copy, store of the own), the wrap,
the alignment of free room, writes of vectors none of which is copied in part,
and the two halves of `write_and_notify` and `read_and_notify`. `RingFifo` is
ByteStream's specification under the mapping *queue = the cells between the two
indexes*; `copy_in` and `copy_out` are stuttering steps of it.

**StreamChannel.** Each process is a list of the steps it has still to do, where
a step is at most one access to what the other process may change: a load of a
counter, an addition, an eventfd call, a ring operation. Both blocking and
non-blocking sockets. `rx_fd` is `client_fd` with its two counters modulo `W`
and its value; `block` and `block_wait` fill it up, `unblock` empties it.
`tx_fd` is `server_fd`. The stack is a send buffer, a receive queue of
segments, and its callbacks in any order the TCP states allow; the peer sends,
acknowledges, closes or resets.

**GeneratorController.** The owner's calls up to their `zmq_send`, the wait for
feedback, and the join of threads; the control thread with one message in hand;
the workers from their INIT handshake to their end. ZeroMQ is external: a
subscription takes time to arrive, what is published before is lost, pipes keep
their order, and a full pipe drops a message if `Drops`. `promised` is a history
variable: what the calls that returned promise of each worker.

**Tvlp.** One scheduler per part, with a step per request to a generator's
server, each of which may fail (`fault`, at most `MaxFaults`); the server thread
with its requests, part by part. `copying` says that the server thread is
copying a part's results, and whether they were freed meanwhile. `failed` is a
history variable.

**Capture.** The server thread takes a request, an event or a timer at a time.
`sink::stop` is two steps, the load in `set_state` (`stop`) and its exchange
(`stop_end`); `sink::push` is a step per load, exchange or comparison, by any
number of workers. Sinks, results and transfers live in slots that are used
again when nothing refers to them; `where` says whether one is listed, in the
trash or freed, and what a freed result holds is anything. `delete_capture` erases
`m_sinks`, which is sorted by id, from the capture to the end (`server.cpp`
507-508): the captures behind it are *lost*. Nothing else is done to them: the
workers keep them in their tables and go on pushing, their results stay listed and
their timers set, but no request finds them by id. `delete_captures` deletes those
that are not active and no others. Descriptors are
numbers, the lowest free one is given out next, and an `event_trigger` that
nobody refers to closes its number whatever it is by then (`settle`):
`m_triggers`, callbacks and the copy that the lambda at `server.cpp` 586 takes
are kept apart for this. What the packets are does not appear: a push may meet a
start trigger, a stop trigger or a full buffer at any time.

**CaptureBuffer.** Memory is counted in cells, a packet is a header of one cell
and a payload; a header keeps its length and the packet's number. Both buffers
in memory and their readers, a packet per step. A packet may be longer than the
memory. A buffer that does not wrap is full then; one that wraps has no test for it
(`write_too_large`): an assertion fails, or without assertions memory behind the
buffer is overwritten, and the behaviour ends there (`overrun`, `ended`).

**EventLoop.** The record of a loop: events with their callbacks, the lists of
updates and removals, what epoll watches and the count of it. In an edge
triggered loop `fresh` holds the descriptors that epoll may still report: those
just added or modified, and those something happened to (`wakeup`).

**NetworkTask.** A spin is `worker_spin` and then turns of the loop:
`run_timeout` up to `epoll_wait`, a `handle` for each event that was reported, in
any order, and the `removals`. Each callback is an operator that yields the new
connection, socket and loop, whether an operation is done and whether the event
is to be removed. Sizes are in units; a socket has room for `SendBuffer` units,
so that headers and blocks are cut up. Sizes and counts that are `size_t` wrap at
`SizeMax`. Between spins the configuration may change or the task be destroyed.

**Firehose.** The acceptor, the worker and the destructor of the server, with
clients that send their requests in pieces. `do_read` is one step per `recv`,
since clients send meanwhile. Units of headers are told apart by their position,
so that a request that is put together wrongly is not a header. Descriptors are
used again once they are closed.

**TimeKeeper.** `sync` in five steps and `now` in six. The contents of a
timehands are two numbers of syncs, one for the ticks and one for the rest,
which a reader loads one after the other.

`MC*` modules give the constants their values for TLC.

## 3. The runs

| Run | Checks | Instance | States |
|---|---|---|---|
| recycle | OrderedReadersSafe, PublishedRefsSafe, SingleOwner, EventuallyFreed | a spinning and a draining, store buffering reader; 2 exchanges | 159 k |
| txsched | HeldOnlyWhenBlocked, NoDuplicateEntries, NoOversleep, TimerArmed, ActiveSourcesServed | 2 sources with periods 1 and 2, bursts of 3 in chunks of 2, a driver that may send part of them and one that also refuses to prepare them | 288 k |
| port_users | NotificationBalance, NoDeadQueue, RingServed (TxQueue); SourcesKept, PoolsReclaimed (TxSources); CapturesKept, TimerEndsOwn (Capture); BuffersRead (CaptureBuffer); TasksAligned (NetworkTask); ServedExactly (Firehose); ConnectionsServed (both) | ring of 3, bursts of 2, counters modulo 5; 3 sources (2 share), 2 queues on 2 workers, 2 pools, allocation may fail; 2 captures of 4 configurations, 2 sinks, 2 results, 2 transfers, 2 descriptors, 1 or 2 workers; buffers of 7 cells, 6 packets of 3 lengths, one of them larger than the buffer; 2 connections of 3 configurations, 1 of which may fail; 1 connection at a time with 2 requests | 258 k |
| workers | ControlSeen, ConfigApplied, StopQuiesces, LoopCallbacksKept, Exits | a polling and a spinning worker, 1 task, 1 callback, 2 requests | 324 k |
| receive | StateMeans, Admits (MacFilter); FlowsCover (FlowFilter); ReleasedOnce, PacketsServed, CountCovers (RxDispatch) | 4 addresses, room for 2; 3 addresses, 3 rules; failing devices; 2 interfaces, bursts of 2 out of 4 kinds, one table change during a burst | 3.3 M |
| socket | FdBalance, TxDrained, Woken (StreamChannel); RingFifo (CircularBuffer) | rings of 2 bytes, send buffer of 1, segments of 1 and of 2, so that one may meet less room than it needs, blocking and non-blocking; a ring of 4 with alignment 2 | 254 k |
| generators | SocketExclusive, Fenced (GeneratorController); ProfilesSettle (Tvlp); RequestsReturn (both); OneSync (TimeKeeper) | 2 workers, pipes of 2; 2 parts of 2 entries, one with toggles, 2 starts, 1 failure; 4 timehands, 9 syncs, 1 reader | 261 k |
| recycle_drain | NoUseAfterFree: violated | no store buffers | |
| workers_deadtask | NoDeadTask: violated | 1 task, 2 requests | |
| rx_multicast | MulticastComplete: violated | no table changes | |
| stream_connect | ConnectReturns: violated | as socket, blocking | |
| capture_duration | TimedStops: violated | 1 capture with a duration, 1 worker, 2 results, 2 descriptors | |

SourcesKept is LoadConserved, RefCounted, PoolsOutliveUse and NoPoolLost;
FlowsCover is RoomReserved and TagsCover; PacketsServed is SinkOrder,
SinkComplete and StackComplete; Woken is WriterWoken and ReaderKicked;
ProfilesSettle is ResultsMatch and Settled; RequestsReturn is the CallsReturn of
GeneratorController and the RequestsReturn of Tvlp; CapturesKept is TransfersKept,
TrashWatched and PacketLimit; BuffersRead is ReadsNewest and LiveReadsOrdered;
TasksAligned is QuotaKept, Aligned and ConnectionsKept; ServedExactly includes
WorkerKept; ConnectionsServed is SpinsReturn, ClientsServed and ServerEnds. TimerArmed allows one exception, a driver that refuses held packets.

### Bounds, and why they are enough

* Recycle: two readers are enough for a scan that reads one before and one after
  it moves on, and two exchanges for a reader with an old and a new table. With
  `MaxBuffered = 2` an idle store and a checkpoint can wait together. The
  safety results are proved without bounds.
* TxQueue: the bound on outstanding notifications is two (proved), so a counter
  modulo 5 wraps often and still shows the difference exactly; the ring can be
  empty, partly full and full, and accept part of a burst.
* TxScheduler: two sources suffice for one that blocks the other; a burst that
  is not a multiple of the chunk gives a short last chunk. Deadlines are tracked
  up to `MaxLate` ticks in the past: later ones behave alike, since the code
  only asks whether a deadline has passed.
* TxSources: two signature sources of different length meet the shared pool in
  every order; the third has a private pool; with two pools the allocator is
  also exhausted by what is waiting for release.
* WorkerControl: `MaxRequests = 2` allows adding and deleting a task with the
  messages in flight at once, and a second deletion of a task not yet erased.
* Filters: four addresses exceed the address filter's room by two, which takes
  the overflow list through lengths 0, 1 and 2. The flow filter keeps one of its
  three rules for itself, so three addresses overflow it.
* RxDispatch: two packets per burst give every pair of kinds (same entry, other
  entry, multicast after unicast, signature, unmarked); one change per burst can
  fall between any two looks at the table, and changes accumulate over bursts.

* CircularBuffer: a ring of four with alignment two is empty, full, and split at
  each place by the wrap, and its indexes pass twice the length; bytes are told
  apart modulo five, more than the ring holds.
* StreamChannel: a ring of two is empty, part full and full, and with a send
  buffer of one byte every part of it can be full while another is not. Segments
  have one or two bytes: one of two that meets room for one is not copied in part
  and waits, and nobody is notified for it. Three bytes in one direction are enough
  to fill the ring, and more than one notification. `W = 256` keeps the values of a block apart from every count that
  occurs. A call passes one vector.
* GeneratorController: two workers give a confirmation of one while the other
  lags; the bounds of the pipes hold back a sender, they drop nothing.
* Tvlp: two parts for one that fails while the other runs, two entries for one
  toggle, two starts for a start after an error or a stop. One failure at any
  request; the deletion after a failure may fail as well.
* Capture: two captures for one that is lost when the other is deleted; two sinks
  so that a capture is created again while its predecessor is in the trash; two
  results for one that is deleted or restarted while another is
  read, two transfers for one that ends before the other, two descriptors so that
  a closed number is the next one given out. Transfers are checked for plain
  captures only. A second sink is used by plain captures and by those with a
  duration: a running one may be lost with its timer armed, and the new and the old
  capture of an id may have a transfer each, but no result has two then. Workers
  push while no second sink was used and there is no transfer. Two workers, with one
  result, push only where packets are counted; the limit of two packets is met by
  one burst of two, by two workers, and in part.
* CaptureBuffer: seven cells hold two packets of the longer and three of the
  shorter kind with gaps of one and two cells at the end; six packets wrap it
  twice. A packet of eight cells comes at any time.
* NetworkTask: two connections for one that ends its operation, or fails, while the
  other is in the middle of one, and a quota of one that the first uses up; a block
  of two units is received in parts, and a request of three sent in parts through a
  buffer of one. A header of one unit is never cut; what happens when it is, is
  shown in section 5. `SizeMax` is far above all counts that occur.
* Firehose: a header of two units is cut, a PUT of three fills the receive buffer
  exactly, so that `recv` is called again, and a block of two takes two sends.
  Connections share nothing but the worker and its buffer, whose leftovers are kept
  with the connection; one at a time, on one descriptor, follow each other. Plans
  that have a GET after a PUT are left out because of the case in section 5.
* TimeKeeper: nine syncs go round four timehands twice.

### Fairness

Liveness is checked under assumptions that the code or its surroundings give:

* Recycle: the recycler's five second timer keeps firing; a spinning worker has
  a poll time out and comes back to its checkpoint; a polling worker leaves the
  section it is in but need not wake up again; store buffers drain; a callback
  that is tried again and again succeeds one day (strong fairness; the callback
  in question waits for mbufs that drivers return).
* TxQueue: both threads finish the calls they are in; nobody promises another
  packet, so `RingServed` is about a stack that keeps sending.
* TxScheduler: the worker serves its timer, time passes, and a driver that is
  offered the same packets for ever takes them (strong fairness).
  `ActiveSourcesServed` excludes queues that stay saturated.
* TxSources: workers let go of sources and pass checkpoints, drivers send.
* WorkerControl: threads run; `poll` returns when the control descriptor has an
  event, or by its time out when spinning; events of tasks are not assumed;
  after a shutdown the modules are destroyed (`op_halt`). Handlers end: a receive
  queue that never runs empty would keep its worker away from its messages
  (`worker.cpp` 763), which this model does not show.

* StreamChannel: both processes finish the calls they are in, the server's event
  loop serves a descriptor that stays ready and the stack's timer fires (strong
  fairness, since other handlers run in between), handshakes end and the peer
  goes on acknowledging while the connection lasts. Nobody need call `send` or
  `recv`. The properties are about non-blocking sockets: a blocking one can be
  left waiting (section 5).
* GeneratorController: threads run, subscriptions arrive, and a SUB socket reads
  its pipes in turn (strong fairness of `receive`). The owner need not call.
* Capture (for `TimedStops`): the server's loop serves its events and timers,
  also when requests keep coming (strong fairness), workers finish what they are
  in, transfers end. Nobody need send packets or requests.
* NetworkTask: the thread that is in a spin goes on. Neither the peer nor the
  network need do anything: a spin that waits ends by its timeout.
* Firehose: the threads run, clients send what they have begun and take what they
  wait for, and a server whose acceptor is stopped goes on to stop its worker.
* Tvlp: threads run and servers answer; no start time need arrive, no entry end.

Deadlock is checked in all runs but those of StreamChannel, whose connection may
come to its end.

## 4. What is proved

All proofs are for every value of the constants that the named assumptions
(`RecycleAssumption` etc.: sizes are naturals, sets are finite) allow: any number
of workers, readers, interfaces, addresses, sources, parts, any sizes of bursts,
rings and tables. `MCSpec` is the specification of a module that composes
components without their product; its constants are parameters too.

| Theorem | States |
|---|---|
| RecycleProofs!TypeCorrect | `Spec => []TypeOK` |
| RecycleProofs!QsbrSafe | `Spec => []OrderedReadersSafe` |
| RecycleProofs!PublishedSafe | `Spec => []PublishedRefsSafe` |
| RecycleProofs!NoDoubleFree | `Spec => []SingleOwner` |
| PortUsersProofs!Balanced, Bounded, NeverDead | `Spec => []NotificationBalance`, `[]BoundedNotifications`, `[]NoDeadQueue` (TxQueue) |
| PortUsersProofs!SourcesSound | `MCSpec => []SourcesKept` (TxSources) |
| PortUsersProofs!TasksKept | `MCSpec => [](T!QuotaKept /\ T!ConnectionsKept)` (NetworkTask) |
| PortUsersProofs!TasksSound | `MCSpec => []TasksAligned`, if `~Lossy` and `HeaderSize <= LowWater` (NetworkTask) |
| PortUsersProofs!CapturesSound | `C!Spec => []CapturesKept` (Capture, without the bounds that MCSpec adds; captures may be lost) |
| PortUsersProofs!TimersSound | `C!Spec => TimerEndsOwn` (Capture) |
| PortServiceProofs!BuffersSound | `B!Spec => []BuffersRead` (CaptureBuffer; a buffer that wraps up to the first packet larger than it) |
| PortServiceProofs!ServerSound | `F!Spec => []ServedExactly` (Firehose) |
| TxSchedulerProofs!HeldSafe, OneEntry, WakesInTime | `Spec => []HeldOnlyWhenBlocked`, `[]NoDuplicateEntries`, `[]NoOversleep` |
| TxSchedulerProofs!NeverStuck | `Spec => []TimerArmed`: only a driver that refuses to prepare held packets stops the scheduler |
| WorkerControlProofs!TypeCorrect, NoLostWakeup, CallbacksKept | `Spec => []TypeOK`, `[]ControlSeen`, `[]LoopCallbacksKept` |
| WorkerControlProofs!StopAcknowledged | `Spec => []StopQuiesces` |
| WorkerControlProofs!ConfigReached | `Spec => []ConfigApplied` |
| PortReceiveProofs!StatesMean, KeepsAdmitting | `Spec => []StateMeans`, `Spec => Admits` |
| PortReceiveProofs!FlowsMarked | `MCSpec => []FlowsCover` (FlowFilter) |
| PortReceiveProofs!CountNeverLow, NoPacketLeaks, EveryPacketServed | `MCSpec => []CountCovers`, `[]ReleasedOnce`, `[]PacketsServed` (RxDispatch) |
| SocketProofs!RingIsStream | `MCSpec => RingFifo`: CircularBuffer implements ByteStream |
| SocketProofs!NoDataRace | `MCSpec => []Ring!NoOverlap` |
| SocketProofs!CountersBalance | `MCSpec => []FdBalance` (StreamChannel) |
| GeneratorsProofs!ControllerTypeCorrect, InitAnsweredInAdd, CallsAreFences | `Spec => []TypeOK`, `[]SocketExclusive`, `[]Fenced` |
| GeneratorsProofs!TimeFromOneSync | `MCSpec => []OneSync` (TimeKeeper) |
| GeneratorsProofs!ProfilesEnd | `MCSpec => []ProfilesSettle` (Tvlp) |

The arguments:

* **Recycle.** Safety is not inductive: it says nothing of callbacks that have
  yet to run. `PinInv` ties them to readers: if a reader took a reference while
  visible, every version that is or may still become its visible version is at
  most the version of any callback that would delete the object. `ScanInv` says
  the same of the running minimum for readers already scanned, `AgeInv` that what
  is unlinked is older than the table, so a new reference cannot be to it, and
  `VersionInv` that no reader is ahead of the writer. For readers without store
  buffer and drain, `VisibleInv` shows that no reference is ever exposed, so
  `PublishedRefsSafe` gives `OrderedReadersSafe`.
* **TxQueue.** The balance of announced, written, read and acknowledged
  notifications holds modulo `IndexMod` only while their number is small, and it
  is small because a thread announces only after it saw none. `OutstandingInv`
  counts the thread that has seen none and will announce; with it, never more
  than two are outstanding.
* **TxSources.** `Listed` relates a source's entry in the table to the pool it is
  known to have, which is the same or, after a failed allocation, a nullptr;
  `Shared` counts the users of shared pools and gives every other pool one user;
  `GivenBack` says that a pool is handed to the recycler once, by its last user;
  `Working` that a worker with a source in hand is among the readers of the
  callback that would free its pool. A swap is an acquire into the table with
  both sources and then a release from it. The load is a sum that the library
  defines by a recursive function over subsets; that the function exists, and
  that the order of its choices does not matter, is proved first (`SumDefined`,
  `SumAnyOrder`, `SumUnique`), then what an entry more or less does to it.
  The proofs need that a pool's element is larger than the packet data in it
  (`Overhead`, the mbuf's header and headroom) and that queues are numbered.
* **NetworkTask.** `Kept` is what the event loop needs between two callbacks:
  only what was handled is on a list, so that no event can be updated twice
  before the list is read; each function of EventLoop has a lemma that says how
  it keeps it. `Expected` ties the callbacks of an event to the state of its
  connection, `InStep` what the connection waits for to what its socket holds and
  the peer owes. Each callback ends in a `Result`: an operation is counted only
  if the quota has one left, and the connection goes on in step or is removed.
  `TasksSound` has two hypotheses. Nothing is lost on the way, as over TCP: a
  lost answer (`Lossy`) leaves its connection waiting. And a socket that is
  reported writable has room for a header, as Linux sockets do: with less room
  `do_init` would send a part of the header, and if `errno` were still `EAGAIN`
  of an earlier call it would try again with a whole one (`task.cpp` 431-432).
  `TasksKept` needs neither.
* **Capture.** `Parented`: a listed result is of a capture that is listed or lost,
  whose sink the workers keep alive. `Current`:
  without a start trigger a result that has not stopped is the one its capture
  has, so the timer that fires stops the start it was set for. This needs that a
  stop that has loaded a state will find it unchanged or stopped, and that only
  memory that was freed looks armed: a worker may still set such a result
  running, until its slot is used again, which no pointer may lead to then. A
  worker's step is `Harmless`, a deletion or garbage collection `Sheds` results,
  and one lemma each shows that these keep the invariant. For the packets,
  `Filled` compares the sum over a capture's results with its counter, which
  counts more: what went to freed results too; `Owned` says that a worker's
  result, while it is one, is of the capture that the worker counts for. The sum
  runs over the slots; `PrefixDefined` and `PrefixGrows` say that it exists and
  how it follows its terms. For the trash, `Remembered` finds in each bucket a
  result *in the trash* that has a transfer: one that is only listed under the
  same id would not keep the bucket. `Wired` (without durations) gives each
  transfer its own open descriptor, readable just when it is done, so that the
  event that is handled is never that of a transfer under way.
* **CaptureBuffer.** `BuffersRead` speaks of packets and says nothing of memory,
  so a write could still destroy what a reader will get. `BInv` says where every
  packet is. `volume` gives the cells of the first packets, so the packet `i` of a
  run that starts at an address is at a known distance from it (`Placed`). Either
  the buffer has not wrapped and holds all packets from its start on (`AllKept`),
  or there are two numbers, the last packet before the wrap `s` and the last that
  was dropped `o`, such that those after `s` lie at the start and what is left of
  the others between the write address and the end before the wrap (`NewestKept`);
  in both cases the statistics are a difference of volumes. A reader is tied to
  the same two numbers: it has got `g` packets from `o` on and is at the place of
  the next one. `count_packets_and_bytes` and the loop of `make_space_if_needed`
  are recursive functions over addresses; walking from one packet to a later one
  counts the packets between them (by induction backwards), and the loop stops at
  the place of a packet or after the last one. A reader that is disturbed is
  followed only while the buffer does not wrap: that it is not in order otherwise
  is what `LiveWrapReadsOrdered` of section 5 shows. A packet is stored only if the
  memory can hold it: one that is larger fills a buffer that does not wrap, and ends
  the behaviour of one that does, so that nothing is claimed of what follows.
* **Firehose, threads.** `WorkerInv`. The worker's loop is `Sound` between two
  callbacks: only what was handled is on a list, nothing is updated twice, the
  worker's own two sockets are never removed, and the number of events epoll
  watches is right; `Phase` says what holds in addition where the worker is.
  `Opened`: what was accepted is either a connection or in a message on its way,
  never both. `Stopping` gives the last clause of the property, that no
  descriptor is left open: the worker is told to stop only after the acceptor has
  ended, and when it is, the last connections have come or will be handled in the
  same turn, which needs that they are noticed although an edge is reported once
  (`Noticed`).
* **Firehose, streams.** `ServedExactly` is not inductive: a step may cut what is
  on the way anywhere. `StreamInv` gives each open client that was accepted a
  trace of the states that the connection will go through when it gets all that
  the client has sent and is about to send (`Flow`). No state of the trace is
  surprised by the unit that comes next (`Good`: nothing comes while it writes,
  data while it reads, a header that has begun is completed), and what the client
  wants is what is on its way plus what the last state owes. Receiving a part of
  the stream moves along the trace (`FlowTakes`), whatever the part, because
  what `parse_all` computes is the state at that place (`ParsedAll`); a request
  extends it (`FlowGet`, `FlowPut`), and sending reduces both sides. The
  assumptions are that a header fits in the receive buffer with room to spare,
  that lengths are not zero, and that a descriptor is a positive number.
* **TxScheduler.** `Control` says which states each point of the handlers can be
  in; `WellFormed` gives the schedule an earliest entry (by induction on its
  finite set of deadlines), from which the timer is set.
* **WorkerControl, wakeups.** `Signalling`: from the check in `run` on, either the
  inbox is empty and the next message will be signalled, or the signal is in the
  descriptor, in the epoll edge or in the loop's flag. `Loop`: the lists of the
  event loop are disjoint and contain whatever epoll can return.
* **WorkerControl, stop.** `StopQuiesces` speaks of the state after the last
  acknowledgment only. `Phase` says for each step of the controller which
  commands can still be queued and that every worker that has answered has
  nothing left to read: the number of answers, counted against the set of such
  workers, then leaves no worker behind.
* **WorkerControl, configuration.** `Applied` compares the tasks of the
  controller with what the stack worker *will have* when it has obeyed its queue:
  the last message about a task decides (`Agrees`). `Polled` relates that to the
  epoll set. The attempt to prove this showed a mistake in the model: the
  recycler erased by the address of a task where the code erases the task whose
  deletion it was registered for; WorkerControl was corrected.
* **MacFilter.** `Covered`: while the filter works, each interface's address is in
  the device or on the overflow list; the states say when the port is
  promiscuous.
* **FlowFilter.** `FlowCovered` likewise, with the order of the overflow list;
  `FlowRoom` counts the rules in the device against the addresses that have one
  and the promiscuous rule, with the rules that were lost by a failed deletion.
* **RxDispatch.** Five invariants, each resting on those before it. `Table`: the
  count covers the table as it will be when the update under way is finished.
  `Shape`: which of the worker's lists are in use at each point, and that the
  bursts to be pushed are the end of the list for the stack. `Once`: every packet
  is in exactly one of the lists still to be done, for the stack, to be freed, or
  released. `Ordered` and `Complete`: the lists of the sinks ascend and hold all
  that the loop has passed. `Stacked`: a packet for an interface that was there
  throughout is at the stack, on its way or merged into one that is.
* **CircularBuffer.** The abstract queue is the cells between the indexes. A
  write or a read becomes a step of ByteStream at the store of its index; so
  `Producing` keeps that what was copied lies, unchanged, in free cells right
  behind the ones in use, and `Consuming` that what was read is still the front of
  the queue, whatever the other side has stored since it was loaded. That the two
  ranges of cells are disjoint is `NoDataRace`.
* **StreamChannel.** The value of the eventfd differs from that of its counters
  by what the two processes owe (`ClientDebt`, `ServerDebt`) and by a multiple of
  the width from -1 to 3. A list of steps owes only what its first step says:
  `Follows` keeps each half of a change directly behind the other half in every
  list that the two processes ever go on with.
* **GeneratorController.** `Local(w)` follows a command of the owner through one
  worker: on its way, obeyed and confirmed, the confirmation in the pipe behind
  everything sent before it, or read. `Counts`: the workers whose confirmation is
  outstanding are at most what the counter says, so it reaches zero only after
  the last one.
* **TimeKeeper.** A slot is written only when all other slots have been
  published after it; `Reads(r)` counts the syncs since reader `r` took its slot.
* **Tvlp.** `Series` gives the number of results for each point of a
  scheduler's series of requests, `Owned` the generators it has still to delete.

The library's induction theorems cannot be used here (they take an operator as a
parameter). Where an argument needs induction over the length of a sequence, what
`Only` keeps of it, the sum of the first vectors, or over the size of a set, the
load of its entries or the packets of results, the proofs take the least
counterexample in a set of numbers instead (`LeastNumber`, `LeastOf`). That a
recursive function over numbers is what its definition says, and that no other
function is, is proved the same way (`Recursion`, `UpTo` in PortServiceProofs), for
functions given as values, so that the lemma needs no operator as a parameter.

Model-checked only:

* the liveness properties (`RingServed`, `PoolsReclaimed`, `ConnectionsServed`
  and those of the other runs): fairness and ENABLED are out of the prover's
  reach. Every invariant and every action property of a passing run is stated by
  a theorem; what the theorems leave to TLC is only this.

## 5. Disagreements between code and text

Five runs show the code doing something other than its comments say; the
findings in `PROJECT.json` quote them.

* **recycle_drain**: `run_pollable` serves its receive queues before it enters
  its guard (`worker.cpp` 750). The recycler sees the worker idle and may delete
  the forwarding table under it.
* **workers_deadtask**: the recycler can erase a task that an idle worker still
  has in `m_pollables`; the worker then takes the dead task out of its epoll set
  (`worker.cpp` 793), or adds it again.
* **rx_multicast**: a multicast packet that follows a unicast packet in a burst
  goes only to the sinks of that packet's interface (`worker.cpp` 255).
* **stream_connect**: a blocking `connect` waits by filling its eventfd up and
  writing once more (`event_queue_consumer.tcc` 135-145). If the handshake ends
  between the reply and that wait, `do_lwip_connected` has unblocked the
  descriptor already; the wait blocks it again and the connected client sleeps
  (`client/api_client.cpp` 409).
* **capture_duration**: the callback that handles a change of state takes its
  event by value (`modules/packet/capture/server.cpp` 586), so the end of the
  copy closes the eventfd, while `m_triggers` keeps the event. The next start
  gets the same number; entering it in `m_triggers` destroys the old event, which
  closes the number once more. The new start's first change of state is not seen,
  no timer is set, and without packets the capture does not end, although its
  duration is the "maximum time duration" (`src/api/schema/v1/modules/packet/capture.yaml` 524).

Further configurations produce counterexamples for the properties they name.
They document behaviour that surprised while modelling and that the properties
of the passing runs are worded around:

| Configuration | Property | Shows |
|---|---|---|
| Recycle_drain, with `Draining <- NoReaders` and `Buffering <- OneBuffering` | NoUseAfterFree | the store of a checkpoint may be overtaken by the load of the table (`recycle.tcc` 109) |
| TxQueue alone (`SPECIFICATION Spec`), with the sizes of PortUsers | NoStrandedPackets | `enqueue` notifies before it inserts (`tx_queue.cpp` 114); a worker between the two leaves packets in the ring until the next `enqueue` |
| TxScheduler_served, with NeverStalls named instead | NeverStalls | returning at `tx_scheduler.cpp` 491 leaves the one shot timer unarmed |
| TxScheduler_served, with BlockedHasBuffer named instead | BlockedHasBuffer | the state may stay blocked with an empty buffer (508), against the assertion at 457 |
| TxScheduler_served, with NoMbufLeak named instead | NoMbufLeak | held mbufs of a deleted source are not freed (470) |
| TxScheduler_served, with BurstBudget named instead | BurstBudget | `remaining` is not reduced by packets pulled but held (509) |
| TxScheduler_served, with NewSourcesServed named instead | NewSourcesServed | a saturated queue never looks for new sources (534) |
| PortUsers, with PoolFits named instead | PoolFits | the size test includes the mbuf's header (`tx_mempool_allocator.cpp` 73) |
| PortUsers, with NoNullRelease named instead | NoNullRelease | a failed allocation is recorded as the source's pool (64) |
| MacFilter_sinks | SinksSeeAll | a disable request in the overflow state is dropped; the next deletion ends promiscuous mode (`mac_filter.cpp` 219) |
| MacFilter_sinks, with FitsWithoutError named instead | FitsWithoutError | an address added while disabled is not remembered (238) |
| FlowFilter_admits | OkAdmits | enabling with addresses left over leaves them without a rule (`flow_filter.cpp` 425) |
| RxDispatch_multicast, with TagKeepsSignature named instead | TagKeepsSignature | packets with a signature are tagged (`worker.cpp` 245), against the assertion in `mbuf_metadata.hpp` 371 |
| StreamChannel_connect, with BlockedMeansFull named instead (`Modes = {TRUE}`) | BlockedMeansFull | a pre-emptive block after the server's last unblock leaves a writable socket unwritable (`client/stream_channel.cpp` 206; `src/doc/dev-guide/module-socket.md` 288) |
| StreamChannel_connect, with EofTold named instead (`Modes = {TRUE}`) | EofTold | a `recv` between the last data and the end of file takes the only notification (`client/stream_channel.cpp` 264) |
| StreamChannel_connect, with FullReaderKicked named instead (`Modes = {TRUE}`, loads `MoreReads`) | FullReaderKicked | with more data queued the poll callback does not notify a reader again (`server/tcp_socket.cpp` 315-322) |
| Generators, with `Drops = TRUE` | RequestsReturn | a confirmation dropped at the high water mark behind statistics is never sent again |
| Tvlp_running, with NoFreedResults named instead | NoFreedResults | the scheduler deletes results that the server thread copies (`modules/tvlp/worker.cpp` 87, 115) |
| Tvlp_running | NeverAlreadyRunning | the error of one part hides that another runs (`modules/tvlp/controller.cpp` 175): a start reaches the assertion "should never happen" (97), a stop is refused |
| Capture_duration, with StoppedStays named instead (captures `Triggered`) | StoppedStays | a worker that saw a capture armed sets it running after it was stopped (`sink.cpp` 221-227 loads the state again and exchanges STOPPED for RUNNING) |
| Capture_duration, with Borrowed named instead (captures `Plain`) | Borrowed | a capture that ends by itself keeps its result; deleting the result leaves `m_results` of the sink dangling (`sink.cpp` 197; `server.hpp` 31 says "just borrows a result instance when running") |
| Capture_duration, with SinksKept named instead (captures `Plain`, two sinks, one transfer) | SinksKept | the trash has one place per id; a capture made again under the same id and deleted destroys the one that a transfer refers to (`server.cpp` 1005; `server.hpp` 42 says it "can not be deleted") |
| Capture_delete | RunningListed | `m_sinks.erase(std::remove(found, std::next(found), *found), std::end(m_sinks))` (`server.cpp` 507-508) erases the capture and all captures sorted behind it, running ones too, where `capture.yaml` 86 says "Delete a stopped packet capture by id". The workers still have the sinks of the lost captures, so these go on capturing until a timer, a trigger or a full buffer ends them; they cannot be found to be stopped, deleted or, on the same source, created again |
| CaptureBuffer_oversize | RoomAtEnd | a packet that is larger than a buffer that wraps (at least 4096 bytes, while the length of packets is not limited unless `packet_size` is given) finds no room when all others are dropped, against the assertion at `capture_buffer.cpp` 306; builds without assertions write behind the mapping |
| CaptureBuffer_oversize, with LiveWrapReadsOrdered named instead (`Lens = {1, 2}`) | LiveWrapReadsOrdered | a transfer of a running capture that wraps reads what the worker overwrites (`capture_buffer.cpp` 392) |
| Network_connections | RightConnections | after `swap_running` to a generator with fewer connections the number of missing ones wraps around (`modules/network/task.cpp` 625, under the comment "Make sure we have the right number of connections"), and a spin opens as many as it can; `do_init` closes them again (400) |
| Network_connections, with ReadsEnd named instead (`Fds = {1}`, `OneConnection`, `Lossy = TRUE`) | ReadsEnd | the timeout of an operation is tested only when its socket is readable (525-533); an answer that is lost ends no operation, although `src/doc/dev-guide/configuration.md` 77 names an operation timeout |
| Network_connections, with Aligned named instead (`Fds = {1}`, `OneConnection`, `HeaderSize = 2`, `SendBuffer = 3`) | Aligned | a header that is sent in part while `errno` still is EAGAIN is sent again in full (432, 467); the comment at 459 says that the connection is closed |
| PortUsers, with a plan `<<"PUT", "GET">>` in MCPortUsers | ConnectionsServed | a GET that ends where the receive buffer is full is not answered: `recv` is tried again and EAGAIN returns before `do_write` (`firehose/server_tcp.cpp` 455-459, 559) |
| TimeKeeper alone, with 1 reader, 4 slots and 9 syncs | NoTornTime | a reader overtaken by a whole round mixes two syncs (`chrono.hpp` 86) |

## 6. Limits

* Store buffering is modelled for the recycler's readers only; elsewhere atomic
  operations take effect in the order the code performs them.
* ZeroMQ, epoll, eventfd, timerfd and DPDK are modelled by their contracts. In
  particular a PUB socket is taken to have room for the few messages sent.
* RxDispatch has one port and one receive queue, and GRO is reduced to which
  packets it may chain or consume. Contents of packets do not appear.
* TxSources has no packet contents either; rates appear as loads.
* Sockets: no listening or accepting sockets, options, shutdown or close, no
  datagrams. A `connect` that the server refuses at once leaves the descriptor
  blocked; no property is about it. Vectors of several pieces appear in
  CircularBuffer only.
* GeneratorController: the destructor, which shuts the context down, and errors
  of ZeroMQ other than loss are left out. The second version of the framework
  (`framework/generator/v2`) is not modelled.
* Tvlp: `stop` overwrites the state of a part that ended in error; results of
  earlier starts are not kept.
* Capture: bulk requests that name captures are sequences of the single ones, and
  requests that fail (no worker, no memory) change nothing and do not appear. A
  capture can be created under the id of a lost one, as it can on another source; on
  the same one the workers refuse it (`worker_controller.cpp` 515). Lost captures
  stay with the workers: that a port or interface goes away is left out. Reads of freed memory
  give any state, and are not stopped at. `write_filtered_packets` is one write.
  What a transfer sends, the pcap format, the reader that merges several buffers
  and buffers in files are left out.
* NetworkTask: a block is no shorter than a header (the length at `task.cpp` 450
  wraps around for shorter ones) and no longer than the write buffer of 64 KiB: for
  longer ones the `std::max` at 449 lets `sendmsg` read behind the buffer. What bytes are
  sent does not appear; rates, the ratio of reads and writes and statistics are left out. Firehose: UDP,
  lengths of zero, and clients that go away before they have got what they wait
  for, so that a write to a connection that is reset does not appear.
* EventLoop: timers, files, and events that are deleted or disabled from outside.
* Ports that are stopped and started, and links in WorkerControl, are left out.

## 7. Plan

1. *TxDispatch*: `tx_burst` to the driver with sinks, copies and delayed
   packets, composed with TxQueue; the transmit side of the forwarding table.
2. *OpList*, *OpHashtab*: the lock free list and hash table of `framework/core`.
3. *Reclaimer*, an abstract specification of deferred deletion (grace periods),
   implemented by Recycle and used by TxSources and WorkerControl.
4. Datagram channels, listening and accepting sockets, close.
5. The merging reader of captures, learning, and the analyzer's flow tables.
6. The rest of *EventLoop*: timers, deleted and disabled events, on which Capture
   and WorkerControl rely; the UDP server.
