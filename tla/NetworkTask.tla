---------------------------- MODULE NetworkTask -----------------------------
(***************************************************************************)
(* src/modules/network/task.cpp: the task of a network generator.  A       *)
(* worker thread calls worker_spin() with a number of operations; the task *)
(* opens the connections that are missing and runs its event loop until    *)
(* the operations are done, nothing happens for a while, or nothing is     *)
(* left.  An operation asks the peer for a block (GET), or sends it one    *)
(* (PUT), after a header.  Between spins, while the worker is paused, the  *)
(* task may be given the configuration of another generator, and in the    *)
(* end it is destroyed.                                                    *)
(*                                                                         *)
(* Sizes are counted in units; what matters is that headers and blocks may *)
(* be sent and received in parts.  A block is no shorter than a header: for *)
(* shorter ones the length at task.cpp:450 would wrap around.               *)
(***************************************************************************)
EXTENDS EventLoop, FiniteSetsExt

CONSTANTS
    Fds,            \* descriptors
    HeaderSize,     \* net_request_size
    BlockSize,      \* block_size
    SendBuffer,     \* room in the send buffer of a socket
    LowWater,       \* room from which on a socket says that it is writable
    Configs,        \* configurations
    MaxOps,         \* operations of a spin
    SizeMax,        \* the largest size_t
    Unreliable,     \* descriptors whose peer may close, reset or refuse
    Lossy           \* the peer's answer may be lost, as over UDP

NetworkTaskAssumption ==
    /\ Fds \subseteq Nat /\ IsFiniteSet(Fds)
    /\ {HeaderSize, BlockSize, SendBuffer, LowWater, MaxOps} \subseteq Nat \ {0}
    /\ LowWater <= SendBuffer /\ HeaderSize <= BlockSize
    /\ Configs \subseteq [operation : {"READ", "WRITE"}, connections : Nat,
                          ops_per_connection : Nat]
    /\ SizeMax \in Nat /\ SizeMax > Max({MaxOps, Cardinality(Fds)}) /\ \A c \in Configs : c.connections <= SizeMax
    /\ Unreliable \subseteq Fds /\ Lossy \in BOOLEAN

VARIABLES
    m_config,
    m_active,
    m_connections,      \* the connection of every descriptor
    m_spin_ops_left,
    loop,
    batch,              \* what epoll has reported and was not handled yet
    at,                 \* where the thread is
    sock                \* the sockets

vars == <<m_config, m_active, m_connections, m_spin_ops_left,
          loop, batch, at, sock>>

\* A socket.  "pending" is what the peer still expects of the request it is
\* sent, "owed" what it has still to answer.
Sockets == [state : {"connecting", "open", "reset"}, fin : BOOLEAN,
            room : 0..SendBuffer, received : 0..BlockSize,
            pending : 0..HeaderSize + BlockSize, owed : 0..BlockSize]

Connections == [state : {"INIT", "READING", "WRITING", "ERROR", "DONE"},
                bytes_left : 0..HeaderSize + BlockSize, ops_left : Nat]

TypeOK ==
    /\ m_config \in Configs /\ m_active \in BOOLEAN
    /\ DOMAIN m_connections \subseteq Fds /\ Range(m_connections) \subseteq Connections
    /\ m_spin_ops_left \in 0..SizeMax
    /\ DOMAIN sock \subseteq Fds /\ Range(sock) \subseteq Sockets
    /\ DOMAIN batch \subseteq Fds
    /\ at \in {"idle", "run", "handle", "gone"}

Init ==
    /\ m_config \in Configs /\ m_active = TRUE
    /\ m_connections = << >> /\ m_spin_ops_left = 0
    /\ loop = op_event_loop_allocate(FALSE) /\ batch = NoEvents /\ at = "idle"
    /\ sock = << >>

connection_init_state    == callbacks("NULL", "do_init")
connection_reading_state == callbacks("do_read", "NULL")
connection_writing_state == callbacks("NULL", "do_write")

-----------------------------------------------------------------------------
(* A spin.                                                                 *)

\* As the code computes it, in size_t.
connections_required == (m_config.connections - Cardinality(DOMAIN m_connections)) % (SizeMax + 1)

new_socket == [state |-> "connecting", fin |-> FALSE, room |-> SendBuffer,
               received |-> 0, pending |-> 0, owed |-> 0]

new_connection == [state |-> "INIT", bytes_left |-> 0, 
                   ops_left |-> m_config.ops_per_connection]

\* The n lowest descriptors that are free.
free_fds(n) ==
    LET free == Fds \ DOMAIN sock
    IN {fd \in free : Cardinality({g \in free : g < fd}) < n}

\* The loop over connections_required ends early when one cannot be opened, for
\* lack of descriptors at the latest.
worker_spin(n) ==
    /\ at = "idle" /\ m_active
    /\ m_spin_ops_left' = n
    /\ \E opened \in 0..Min({connections_required, Cardinality(Fds \ DOMAIN sock)}) :
         LET new == free_fds(opened)
         IN /\ sock' = override([fd \in new |-> new_socket], sock)
            /\ m_connections' = override([fd \in new |-> new_connection], m_connections)
            /\ loop' = [op_event_loop_add_fds(loop, new, connection_init_state)
                            EXCEPT !.running = TRUE]
    /\ at' = "run"
    /\ UNCHANGED <<m_config, m_active, batch>>

\* What a socket is ready for.
ready(s) ==
    CASE s.state = "connecting" -> {}
      [] s.state = "reset" -> {"EPOLLIN", "EPOLLOUT", "EPOLLHUP", "EPOLLERR"}
      [] OTHER -> (IF s.received > 0 \/ s.fin THEN {"EPOLLIN"} ELSE {})
                    \union (IF s.room >= LowWater THEN {"EPOLLOUT"} ELSE {})

\* op_event_loop_run_timeout(): one turn up to the callbacks, or its end: because
\* of op_event_loop_exit(), because there are no events, or because none is ready
\* for a while.
run_timeout ==
    /\ at = "run"
    /\ IF loop.running
       THEN LET l == _do_event_updates(loop)
                b == IF l.nb_epoll_events = 0 THEN NoEvents
                     ELSE epoll_wait(l, [fd \in DOMAIN sock |-> ready(sock[fd])])
            IN /\ batch' = b
               /\ IF b = NoEvents
                  THEN loop' = op_event_loop_exit(waited(l)) /\ at' = "idle"
                  ELSE loop' = waited(l) /\ at' = "handle"
       ELSE /\ at' = "idle"
            /\ UNCHANGED <<batch, loop>>
    /\ UNCHANGED <<m_config, m_active, m_connections, m_spin_ops_left, sock>>

-----------------------------------------------------------------------------
(* The callbacks: what becomes of the connection, its socket and the loop,  *)
(* whether an operation is done, whether an error is returned.              *)

outcome(c, s, l, done, error) ==
    [conn |-> c, sock |-> s, loop |-> l, done |-> done, error |-> error]

done_with(c) == [c EXCEPT !.state = "DONE"]
in_error(c)  == [c EXCEPT !.state = "ERROR"]
next_op(c)   == [c EXCEPT !.state = "INIT", !.bytes_left = 0, !.ops_left = @ - 1]

\* The quota of the spin is used up.
leave(c, s) == outcome(c, s, op_event_loop_exit(loop), 0, FALSE)

\* The peer has the request when it has all of its header.
sent(s, n, request) ==
    [s EXCEPT !.room = @ - n, !.pending = request - n,
              !.owed = IF request = HeaderSize /\ n = request THEN BlockSize ELSE @]

surplus == Cardinality(DOMAIN m_connections) > m_config.connections

\* do_init() makes a request.  A header that is sent in part is an error, unless
\* errno is EAGAIN, which an earlier call may have left there.
make_request(fd, stale) ==
    LET c == m_connections[fd]
        read    == m_config.operation = "READ"
        request == IF read THEN HeaderSize ELSE HeaderSize + BlockSize
        n       == Min({sock[fd].room, request})
        s       == sent(sock[fd], n, request)
        update(state) == op_event_loop_update_fd(loop, fd, state)
    IN IF sock[fd].state = "reset" THEN outcome(in_error(c), sock[fd], loop, 0, TRUE)
       ELSE IF n = 0 \/ (n < HeaderSize /\ stale) THEN outcome(c, s, loop, 0, FALSE)
       ELSE IF n < HeaderSize THEN outcome(in_error(c), s, loop, 0, TRUE)
       ELSE IF read
       THEN outcome([c EXCEPT !.state = "READING", !.bytes_left = BlockSize], s,
                    update(connection_reading_state), 0, FALSE)
       ELSE IF n < request
       THEN outcome([c EXCEPT !.state = "WRITING", !.bytes_left = request - n], s,
                    update(connection_writing_state), 0, FALSE)
       ELSE IF c.ops_left > 1
       THEN outcome(next_op(c), s, update(connection_init_state), 1, FALSE)
       ELSE outcome(done_with(next_op(c)), s, loop, 1, TRUE)

do_init(fd, stale) ==
    LET c == m_connections[fd]
    IN IF c.ops_left = 0 \/ ~m_active \/ surplus
       THEN outcome(done_with(c), sock[fd], loop, 0, TRUE)
       ELSE IF m_spin_ops_left = 0 THEN leave(c, sock[fd]) ELSE make_request(fd, stale)

\* The block is complete: the next operation.
complete(fd, c, s) ==
    outcome(next_op(c), s, op_event_loop_update_fd(loop, fd, connection_init_state), 1, FALSE)

\* An operation is late when nothing more can be received after the timeout.
receive(fd, late) ==
    LET c == m_connections[fd]
        n == Min({sock[fd].received, c.bytes_left})
        s == [sock[fd] EXCEPT !.received = @ - n]
        rest == [c EXCEPT !.bytes_left = @ - n]
    IN IF c.bytes_left = 0 THEN outcome(c, s, loop, 0, TRUE)
       ELSE IF rest.bytes_left = 0 THEN complete(fd, rest, s)
       ELSE IF s.state = "reset" \/ (late /\ ~s.fin)
       THEN outcome(in_error(rest), s, loop, 0, TRUE)
       ELSE IF s.fin THEN outcome(done_with(rest), s, loop, 0, TRUE)
       ELSE outcome(rest, s, loop, 0, FALSE)

\* Mutation: the quota is tested where operations begin only.
do_read_unchecked(fd, late) == receive(fd, late)

do_read(fd, late) ==
    IF m_spin_ops_left = 0 THEN leave(m_connections[fd], sock[fd]) ELSE receive(fd, late)

do_write(fd) ==
    LET c == m_connections[fd]
        n == Min({sock[fd].room, c.bytes_left})
        s == [sock[fd] EXCEPT !.room = @ - n, !.pending = @ - n]
        rest == [c EXCEPT !.bytes_left = @ - n]
    IN IF m_spin_ops_left = 0 THEN leave(c, sock[fd])
       ELSE IF c.bytes_left = 0 THEN outcome(c, s, loop, 0, TRUE)
       ELSE IF s.state = "reset" THEN outcome(in_error(c), sock[fd], loop, 0, TRUE)
       ELSE IF rest.bytes_left = 0 THEN complete(fd, rest, s)
       ELSE outcome(rest, s, loop, 0, FALSE)

callback(fd, late, stale) ==
    LET c == loop.events[fd]
    IN CASE "EPOLLIN" \in batch[fd] /\ c.on_read = "do_read" -> do_read(fd, late)
         [] "EPOLLOUT" \in batch[fd] /\ c.on_write = "do_init" -> do_init(fd, stale)
         [] "EPOLLOUT" \in batch[fd] /\ c.on_write = "do_write" -> do_write(fd)
         [] OTHER -> outcome(m_connections[fd], sock[fd], loop, 0, FALSE)

\* _do_event_handling(), one event at a time, in any order.  epoll is asked for
\* either reading or writing, so that one callback runs.
handle(fd) ==
    /\ at = "handle" /\ fd \in DOMAIN batch
    /\ \E late, stale \in BOOLEAN :
         LET r == callback(fd, late, stale)
         IN /\ m_connections' = [m_connections EXCEPT ![fd] = r.conn]
            /\ sock' = [sock EXCEPT ![fd] = r.sock]
            /\ loop' = handled(r.loop, fd, batch[fd], r.error)
            /\ m_spin_ops_left' = (m_spin_ops_left - r.done) % (SizeMax + 1)
    /\ batch' = Restrict(batch, DOMAIN batch \ {fd})
    /\ UNCHANGED <<m_config, m_active, at>>

\* do_shutdown(), for every event that is removed.
do_shutdown(closed) ==
    /\ sock' = Restrict(sock, DOMAIN sock \ closed)
    /\ m_connections' = Restrict(m_connections, DOMAIN m_connections \ closed)

removals ==
    /\ at = "handle" /\ batch = NoEvents
    /\ do_shutdown(loop.remove_list)
    /\ loop' = _do_event_removals(loop)
    /\ at' = "run"
    /\ UNCHANGED <<m_config, m_active, m_spin_ops_left, batch>>

-----------------------------------------------------------------------------
(* The task's life.                                                        *)

\* generator::config(), when a generator is swapped for another (swap_running()).
config(c) ==
    /\ at = "idle" /\ m_active /\ c # m_config /\ c.operation = m_config.operation
    /\ m_config' = c
    /\ UNCHANGED <<m_active, m_connections, m_spin_ops_left, loop,
                    batch, at, sock>>

\* ~network_task() lets operations finish and then closes what is left.
destroy ==
    /\ at = "idle" /\ m_active
    /\ m_active' = FALSE
    /\ LET count == Cardinality(DOMAIN loop.events)
       IN IF count = 0
          THEN at' = "gone" /\ UNCHANGED <<m_spin_ops_left, loop>>
          ELSE /\ m_spin_ops_left' = count
               /\ loop' = [loop EXCEPT !.running = TRUE]
               /\ at' = "run"
    /\ UNCHANGED <<m_config, m_connections, batch, sock>>

purge ==
    /\ at = "idle" /\ ~m_active
    /\ do_shutdown(DOMAIN loop.events)
    /\ loop' = op_event_loop_purge(loop)
    /\ at' = "gone"
    /\ UNCHANGED <<m_config, m_active, m_spin_ops_left, batch>>

\* The generator is started again, with a new task.
new_task ==
    /\ at = "gone"
    /\ m_config' \in Configs /\ m_active' = TRUE /\ at' = "idle"
    /\ m_spin_ops_left' = 0
    /\ UNCHANGED <<m_connections, loop, batch, sock>>

-----------------------------------------------------------------------------
(* The network and the peer.                                               *)

network(fd, s) ==
    /\ sock' = [sock EXCEPT ![fd] = s]
    /\ UNCHANGED <<m_config, m_active, m_connections, m_spin_ops_left,
                    loop, batch, at>>

Established(fd) ==
    /\ sock[fd].state = "connecting"
    /\ network(fd, [sock[fd] EXCEPT !.state = "open"])

Taken(fd) ==
    /\ sock[fd].state = "open" /\ sock[fd].room < SendBuffer
    /\ network(fd, [sock[fd] EXCEPT !.room = SendBuffer])

Answered(fd) ==
    /\ sock[fd].state = "open" /\ sock[fd].owed > 0
    /\ network(fd, [sock[fd] EXCEPT !.owed = @ - 1, !.received = @ + 1])

Lost(fd) ==
    /\ Lossy /\ sock[fd].owed > 0
    /\ network(fd, [sock[fd] EXCEPT !.owed = 0])

\* The peer closes its side, or both, or refuses the connection.
Closed(fd) ==
    /\ fd \in Unreliable /\ sock[fd].state = "open" /\ ~sock[fd].fin
    /\ network(fd, [sock[fd] EXCEPT !.fin = TRUE, !.owed = 0])

Reset(fd) ==
    /\ fd \in Unreliable /\ sock[fd].state # "reset"
    /\ network(fd, [sock[fd] EXCEPT !.state = "reset", !.owed = 0])

Run == run_timeout \/ (\E fd \in Fds : handle(fd)) \/ removals \/ purge

Network(fd) == Established(fd) \/ Taken(fd) \/ Answered(fd) \/ Lost(fd) \/ Closed(fd) \/ Reset(fd)

Next ==
    \/ \E n \in 1..MaxOps : worker_spin(n)
    \/ Run
    \/ \E c \in Configs : config(c)
    \/ destroy \/ new_task
    \/ \E fd \in DOMAIN sock : Network(fd)

\* The worker's thread keeps running, and spins again as long as it is not paused.
Fairness == WF_vars(Run)
Spins == WF_vars(\E n \in 1..MaxOps : worker_spin(n))

Spec == Init /\ [][Next]_vars /\ Fairness

-----------------------------------------------------------------------------

\* A spin does not do more operations than it was asked for, which would take the
\* count below zero, although several connections may end theirs in one turn of
\* the loop (task.cpp:404, 504, 565).
QuotaKept == m_spin_ops_left <= Max({MaxOps, Cardinality(Fds)})

\* A connection that is ready for a request has nothing left over from the one
\* before, and what it waits for, or has still to send, is what the peer still
\* sends or expects, however requests and blocks are cut up (task.cpp:405-605).
Aligned ==
    \A fd \in DOMAIN m_connections :
        LET c == m_connections[fd]
            s == sock[fd]
        IN s.state = "open" /\ ~s.fin =>
             /\ c.state = "INIT" => s.pending = 0 /\ s.owed = 0 /\ s.received = 0
             /\ c.state = "READING" => c.bytes_left = s.owed + s.received
             /\ c.state = "WRITING" => c.bytes_left = s.pending

\* Connections, events and open descriptors are the same, so that no descriptor is
\* lost and no callback gets a connection that is gone (task.cpp:607-651).
ConnectionsKept ==
    /\ DOMAIN m_connections = DOMAIN loop.events
    /\ DOMAIN m_connections = DOMAIN sock
    /\ LoopSound(loop, batch)

\* Every spin returns to the worker, which can then obey (task.cpp:654).
SpinsReturn == at \in {"run", "handle"} ~> at \in {"idle", "gone"}

\* task.cpp:624: "Make sure we have the right number of connections".
RightConnections ==
    [][ Cardinality(DOMAIN m_connections') > Cardinality(DOMAIN m_connections)
          => Cardinality(DOMAIN m_connections') <= m_config.connections ]_vars

\* A read operation whose answer is lost ends by its timeout (task.cpp:525-533).
ReadsEnd ==
    \A fd \in Fds :
        (fd \in DOMAIN m_connections /\ m_connections[fd].state = "READING")
            ~> ~(fd \in DOMAIN m_connections /\ m_connections[fd].state = "READING")
=============================================================================
