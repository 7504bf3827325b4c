------------------------------ MODULE Firehose ------------------------------
(***************************************************************************)
(* src/modules/network/firehose/server_tcp.cpp: the server that network    *)
(* generators make their requests to.  An acceptor thread accepts          *)
(* connections and hands their descriptors to a worker thread by a ZeroMQ  *)
(* socket; the worker serves them from an event loop that is edge          *)
(* triggered, so that a connection is not reported twice for the same      *)
(* reason.  When the server is destroyed it stops the acceptor and tells   *)
(* the worker to stop.                                                     *)
(*                                                                         *)
(* A request is a header of some units, which a PUT follows with a block.  *)
(* Clients cut up what they send as they like, and ask for no block before *)
(* they have the one before.                                               *)
(***************************************************************************)
EXTENDS EventLoop, FiniteSetsExt

CONSTANTS
    Fds,            \* connections, by the server's descriptors
    Plans,          \* what a client may ask for: sequences of GET and PUT
    HeaderSize,     \* net_request_size
    Length,         \* the length of a block that is got, or put
    RecvBuffer,     \* recv_buffer_size
    SendRoom        \* the send buffer of a socket

\* A connection is told from the worker's own sockets by its descriptor.
FirehoseAssumption ==
    /\ IsFiniteSet(Fds) /\ Fds \subseteq Nat \ {0}
    /\ {HeaderSize, RecvBuffer, SendRoom, Length.GET, Length.PUT} \subseteq Nat \ {0}
    /\ HeaderSize < RecvBuffer
    /\ \A p \in Plans : p \in Seq({"GET", "PUT"})

VARIABLES
    server,         \* server_tcp
    acceptor,       \* whether the acceptor runs
    accepting,      \* the messages it has sent and the worker has not read
    ctrl,           \* whether there is a message to stop
    m_running, m_connections, loop,     \* of the worker
    batch,          \* what epoll has reported and was not handled yet
    at,             \* where the worker is, and the descriptor that it reads
    open,           \* descriptors accepted and not closed
    up, down,       \* what is on its way to the server, and to the client
    client          \* the clients

vars == <<server, acceptor, accepting, ctrl, m_running, m_connections, loop, batch,
          at, open, up, down, client>>

workerVars == <<m_running, m_connections, loop, batch, at>>
networkVars == <<open, up, down, client>>
serverVars == <<server, acceptor, accepting, ctrl>>

\* The sockets of the worker are events like the descriptors.
CTRL == 0
ACCEPT == -1

TypeOK ==
    /\ server \in {"up", "acceptor stopped", "joining", "gone"}
    /\ acceptor \in BOOLEAN /\ accepting \in Seq(Fds) /\ ctrl \in BOOLEAN
    /\ m_running \in BOOLEAN
    /\ DOMAIN m_connections \subseteq Fds
    /\ \A c \in Range(m_connections) :
         /\ c.state \in {"WAITING", "READING", "WRITING", "ERROR", "DONE"}
         /\ c.bytes_left \in Nat /\ Len(c.request) < HeaderSize
    /\ at \in [pc : {"start", "top", "turn", "wait", "handle", "read", "ended"},
               fd : Fds \union {CTRL}]
    /\ open \subseteq Fds /\ down \in [Fds -> 0..SendRoom]
    /\ \A fd \in Fds : client[fd].state \in {"new", "backlog", "open", "closed"}

header(action) == [i \in 1..HeaderSize |-> <<action, i>>]
Data == <<"data", 0>>

tcp_connection_reading_state == callbacks("do_read", "NULL")
tcp_connection_writing_state == callbacks("NULL", "do_write")
ctrl_callbacks   == callbacks("do_control", "NULL")
accept_callbacks == callbacks("do_accept", "NULL")

At(pc) == [pc |-> pc, fd |-> CTRL]

Init ==
    /\ server = "up" /\ acceptor = TRUE /\ accepting = << >> /\ ctrl = FALSE
    /\ m_running = TRUE /\ m_connections = << >> /\ batch = NoEvents /\ at = At("start")
    /\ loop = op_event_loop_allocate(TRUE)
    /\ open = {} /\ up = [fd \in Fds |-> << >>] /\ down = [fd \in Fds |-> 0]
    /\ client = [fd \in Fds |-> [state |-> "new", plan |-> << >>, unsent |-> << >>, want |-> 0]]

-----------------------------------------------------------------------------
(* The callbacks of the worker.                                            *)

new_connection == [state |-> "WAITING", bytes_left |-> 0, request |-> << >>]

added(l, fds) == op_event_loop_add_fds(l, fds, tcp_connection_reading_state)

\* One unit of what was received.
parse(c, unit) ==
    LET request == Append(c.request, unit)
        begin(state, n) == [state |-> state, bytes_left |-> n, request |-> << >>]
    IN CASE c.state = "WAITING" /\ Len(request) < HeaderSize -> [c EXCEPT !.request = request]
         [] c.state = "WAITING" /\ request = header("GET") -> begin("WRITING", Length.GET)
         [] c.state = "WAITING" /\ request = header("PUT") -> begin("READING", Length.PUT)
         [] c.state = "READING" ->
              [c EXCEPT !.bytes_left = @ - 1,
                        !.state = IF c.bytes_left = 1 THEN "WAITING" ELSE @]
         [] OTHER -> [c EXCEPT !.state = "ERROR", !.request = << >>]

\* All of it, one unit after the other.
parse_all(c, buffer) ==
    LET p[n \in 0..Len(buffer)] == IF n = 0 THEN c ELSE parse(p[n - 1], buffer[n])
    IN  p[Len(buffer)]

\* What do_write() leaves behind; "idle" is the loop after all has been sent.  A
\* client that is gone makes send() fail.
send(fd, c, idle) ==
    LET n == Min({SendRoom - down[fd], c.bytes_left})
        rest == [c EXCEPT !.bytes_left = @ - n]
        then(conn, sent, l, error) ==
            [conn |-> conn, sent |-> sent, loop |-> l, error |-> error]
    IN IF c.state # "WRITING" THEN then(c, 0, loop, FALSE)
       ELSE IF client[fd].state = "closed"
       THEN then([c EXCEPT !.state = "ERROR"], 0, loop, TRUE)
       ELSE IF rest.bytes_left > 0
       THEN then(rest, n, op_event_loop_update_fd(loop, fd, tcp_connection_writing_state), FALSE)
       ELSE then([rest EXCEPT !.state = "WAITING"], n, idle, FALSE)

\* Mutation: the connection goes on waiting for room.
do_write_only(fd, c) == send(fd, c, loop)

do_write(fd, c) ==
    send(fd, c, op_event_loop_update_fd(loop, fd, tcp_connection_reading_state))

\* The event of fd has been handled.
finish(fd, l, error) ==
    /\ loop' = handled(l, fd, batch[fd], error)
    /\ batch' = Restrict(batch, DOMAIN batch \ {fd})
    /\ at' = At("handle")

write(fd, c) ==
    LET r == do_write(fd, c)
    IN /\ m_connections' = [m_connections EXCEPT ![fd] = r.conn]
       /\ down' = [down EXCEPT ![fd] = @ + r.sent]
       /\ finish(fd, r.loop, r.error)

\* do_read() up to its first recv().
do_read(fd) ==
    /\ IF m_connections[fd].state = "WRITING"
       THEN finish(fd, loop, FALSE)
       ELSE at' = [pc |-> "read", fd |-> fd] /\ UNCHANGED <<loop, batch>>
    /\ UNCHANGED <<m_connections, down>>

\* Mutation: what was left over is forgotten.
received_only(c, units) == units

\* "handle leftovers from last go round"
received(c, units) == c.request \o units

\* One recv() of do_read() and what is made of it.  When the buffer was filled there
\* may be more.
recv(fd) ==
    /\ at = [pc |-> "read", fd |-> fd]
    /\ LET c == m_connections[fd]
           n == Min({RecvBuffer - Len(c.request), Len(up[fd])})
           buffer == received(c, SubSeq(up[fd], 1, n))
           parsed == parse_all([c EXCEPT !.request = << >>], buffer)
           keep(conn) == m_connections' = [m_connections EXCEPT ![fd] = conn]
       IN /\ up' = [up EXCEPT ![fd] = SubSeq(@, n + 1, Len(@))]
          /\ IF n = 0
             THEN LET closed == client[fd].state = "closed"
                  IN /\ keep(IF closed THEN [c EXCEPT !.state = "DONE"] ELSE c)
                     /\ finish(fd, loop, closed) /\ UNCHANGED down
             ELSE IF parsed.state = "ERROR"
             THEN keep(parsed) /\ finish(fd, loop, TRUE) /\ UNCHANGED down
             ELSE IF Len(buffer) = RecvBuffer
             THEN keep(parsed) /\ UNCHANGED <<loop, batch, at, down>>
             ELSE write(fd, parsed)
    /\ UNCHANGED <<serverVars, m_running, open, client>>

do_accept ==
    LET new == Range(accepting)
    IN /\ m_connections' = override([fd \in new |-> new_connection], m_connections)
       /\ accepting' = << >>
       /\ finish(ACCEPT, added(loop, new), FALSE)
       /\ UNCHANGED <<server, acceptor, ctrl, m_running, networkVars>>

do_control ==
    /\ m_running' = FALSE /\ ctrl' = FALSE
    /\ finish(CTRL, op_event_loop_exit(loop), FALSE)
    /\ UNCHANGED <<server, acceptor, accepting, m_connections, networkVars>>

-----------------------------------------------------------------------------
(* The worker's thread.                                                    *)

\* What happened before the sockets were watched is not reported, and looked for.
start ==
    /\ at.pc = "start"
    /\ m_running' = ~ctrl /\ ctrl' = FALSE
    /\ m_connections' = [fd \in Range(accepting) |-> new_connection]
    /\ accepting' = << >>
    /\ loop' = added(op_event_loop_add_fd(op_event_loop_add_fd(loop, CTRL, ctrl_callbacks),
                                          ACCEPT, accept_callbacks), Range(accepting))
    /\ at' = At("top")
    /\ UNCHANGED <<server, acceptor, batch, networkVars>>

\* while (m_running) m_loop->run(), and the end.
run ==
    /\ at.pc = "top"
    /\ IF m_running
       THEN /\ loop' = [loop EXCEPT !.running = TRUE] /\ at' = At("turn")
            /\ UNCHANGED <<m_connections, open>>
       ELSE /\ loop' = op_event_loop_purge(loop) /\ at' = At("ended")
            /\ m_connections' = Restrict(m_connections, DOMAIN m_connections \ DOMAIN loop.events)
            /\ open' = open \ DOMAIN loop.events
    /\ UNCHANGED <<serverVars, m_running, batch, up, down, client>>

turn ==
    /\ at.pc = "turn"
    /\ IF loop.running
       THEN loop' = _do_event_updates(loop) /\ at' = At("wait")
       ELSE at' = At("top") /\ UNCHANGED loop
    /\ UNCHANGED <<serverVars, m_running, m_connections, batch, networkVars>>

ready(fd) ==
    IF fd = CTRL THEN IF ctrl THEN {"EPOLLIN"} ELSE {}
    ELSE IF fd = ACCEPT THEN IF accepting # << >> THEN {"EPOLLIN"} ELSE {}
    ELSE LET closed == client[fd].state = "closed"
         IN (IF up[fd] # << >> \/ closed THEN {"EPOLLIN"} ELSE {})
              \union (IF down[fd] < SendRoom \/ closed THEN {"EPOLLOUT"} ELSE {})
              \union (IF closed THEN {"EPOLLRDHUP"} ELSE {})

\* epoll_wait() without a timeout.
wait ==
    /\ at.pc = "wait"
    /\ batch' = epoll_wait(loop, [fd \in DOMAIN loop.epoll |-> ready(fd)])
    /\ batch' # NoEvents
    /\ loop' = waited(loop) /\ at' = At("handle")
    /\ UNCHANGED <<serverVars, m_running, m_connections, networkVars>>

handle(fd) ==
    /\ at.pc = "handle" /\ fd \in DOMAIN batch
    /\ LET c == loop.events[fd]
       IN \/ fd = CTRL /\ do_control
          \/ fd = ACCEPT /\ do_accept
          \/ /\ fd \in Fds
             /\ IF "EPOLLIN" \in batch[fd] /\ c.on_read = "do_read" THEN do_read(fd)
                ELSE IF "EPOLLOUT" \in batch[fd] /\ c.on_write = "do_write"
                THEN write(fd, m_connections[fd])
                ELSE finish(fd, loop, FALSE) /\ UNCHANGED <<m_connections, down>>
             /\ UNCHANGED <<serverVars, m_running, open, up, client>>

\* do_close(), for every event that is removed.
removals ==
    /\ at.pc = "handle" /\ batch = NoEvents
    /\ m_connections' = Restrict(m_connections, DOMAIN m_connections \ loop.remove_list)
    /\ open' = open \ loop.remove_list
    /\ loop' = _do_event_removals(loop)
    /\ at' = At("turn")
    /\ UNCHANGED <<serverVars, m_running, batch, up, down, client>>

-----------------------------------------------------------------------------
(* The acceptor and the server.                                            *)

accept(fd) ==
    /\ acceptor /\ client[fd].state = "backlog"
    /\ client' = [client EXCEPT ![fd].state = "open"]
    /\ open' = open \union {fd}
    /\ accepting' = Append(accepting, fd)
    /\ loop' = wakeup(loop, ACCEPT)
    /\ UNCHANGED <<server, acceptor, ctrl, m_running, m_connections, batch, at, up, down>>

\* ~server_tcp(): tcp_acceptor::stop(), stop_workers() and its join().
stop_acceptor ==
    /\ server = "up" /\ server' = "acceptor stopped" /\ acceptor' = FALSE
    /\ UNCHANGED <<accepting, ctrl, workerVars, networkVars>>

stop_workers ==
    /\ server = "acceptor stopped" /\ server' = "joining"
    /\ ctrl' = TRUE /\ loop' = wakeup(loop, CTRL)
    /\ UNCHANGED <<acceptor, accepting, m_running, m_connections, batch, at, networkVars>>

join ==
    /\ server = "joining" /\ at.pc = "ended" /\ server' = "gone"
    /\ UNCHANGED <<acceptor, accepting, ctrl, workerVars, networkVars>>

-----------------------------------------------------------------------------
(* The clients.                                                            *)

clientStep(fd, c) ==
    /\ client' = [client EXCEPT ![fd] = c]
    /\ UNCHANGED <<serverVars, m_running, m_connections, batch, at, open>>

\* A connection may get a descriptor that was closed.
Connect(fd) ==
    /\ client[fd].state = "new" \/ (client[fd].state = "closed" /\ fd \notin open)
    /\ acceptor
    /\ \E p \in Plans :
         clientStep(fd, [state |-> "backlog", plan |-> p, unsent |-> << >>, want |-> 0])
    /\ up' = [up EXCEPT ![fd] = << >>] /\ down' = [down EXCEPT ![fd] = 0]
    /\ UNCHANGED loop

Request(fd) ==
    LET c == client[fd]
        action == Head(c.plan)
    IN /\ c.state = "open" /\ c.unsent = << >> /\ c.want = 0 /\ c.plan # << >>
       /\ clientStep(fd, [c EXCEPT
            !.plan = Tail(@),
            !.unsent = header(action) \o
                         IF action = "PUT" THEN [i \in 1..Length.PUT |-> Data] ELSE << >>,
            !.want = IF action = "GET" THEN Length.GET ELSE 0])
       /\ UNCHANGED <<loop, up, down>>

Send(fd) ==
    LET c == client[fd]
    IN /\ c.state = "open"
       /\ \E n \in 1..Len(c.unsent) :
            /\ up' = [up EXCEPT ![fd] = @ \o SubSeq(c.unsent, 1, n)]
            /\ clientStep(fd, [c EXCEPT !.unsent = SubSeq(@, n + 1, Len(@))])
       /\ loop' = wakeup(loop, fd)
       /\ UNCHANGED down

Receive(fd) ==
    /\ client[fd].state = "open" /\ down[fd] > 0
    /\ down' = [down EXCEPT ![fd] = @ - 1]
    /\ clientStep(fd, [client[fd] EXCEPT !.want = @ - 1])
    /\ loop' = wakeup(loop, fd)
    /\ UNCHANGED up

\* A client leaves when it has all it asked for.
Close(fd) ==
    /\ client[fd].state = "open" /\ client[fd].plan = << >>
    /\ client[fd].unsent = << >> /\ client[fd].want = 0
    /\ clientStep(fd, [client[fd] EXCEPT !.state = "closed"])
    /\ loop' = wakeup(loop, fd)
    /\ UNCHANGED <<up, down>>

Worker ==
    \/ start \/ run \/ turn \/ wait \/ removals
    \/ \E fd \in Fds : recv(fd)
    \/ \E fd \in Fds \union {CTRL, ACCEPT} : handle(fd)

Client(fd) == Request(fd) \/ Send(fd) \/ Receive(fd)

Gone == server = "gone" /\ UNCHANGED vars

Next ==
    \/ Worker
    \/ \E fd \in Fds : accept(fd) \/ Connect(fd) \/ Client(fd) \/ Close(fd)
    \/ stop_acceptor \/ stop_workers \/ join
    \/ Gone

\* The threads run, and clients send and receive.
Fairness ==
    /\ WF_vars(Worker)
    /\ \A fd \in Fds : WF_vars(accept(fd)) /\ WF_vars(Client(fd))
    /\ WF_vars(stop_workers)

Spec == Init /\ [][Next]_vars /\ Fairness

-----------------------------------------------------------------------------

\* The server never takes the requests of its clients for anything else, and what a
\* client still wants is what the server has still to send it, or its request is on
\* its way (server_tcp.cpp:451-560).
ServedExactly ==
    \A fd \in DOMAIN m_connections :
        LET c == m_connections[fd]
            asked == client[fd].unsent \o up[fd] \o c.request
        IN client[fd].state = "open" =>
             /\ c.state # "ERROR"
             /\ client[fd].want = down[fd] +
                  (IF c.state = "WRITING" THEN c.bytes_left
                   ELSE IF <<"GET", HeaderSize>> \in Range(asked) THEN Length.GET ELSE 0)

\* The worker's connections are its events and are open, none is left when it has
\* ended, as asserted (server_tcp.cpp:381), and no descriptor that was accepted is left
\* open by a server that is gone.
WorkerKept ==
    /\ DOMAIN m_connections \subseteq open
    /\ DOMAIN m_connections = DOMAIN loop.events \ {CTRL, ACCEPT}
    /\ LoopSound(loop, batch)
    /\ at.pc = "ended" => loop.events = << >>
    /\ server = "gone" => open = {}

\* Clients get what they ask for, and what they send is received, unless the server is
\* stopped, although an edge is reported once (server_tcp.cpp:319).
ClientsServed ==
    \A fd \in Fds :
        (client[fd].state = "open" /\ (client[fd].want > 0 \/ up[fd] # << >>))
            ~> (client[fd].state # "open" \/ server # "up"
                  \/ (client[fd].want = 0 /\ up[fd] = << >>))

\* The server ends when it is told to.
ServerEnds == server = "acceptor stopped" ~> at.pc = "ended"
=============================================================================
