--------------------------- MODULE StreamChannel ----------------------------
(***************************************************************************)
(* A TCP socket: the client library (client/stream_channel.cpp, connect of *)
(* client/api_client.cpp) in one process, the server's tcp_socket.cpp and  *)
(* stream_channel.cpp in another.  They share two rings of bytes and two   *)
(* eventfds, each with a counter of what was written and one of what was   *)
(* read.  The client's eventfd does two jobs: the server adds to it when   *)
(* there is something to read, and the client fills it up to make it       *)
(* unwritable when the ring is full.                                       *)
(*                                                                         *)
(* CircularBuffer shows that a ring is a stream of bytes; here it is how   *)
(* many bytes it holds.  Each process is a list of the steps it has still  *)
(* to do; a step is at most one access to what the other may change.       *)
(***************************************************************************)
EXTENDS Integers, Sequences, SequencesExt

CONSTANTS
    Length,         \* bytes in a ring
    Align,          \* writable() is a multiple of it
    W,              \* the counters are modulo W (2^64)
    SndBuf,         \* what the stack takes before the peer acknowledges
    MaxPbuf,        \* longest segment
    MaxQueue,       \* receive window, in segments
    Loads,          \* bounds on the bytes the client and the peer send, as pairs
    Modes           \* whether sockets may be non-blocking: a set of BOOLEANs

ASSUME ChannelAssumption ==
    /\ {Length, Align, SndBuf, MaxPbuf, MaxQueue} \subseteq Nat \ {0}
    /\ Length % Align = 0
    /\ Loads \subseteq Nat \X Nat
    /\ W \in Nat /\ W > 8 /\ Modes \subseteq BOOLEAN

VARIABLES
    nonblock,       \* EFD_NONBLOCK, of the socket and of its eventfd
    state,          \* of the tcp_socket
    error,          \* socket_error
    tx, rx,         \* bytes in the rings
    tx_fd,          \* server_fd: its counters' difference and its value
    rx_fd,          \* client_fd: its counters and its value
    recvq,          \* m_recvq: the lengths of the segments
    unsent,         \* bytes in the send buffer of the stack
    tx_left, rx_left,   \* bytes the client, the peer have still to send
    client,         \* the client's steps, and what they remember
    server,         \* the server's steps, and what they remember
    refused         \* the last send() returned EWOULDBLOCK

vars == <<nonblock, state, error, tx, rx, tx_fd, rx_fd, recvq, unsent, tx_left, rx_left,
          client, server, refused>>
network == <<recvq, unsent, tx_left, rx_left>>
rings == <<tx, rx>>

EventfdMax == W - 2
Writable(used) == ((Length - used) \div Align) * Align
Smaller(a, b) == IF a < b THEN a ELSE b
Sum(s) == FoldSeq(+, 0, s)

AtRest == [todo |-> <<>>, rest |-> 0, room |-> 0, k |-> 0]
Quiet == [todo |-> <<>>, k |-> 0]

Init ==
    /\ nonblock \in Modes
    /\ state \in {"init", "connected"}
    /\ error = "none"
    /\ tx = 0 /\ rx = 0
    /\ tx_fd = [count |-> 0, val |-> 0]
    /\ rx_fd = [read |-> 0, write |-> 0, val |-> 0]
    /\ recvq = <<>> /\ unsent = 0
    /\ \E load \in Loads : tx_left = load[1] /\ rx_left = load[2]
    /\ client = AtRest /\ server = Quiet
    /\ refused = FALSE

count == (rx_fd.write - rx_fd.read) % W

-----------------------------------------------------------------------------
(* The client's steps.                                                     *)

Client(step) == client.todo # <<>> /\ Head(client.todo) = step

\* The steps that replace the one just done; at the end everything is forgotten.
Go(c, steps) == LET todo == steps \o Tail(client.todo)
                IN client' = IF todo = <<>> THEN AtRest ELSE [c EXCEPT !.todo = todo]
Return == client' = AtRest

\* block() failed: everybody returns its error but the pre-emptive block of send().
Failed == IF Tail(client.todo) = <<"notify">> THEN client' = [client EXCEPT !.todo = <<"notify">>]
          ELSE Return

\* notify() on server_fd. Nobody but the server lowers the count, and it does so only when
\* the eventfd has a value, so the load and the two additions are one step.
notify ==
    /\ Client("notify")
    /\ tx_fd' = IF tx_fd.count = 0 THEN [count |-> 1, val |-> tx_fd.val + 1] ELSE tx_fd
    /\ Go(client, <<>>)
    /\ UNCHANGED <<nonblock, state, error, rings, rx_fd, network, server, refused>>

\* send(): nothing is sent after an error. The loop over writable(), and the check for an
\* error that may have woken us up.
send ==
    /\ \/ client.todo = <<>> /\ state # "init" /\ tx_left > 0 /\ refused' = FALSE
       \/ Client("send") /\ UNCHANGED refused
    /\ LET room == Writable(tx)
       IN client' = IF error # "none" THEN AtRest
                    ELSE IF room > 0 THEN [AtRest EXCEPT !.todo = <<"write">>, !.room = room]
                    ELSE [AtRest EXCEPT !.todo = <<IF nonblock THEN "block" ELSE "block_wait", "send">>]
    /\ UNCHANGED <<nonblock, state, error, rings, tx_fd, rx_fd, network, server>>

\* write_and_notify(): what is above half of the ring first.
write ==
    /\ Client("write")
    /\ \E n \in 1..tx_left :
           LET available == Writable(tx)
               to_write  == Smaller(available, n)
               hiwat     == available - Length \div 2
               chunk1    == IF hiwat < 0 THEN to_write ELSE Smaller(to_write, hiwat)
           IN /\ tx' = tx + chunk1
              /\ tx_left' = tx_left - chunk1
              /\ Go([client EXCEPT !.rest = to_write - chunk1, !.room = client.room - chunk1],
                    <<"notify", "write_rest", "full", "notify">>)
    /\ UNCHANGED <<nonblock, state, error, rx, tx_fd, rx_fd, recvq, unsent, rx_left, server, refused>>

write_rest ==
    /\ Client("write_rest")
    /\ LET n == Smaller(Writable(tx), client.rest)
       IN /\ tx' = tx + n
          /\ tx_left' = tx_left - n
          /\ Go([client EXCEPT !.rest = 0, !.room = client.room - n], <<>>)
    /\ UNCHANGED <<nonblock, state, error, rx, tx_fd, rx_fd, recvq, unsent, rx_left, server, refused>>

\* The pre-emptive block, when the room that was found is used up.
full ==
    /\ Client("full")
    /\ Go(client, IF client.room = 0 /\ nonblock /\ Writable(tx) = 0 THEN <<"block">> ELSE <<>>)
    /\ UNCHANGED <<nonblock, state, error, rings, tx_fd, rx_fd, network, server, refused>>

\* block() and block_wait(): count(), sub_read(), eventfd_write() and its undoing.
block ==
    /\ \/ /\ Client("block")
          /\ IF count = EventfdMax
             THEN Failed /\ refused' = (Tail(client.todo) = <<"send">>)
             ELSE /\ Go([client EXCEPT !.k = (EventfdMax - count) % W], <<"block_sub", "block_write">>)
                  /\ UNCHANGED refused
       \/ /\ Client("block_wait")
          /\ IF count = EventfdMax THEN Go(client, <<"wait_write", "wait_sub">>)
             ELSE Go([client EXCEPT !.k = (EventfdMax - count) % W],
                     <<"block_sub", "block_write", "wait_write", "wait_sub">>)
          /\ UNCHANGED refused
    /\ UNCHANGED <<nonblock, state, error, rings, tx_fd, rx_fd, network, server>>

block_sub ==
    /\ Client("block_sub")
    /\ rx_fd' = [rx_fd EXCEPT !.read = (@ - client.k) % W]
    /\ Go(client, <<>>)
    /\ UNCHANGED <<nonblock, state, error, rings, tx_fd, network, server, refused>>

\* A write above the maximum is EAGAIN, or waits; one of W - 1 is EINVAL.
block_write ==
    /\ Client("block_write")
    /\ IF client.k # W - 1 /\ rx_fd.val + client.k <= EventfdMax
       THEN /\ rx_fd' = [rx_fd EXCEPT !.val = @ + client.k]
            /\ Go(client, <<>>)
       ELSE /\ nonblock \/ client.k = W - 1
            /\ Go(client, <<"block_undo">>)
            /\ UNCHANGED rx_fd
    /\ UNCHANGED <<nonblock, state, error, rings, tx_fd, network, server, refused>>

\* Mutation: a block that failed stays in the count.
block_undo_none ==
    /\ Client("block_undo")
    /\ Failed
    /\ UNCHANGED <<nonblock, state, error, rings, tx_fd, rx_fd, network, server, refused>>

block_undo ==
    /\ Client("block_undo")
    /\ rx_fd' = [rx_fd EXCEPT !.read = (@ + client.k) % W]
    /\ Failed
    /\ UNCHANGED <<nonblock, state, error, rings, tx_fd, network, server, refused>>

\* The write of block_wait() that waits for unblock(), and its account.
wait_write ==
    /\ Client("wait_write")
    /\ rx_fd.val + 1 <= EventfdMax
    /\ rx_fd' = [rx_fd EXCEPT !.val = @ + 1]
    /\ Go(client, <<>>)
    /\ UNCHANGED <<nonblock, state, error, rings, tx_fd, network, server, refused>>

wait_sub ==
    /\ Client("wait_sub")
    /\ rx_fd' = [rx_fd EXCEPT !.read = (@ - 1) % W]
    /\ Go(client, <<>>)
    /\ UNCHANGED <<nonblock, state, error, rings, tx_fd, network, server, refused>>

\* connect(): the socket is made unwritable, the request submitted and, on a blocking
\* socket, the end of the handshake awaited.
connect ==
    /\ client.todo = <<>> /\ state = "init"
    /\ client' = [AtRest EXCEPT !.todo = <<"block", "submit">>]
    /\ UNCHANGED <<nonblock, state, error, rings, tx_fd, rx_fd, network, server, refused>>

\* The server handles the request between two events; tcp_connect() may refuse.
submit ==
    /\ Client("submit") /\ server.todo = <<>>
    /\ \/ /\ state' = "connecting"
          /\ Go(client, IF nonblock THEN <<>> ELSE <<"block_wait">>)
       \/ state' = state /\ Return
    /\ UNCHANGED <<nonblock, error, rings, tx_fd, rx_fd, network, server, refused>>

\* recv(): without data a non-blocking socket returns, a blocking one looks for an error
\* and waits for the eventfd.
recv ==
    /\ \/ client.todo = <<>> /\ state # "init"
       \/ Client("recv")
    /\ LET Start(steps) == client' = [AtRest EXCEPT !.todo = steps]
       IN IF rx > 0 THEN Start(<<"read">>)
          ELSE IF nonblock \/ error # "none" THEN Return
          ELSE Start(<<"ack_wait", "recv">>)
    /\ UNCHANGED <<nonblock, state, error, rings, tx_fd, rx_fd, network, server, refused>>

\* read_and_notify(): in two parts, divided anywhere (lowat is static).
read ==
    /\ Client("read")
    /\ \E n \in 1..rx : \E chunk1 \in 1..n :
           /\ rx' = rx - chunk1
           /\ Go([client EXCEPT !.rest = n - chunk1], <<"notify", "read_rest", "remaining">>)
    /\ UNCHANGED <<nonblock, state, error, tx, tx_fd, rx_fd, network, server, refused>>

read_rest ==
    /\ Client("read_rest")
    /\ rx' = rx - client.rest
    /\ Go([client EXCEPT !.rest = 0], <<>>)
    /\ UNCHANGED <<nonblock, state, error, tx, tx_fd, rx_fd, network, server, refused>>

\* Everything read and no end of file: take the notification; else see that there is one.
remaining ==
    /\ \/ /\ Client("remaining")
          /\ Go(client, IF rx = 0 /\ error # "EOF" THEN <<"ack">> ELSE <<"ack_undo">>)
       \/ /\ Client("ack")
          /\ Go(client, IF count # 0 THEN <<"ack_wait">> ELSE <<>>)
       \/ /\ Client("ack_undo")
          /\ Go(client, IF count # 0 THEN <<>> ELSE <<"undo_sub", "undo_write">>)
    /\ UNCHANGED <<nonblock, state, error, rings, tx_fd, rx_fd, network, server, refused>>

\* ack_wait(): eventfd_read() gives EAGAIN or waits when there is nothing.
ack_wait ==
    /\ Client("ack_wait")
    /\ IF rx_fd.val > 0
       THEN /\ rx_fd' = [rx_fd EXCEPT !.val = 0]
            /\ Go([client EXCEPT !.k = rx_fd.val], <<"ack_add">>)
       ELSE nonblock /\ Return /\ UNCHANGED rx_fd
    /\ UNCHANGED <<nonblock, state, error, rings, tx_fd, network, server, refused>>

ack_add ==
    /\ Client("ack_add")
    /\ rx_fd' = [rx_fd EXCEPT !.read = (@ + client.k) % W]
    /\ Go(client, <<>>)
    /\ UNCHANGED <<nonblock, state, error, rings, tx_fd, network, server, refused>>

\* ack_undo(): give a notification back.
undo_sub ==
    /\ Client("undo_sub")
    /\ rx_fd' = [rx_fd EXCEPT !.read = (@ - 1) % W]
    /\ Go(client, <<>>)
    /\ UNCHANGED <<nonblock, state, error, rings, tx_fd, network, server, refused>>

\* A full eventfd gives EAGAIN, and the count is put right, or makes the client wait.
undo_write ==
    /\ Client("undo_write")
    /\ IF rx_fd.val < EventfdMax THEN rx_fd' = [rx_fd EXCEPT !.val = @ + 1]
       ELSE nonblock /\ rx_fd' = [rx_fd EXCEPT !.read = (@ + 1) % W]
    /\ Go(client, <<>>)
    /\ UNCHANGED <<nonblock, state, error, rings, tx_fd, network, server, refused>>

-----------------------------------------------------------------------------
(* The server's steps: one thread, that runs one handler at a time.        *)

Server(step) == server.todo # <<>> /\ Head(server.todo) = step
Do(steps, k) == LET todo == steps \o Tail(server.todo)
                IN server' = IF todo = <<>> THEN Quiet ELSE [todo |-> todo, k |-> k]
Handle(steps) == server.todo = <<>> /\ server' = [todo |-> steps, k |-> 0]

\* handle_io(), when server_fd is readable; the pcb is gone after an error.
handle_io ==
    /\ tx_fd.val > 0 /\ state # "error"
    /\ Handle(<<"ack", "receive", "transmit">>)
    /\ UNCHANGED <<nonblock, state, error, rings, tx_fd, rx_fd, network, client, refused>>

\* ack() of server_fd, in two steps: a notify() in between is not needed.
server_ack ==
    /\ \/ /\ Server("ack")
          /\ tx_fd' = [tx_fd EXCEPT !.val = 0]
          /\ Do(<<"ack_add">>, tx_fd.val)
       \/ /\ Server("ack_add")
          /\ tx_fd' = [tx_fd EXCEPT !.count = @ - server.k]
          /\ Do(<<>>, 0)
    /\ UNCHANGED <<nonblock, state, error, rings, rx_fd, network, client, refused>>

\* A segment arrives; it is passed on if it was pushed or the client's room is exceeded.
do_lwip_recv ==
    /\ state = "connected" /\ Len(recvq) < MaxQueue
    /\ \E len \in 1..Smaller(MaxPbuf, rx_left), push \in BOOLEAN :
           /\ recvq' = Append(recvq, len)
           /\ rx_left' = rx_left - len
           /\ Handle(IF push \/ Sum(recvq') > Writable(rx) THEN <<"receive">> ELSE <<>>)
    /\ UNCHANGED <<nonblock, state, error, rings, tx_fd, rx_fd, unsent, tx_left, client, refused>>

\* The peer closes.
do_lwip_recv_eof ==
    /\ state = "connected"
    /\ state' = "closed" /\ error' = "EOF"
    /\ Handle(<<"notify">>)
    /\ UNCHANGED <<nonblock, rings, tx_fd, rx_fd, network, client, refused>>

\* The peer acknowledges; the send buffer is filled up again.
do_lwip_sent ==
    /\ state \in {"connected", "closed"} /\ unsent > 0
    /\ unsent' \in 0..(unsent - 1)
    /\ Handle(<<"transmit">>)
    /\ UNCHANGED <<nonblock, state, error, rings, tx_fd, rx_fd, recvq, tx_left, rx_left, client, refused>>

\* The stack's timer: data for the client, or else a new notification, and data for the peer.
do_lwip_poll ==
    /\ state \notin {"init", "error"}
    /\ Handle(IF recvq # <<>> THEN <<"receive", "transmit">>
              ELSE IF Length - Writable(rx) > 0 THEN <<"notify", "transmit">>
              ELSE <<"transmit">>)
    /\ UNCHANGED <<nonblock, state, error, rings, tx_fd, rx_fd, network, client, refused>>

do_lwip_connected ==
    /\ state = "connecting" /\ state' = "connected"
    /\ Handle(<<"unblock">>)
    /\ UNCHANGED <<nonblock, error, rings, tx_fd, rx_fd, network, client, refused>>

\* The connection fails or is reset; only a client that is connecting is unblocked.
do_lwip_error ==
    /\ state \notin {"init", "error"} /\ state' = "error"
    /\ error' = "error"
    /\ Handle(IF state = "connecting" THEN <<"notify", "unblock">> ELSE <<"notify">>)
    /\ UNCHANGED <<nonblock, rings, tx_fd, rx_fd, network, client, refused>>

\* do_tcp_receive_all(): the whole segments that fit are copied, the client notified, and
\* again, until the next one does not fit.
receive ==
    /\ Server("receive")
    /\ LET Fits(j) == Sum(SubSeq(recvq, 1, j)) <= Writable(rx)
           n == CHOOSE i \in 0..Len(recvq) : Fits(i) /\ \A j \in 0..Len(recvq) : Fits(j) => j <= i
       IN /\ rx' = rx + Sum(SubSeq(recvq, 1, n))
          /\ recvq' = SubSeq(recvq, n + 1, Len(recvq))
          /\ Do(IF n > 0 THEN <<"notify", "receive">> ELSE <<>>, 0)
    /\ UNCHANGED <<nonblock, state, error, tx, tx_fd, rx_fd, unsent, tx_left, rx_left, client, refused>>

\* Mutation: the stack is given all of the ring or nothing.
transmit_whole ==
    /\ Server("transmit")
    /\ IF tx > 0 /\ tx <= SndBuf - unsent
       THEN tx' = 0 /\ unsent' = unsent + tx /\ Do(<<"unblock", "transmit">>, 0)
       ELSE Do(<<>>, 0) /\ UNCHANGED <<tx, unsent>>
    /\ UNCHANGED <<nonblock, state, error, rx, tx_fd, rx_fd, recvq, tx_left, rx_left, client, refused>>

\* Mutation: room is given back without unblocking the client.
transmit_silent ==
    /\ Server("transmit")
    /\ \/ \E n \in 1..Smaller(tx, SndBuf - unsent) :
              tx' = tx - n /\ unsent' = unsent + n /\ Do(<<"transmit">>, 0)
       \/ /\ tx = 0 \/ unsent > 0
          /\ Do(<<>>, 0)
          /\ UNCHANGED <<tx, unsent>>
    /\ UNCHANGED <<nonblock, state, error, rx, tx_fd, rx_fd, recvq, tx_left, rx_left, client, refused>>

\* do_tcp_transmit_all(): a contiguous piece goes to the stack and its room to the client,
\* and again; the stack takes nothing when it is full or its queue of segments is.
transmit ==
    /\ Server("transmit")
    /\ \/ \E n \in 1..Smaller(tx, SndBuf - unsent) :
              /\ tx' = tx - n /\ unsent' = unsent + n
              /\ Do(<<"unblock", "transmit">>, 0)
       \/ /\ tx = 0 \/ unsent > 0
          /\ Do(<<>>, 0)
          /\ UNCHANGED <<tx, unsent>>
    /\ UNCHANGED <<nonblock, state, error, rx, tx_fd, rx_fd, recvq, tx_left, rx_left, client, refused>>

\* notify() on client_fd: count(), fetch_add(), eventfd_write() and its undoing.
server_notify ==
    /\ \/ /\ Server("notify")
          /\ Do(IF count = 0 THEN <<"notify_add", "notify_write">> ELSE <<>>, 0)
          /\ UNCHANGED rx_fd
       \/ /\ Server("notify_add")
          /\ rx_fd' = [rx_fd EXCEPT !.write = (@ + 1) % W]
          /\ Do(<<>>, 0)
       \/ /\ Server("notify_write")
          /\ IF rx_fd.val + 1 <= EventfdMax
             THEN rx_fd' = [rx_fd EXCEPT !.val = @ + 1] /\ Do(<<>>, 0)
             ELSE nonblock /\ Do(<<"notify_undo">>, 0) /\ UNCHANGED rx_fd
       \/ /\ Server("notify_undo")
          /\ rx_fd' = [rx_fd EXCEPT !.write = (@ - 1) % W]
          /\ Do(<<>>, 0)
    /\ UNCHANGED <<nonblock, state, error, rings, tx_fd, network, client, refused>>

\* unblock(): a client that blocked has taken read_idx past write_idx.
unblock ==
    /\ \/ /\ Server("unblock")
          /\ Do(IF rx_fd.write < rx_fd.read THEN <<"unblock_read">> ELSE <<>>, 0)
          /\ UNCHANGED rx_fd
       \/ /\ Server("unblock_read")
          /\ IF rx_fd.val > 0
             THEN rx_fd' = [rx_fd EXCEPT !.val = 0] /\ Do(<<"unblock_sub">>, rx_fd.val)
             ELSE nonblock /\ Do(<<>>, 0) /\ UNCHANGED rx_fd
       \/ /\ Server("unblock_sub")
          /\ rx_fd' = [rx_fd EXCEPT !.write = (@ - server.k) % W]
          /\ Do(<<>>, 0)
    /\ UNCHANGED <<nonblock, state, error, rings, tx_fd, network, client, refused>>

-----------------------------------------------------------------------------
ClientSteps ==
    \/ notify \/ (Client("send") /\ send) \/ write \/ write_rest \/ full \/ block \/ block_sub \/ block_write
    \/ block_undo \/ wait_write \/ wait_sub \/ submit \/ read \/ read_rest \/ remaining
    \/ ack_wait \/ ack_add \/ undo_sub \/ undo_write
    \/ (Client("recv") /\ recv)

ServerSteps == server_ack \/ receive \/ transmit \/ server_notify \/ unblock

Next ==
    \/ send \/ connect \/ recv \/ ClientSteps
    \/ handle_io \/ do_lwip_recv \/ do_lwip_recv_eof \/ do_lwip_sent \/ do_lwip_poll
    \/ do_lwip_connected \/ do_lwip_error \/ ServerSteps

\* Both processes run; the event loop serves every descriptor that is ready and the stack
\* its timers; a handshake ends; and the peer goes on acknowledging.
Fairness ==
    /\ WF_vars(ClientSteps) /\ WF_vars(ServerSteps)
    /\ SF_vars(handle_io) /\ SF_vars(do_lwip_poll)
    /\ SF_vars(do_lwip_sent)
    /\ SF_vars(state = "connecting" /\ (do_lwip_connected \/ do_lwip_error))

Spec == Init /\ [][Next]_vars /\ Fairness

-----------------------------------------------------------------------------
TypeOK ==
    /\ nonblock \in BOOLEAN /\ refused \in BOOLEAN
    /\ state \in {"init", "connecting", "connected", "closed", "error"}
    /\ error \in {"none", "EOF", "error"}
    /\ tx \in 0..Length /\ rx \in 0..Length /\ unsent \in 0..SndBuf
    /\ tx_fd \in [count : 0..1, val : 0..1]
    /\ rx_fd \in [read : 0..(W - 1), write : 0..(W - 1), val : 0..EventfdMax]

\* What a process has done to one of the counters or to the eventfd and not yet to the other.
Pending ==
    (IF Client("block_write") \/ Client("block_undo") \/ Client("ack_add") THEN client.k
     ELSE IF Client("undo_write") THEN 1
     ELSE IF Client("wait_sub") THEN -1 ELSE 0)
    + (IF Server("notify_write") \/ Server("notify_undo") THEN 1
       ELSE IF Server("unblock_sub") THEN server.k ELSE 0)

\* The two counters of client_fd, kept by two processes, differ by the value of the eventfd
\* and by what is under way, modulo 2^64, through every block, unblock and undoing: neither
\* side ever takes the descriptor for blocked, or for quiet, for good.
FdBalance == count = (rx_fd.val + Pending) % W

\* What a client has sent reaches the stack while the connection lasts, whatever
\* notification was not sent because another was being taken.
TxDrained == nonblock /\ tx > 0 ~> tx = 0 \/ state = "error"

\* A client that was told EWOULDBLOCK by send() gets its descriptor writable again: the
\* unblock() that it needs is not the one that ran just before its block().
WriterWoken == nonblock /\ refused ~> ~refused \/ rx_fd.val < EventfdMax \/ state = "error"

\* Data that a client has not read makes its descriptor readable, although recv() may have
\* taken the notification of it; the stack's timer sees to that, once it has passed on
\* everything it had.
ReaderKicked ==
    nonblock /\ rx > 0 /\ recvq = <<>> ~> rx = 0 \/ rx_fd.val > 0 \/ recvq # <<>> \/ state = "error"

-----------------------------------------------------------------------------
(* What the developer's guide and comments say and the code does not keep. *)

BothAtRest == client.todo = <<>> /\ server.todo = <<>> /\ tx_fd.val = 0

\* "If the client has just filled up the send buffer ... and the stack hasn't read any data
\* yet, then we mark the fd as blocked" (doc/dev-guide/module-socket.md:288): a descriptor
\* that stays blocked has a ring that will be read.
BlockedMeansFull ==
    nonblock /\ state = "connected" /\ BothAtRest /\ rx_fd.val = EventfdMax => tx > 0

\* "otherwise make sure a notification remains" (client/stream_channel.cpp:261): a client
\* that is at rest has been, or will be, told of the end of file.
EofTold == BothAtRest /\ error = "EOF" => rx_fd.val > 0

\* "Client buffer has data; (re)notify" (server/tcp_socket.cpp:319), also when more data is
\* queued behind it.
FullReaderKicked == nonblock /\ rx > 0 ~> rx = 0 \/ rx_fd.val > 0 \/ state = "error"

\* "Blocking socket; wait for the socket to become writable" (client/api_client.cpp:409): a
\* connect() ends after its handshake.
ConnectReturns == Client("wait_write") /\ state = "connected" /\ tx = 0 ~> ~Client("wait_write")
=============================================================================
