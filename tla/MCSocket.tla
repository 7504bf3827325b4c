------------------------------ MODULE MCSocket ------------------------------
(* A stream socket between a client and the server, and by itself the ring  *)
(* that carries its bytes, whose copies StreamChannel takes as one step.    *)
EXTENDS MCStreamChannel

CONSTANTS RingLength, RingAlign, MaxIov, Marks      \* of the ring

VARIABLES
    part,       \* the component that takes steps
    base, read_idx, write_idx, producer, consumer, sent, got

Ring == INSTANCE CircularBuffer WITH
    Length <- RingLength, Align <- RingAlign

ASSUME SocketAssumption == Ring!RingAssumption

ringVars == <<base, read_idx, write_idx, producer, consumer, sent, got>>
all == <<part, vars, ringVars>>

MCInit ==
    /\ part \in {"stream", "ring"} /\ Init /\ Ring!Init
    /\ part = "ring" => nonblock /\ tx_left > rx_left

MCNext ==
    /\ \/ part = "stream" /\ Next /\ UNCHANGED ringVars
       \/ part = "ring" /\ Ring!Next /\ UNCHANGED vars
    /\ UNCHANGED part

MCSpec == MCInit /\ [][MCNext]_all /\ Fairness

\* The ring refines a stream of bytes: what is read is what was written, in the
\* order it was written, and never more than fits (circular_buffer_*.tcc).
RingFifo == Ring!RingFifo

\* A writer that was refused, and a reader that has something to read, are woken
\* again (client/stream_channel.cpp, server/tcp_socket.cpp).
Woken == WriterWoken /\ ReaderKicked
=============================================================================
