---------------------------- MODULE CaptureBuffer ----------------------------
(***************************************************************************)
(* packet/capture/capture_buffer.cpp: the memory buffers that captures     *)
(* write and transfers read.  A buffer stops when it is full, or it wraps  *)
(* and drops its oldest packets.                                           *)
(*                                                                         *)
(* Memory is counted in cells.  A packet is a header of one cell and a     *)
(* payload of some cells; of a header only the length and the number of    *)
(* the packet are kept, payload cells hold nothing.  The worker that       *)
(* writes and the thread that reads are not synchronised; they interleave  *)
(* packet by packet.  Packets may be larger than the memory; in a buffer   *)
(* that wraps such a packet is the end of the behaviour.                   *)
(***************************************************************************)
EXTENDS Integers, Sequences

CONSTANTS
    Size,           \* cells of memory
    Lens,           \* lengths of captured payloads, in cells
    MaxPackets      \* bound: packets written

CaptureBufferAssumption ==
    /\ Size \in Nat \ {0} /\ MaxPackets \in Nat
    /\ Lens # {} /\ Lens \subseteq Nat \ {0}

VARIABLES
    wraps,          \* TRUE: capture_buffer_mem_wrap
    mem,            \* what is at each address: a header, or Cell
    m_write_addr,
    m_wrap_addr,    \* oldest packet of a wrapped buffer, or Null
    m_wrap_end_addr,\* end of the packets before the wrap
    m_full,
    m_stats,        \* [packets, bytes]
    overrun,        \* a packet was written that is larger than the memory
    written,        \* history: lengths of the packets in the order written
    reader,         \* capture_buffer_mem_reader, capture_buffer_mem_wrap_reader
    quiet           \* history: nothing was written since the reader's init()

vars == <<wraps, mem, m_write_addr, m_wrap_addr, m_wrap_end_addr, m_full, m_stats,
          overrun, written, reader, quiet>>

Null == -1
Hdr  == 1
Cell == [id |-> 0, len |-> 0]
total(h) == Hdr + h.len
NoPackets == [packets |-> 0, bytes |-> 0]

\* init() of the readers: where to begin and to end, taken from the buffer.
start_reader ==
    [end  |-> IF m_wrap_addr = Null THEN m_write_addr ELSE m_wrap_end_addr,
     wrap |-> IF m_wrap_addr = Null THEN Null ELSE m_write_addr,
     addr |-> IF m_wrap_addr = Null THEN 0 ELSE m_wrap_addr,
     offset |-> 0, eof |-> FALSE, got |-> <<>>]

Init ==
    /\ wraps \in BOOLEAN
    /\ mem = [a \in 0..(Size - 1) |-> Cell]
    /\ m_write_addr = 0 /\ m_wrap_addr = Null /\ m_wrap_end_addr = Null
    /\ m_full = FALSE /\ overrun = FALSE
    /\ m_stats = NoPackets
    /\ written = <<>>
    /\ reader = start_reader /\ quiet = TRUE

-----------------------------------------------------------------------------
(* Writing.                                                                *)

\* The header and the payload of a packet at an address, and the statistics.
stored(at, h) ==
    [a \in DOMAIN mem |-> IF a = at THEN h
                          ELSE IF a \in at..(at + total(h) - 1) THEN Cell ELSE mem[a]]
counted(stats, h) ==
    [packets |-> stats.packets + 1, bytes |-> stats.bytes + h.len]

\* The packets from one address on to another.
count_packets_and_bytes(from, to) ==
    LET walk[a \in 0..(2 * Size)] ==
            IF a >= to \/ a >= Size THEN NoPackets
            ELSE counted(walk[a + total(mem[a])], mem[a])
    IN  walk[from]

\* Packets are taken off the statistics.
discount(stats, gone) ==
    [packets |-> stats.packets - gone.packets, bytes |-> stats.bytes - gone.bytes]

header(len) == [id |-> Len(written) + 1, len |-> len]

\* capture_buffer_mem::write_packets: a packet that does not fit ends it.
write_mem(len) ==
    LET h == header(len) IN
    /\ ~wraps /\ ~m_full
    /\ \/ /\ m_write_addr + total(h) > Size
          /\ m_full' = TRUE
          /\ UNCHANGED <<mem, m_write_addr, m_stats, written, quiet>>
       \/ /\ m_write_addr + total(h) <= Size
          /\ mem' = stored(m_write_addr, h)
          /\ m_write_addr' = m_write_addr + total(h)
          /\ m_stats' = counted(m_stats, h)
          /\ written' = Append(written, len)
          /\ quiet' = FALSE
          /\ UNCHANGED m_full
    /\ UNCHANGED <<wraps, m_wrap_addr, m_wrap_end_addr, overrun, reader>>

\* Mutation: the space is one cell too small.
make_space_if_needed_less(write, wrap, wrap_end, required) ==
    LET stop[p \in 0..(2 * Size)] ==
            IF p - write >= required - 1 THEN p
            ELSE IF p + Hdr > wrap_end THEN Null
            ELSE stop[p + total(mem[p])]
    IN  IF write > wrap THEN [wrap |-> wrap, gone |-> NoPackets]
        ELSE IF stop[wrap] = Null
             THEN [wrap |-> 0, gone |-> count_packets_and_bytes(wrap, wrap_end)]
             ELSE [wrap |-> stop[wrap], gone |-> count_packets_and_bytes(wrap, stop[wrap])]

\* make_space_if_needed(): old packets are dropped until there is room behind
\* the write address, or none is left before the end.
make_space_if_needed(write, wrap, wrap_end, required) ==
    LET stop[p \in 0..(2 * Size)] ==
            IF p - write >= required THEN p
            ELSE IF p + Hdr > wrap_end THEN Null
            ELSE stop[p + total(mem[p])]
    IN  IF write > wrap THEN [wrap |-> wrap, gone |-> NoPackets]
        ELSE IF stop[wrap] = Null
             THEN [wrap |-> 0, gone |-> count_packets_and_bytes(wrap, wrap_end)]
             ELSE [wrap |-> stop[wrap], gone |-> count_packets_and_bytes(wrap, stop[wrap])]

\* The packets that are dropped when the write address returns to the start.
lost_at_wrap ==
    IF m_wrap_addr > 0 THEN count_packets_and_bytes(m_wrap_addr, m_wrap_end_addr)
    ELSE NoPackets

\* capture_buffer_mem_wrap::write_packets of a packet that the memory can hold.
write_wrap(len) ==
    LET h      == header(len)
        turn   == m_write_addr + total(h) > Size
        lost   == IF turn THEN lost_at_wrap ELSE NoPackets
        at     == IF turn THEN 0 ELSE m_write_addr
        end    == IF turn THEN m_write_addr ELSE m_wrap_end_addr
        space  == make_space_if_needed(at, IF turn THEN 0 ELSE m_wrap_addr, end, total(h))
    IN
    /\ wraps /\ total(h) <= Size
    /\ m_wrap_addr' = space.wrap
    /\ m_wrap_end_addr' = end
    /\ m_stats' = counted(discount(discount(m_stats, lost), space.gone), h)
    /\ mem' = stored(at, h)
    /\ m_write_addr' = at + total(h)
    /\ written' = Append(written, len)
    /\ quiet' = FALSE
    /\ UNCHANGED <<wraps, m_full, overrun, reader>>

\* The same of one that is too large, which nothing refuses: an assertion of
\* make_space_if_needed() fails, or, without assertions, memory behind the buffer is
\* overwritten.
write_too_large(len) ==
    /\ wraps /\ total(header(len)) > Size
    /\ overrun' = TRUE
    /\ UNCHANGED <<wraps, mem, m_write_addr, m_wrap_addr, m_wrap_end_addr, m_full, m_stats,
                   written, reader, quiet>>

write_packets ==
    /\ Len(written) < MaxPackets
    /\ \E len \in Lens : write_mem(len) \/ write_wrap(len) \/ write_too_large(len)

-----------------------------------------------------------------------------
(* Reading.                                                                *)

\* create_reader(), rewind().
rewind ==
    /\ reader' = start_reader /\ quiet' = TRUE
    /\ UNCHANGED <<wraps, mem, m_write_addr, m_wrap_addr, m_wrap_end_addr, m_full,
                   m_stats, overrun, written>>

\* The header at the reader's address ends before the limit.
hdr_before(limit) == reader.addr + Hdr <= limit

\* Behind the last packet before the wrap.
at_turn == reader.wrap # Null /\ reader.addr >= reader.wrap /\ ~hdr_before(reader.end)

\* The reader has read everything.
at_eof ==
    \/ reader.wrap = Null /\ ~hdr_before(reader.end)
    \/ reader.wrap # Null /\ reader.addr < reader.wrap /\ ~hdr_before(reader.wrap)
    \/ reader.addr = reader.wrap /\ reader.offset # 0

\* One turn of the loop of read_packets().  The header may be anything by now.
read_packets ==
    LET limit == IF reader.wrap # Null /\ reader.addr < reader.wrap
                 THEN reader.wrap ELSE reader.end
        h == mem[reader.addr]
    IN
    /\ ~reader.eof
    /\ reader' =
          IF at_eof THEN [reader EXCEPT !.eof = TRUE]
          ELSE IF at_turn THEN [reader EXCEPT !.addr = 0]
          ELSE IF reader.addr + total(h) > limit THEN [reader EXCEPT !.eof = TRUE]
          ELSE [reader EXCEPT !.addr = @ + total(h), !.offset = @ + h.len,
                              !.got = Append(@, h.id)]
    /\ UNCHANGED <<wraps, mem, m_write_addr, m_wrap_addr, m_wrap_end_addr, m_full,
                   m_stats, overrun, written, quiet>>

\* The process is gone, or nothing is known of it.
ended == overrun /\ UNCHANGED vars

Next == ended \/ (~overrun /\ (write_packets \/ rewind \/ read_packets))

Spec == Init /\ [][Next]_vars

-----------------------------------------------------------------------------
(* Properties.                                                             *)

\* Every variable has its type.
TypeOK ==
    /\ {wraps, m_full, overrun, quiet} \subseteq BOOLEAN
    /\ \A a \in DOMAIN mem : mem[a].id \in 0..MaxPackets /\ mem[a].len \in Lens \cup {0}
    /\ m_write_addr \in 0..Size
    /\ m_wrap_addr \in {Null} \cup 0..Size /\ m_wrap_end_addr \in {Null} \cup 0..Size
    /\ written \in Seq(Lens) /\ Len(written) <= MaxPackets

\* The newest packets, as many as the statistics say.
newest == [i \in 1..m_stats.packets |-> Len(written) - m_stats.packets + i]

\* The bytes of the first packets.
volume[n \in 0..Len(written)] == IF n = 0 THEN 0 ELSE volume[n - 1] + written[n]

\* However often the buffer has wrapped, a reader that is not disturbed gets
\* exactly the newest packets, in the order in which they were written; the
\* statistics of the buffer count these packets and their bytes, and none is
\* dropped by a buffer that does not wrap.
ReadsNewest ==
    quiet =>
        /\ \A i \in DOMAIN reader.got : i <= m_stats.packets /\ reader.got[i] = newest[i]
        /\ reader.eof => reader.got = newest
        /\ m_stats.bytes = volume[Len(written)] - volume[Len(written) - m_stats.packets]
        /\ ~wraps => m_stats.packets = Len(written)

\* A reader of a buffer that does not wrap gets packets in order while the worker
\* goes on writing.
LiveReadsOrdered ==
    ~wraps => reader.got = [i \in DOMAIN reader.got |-> i]

\* The same for a buffer that wraps.
LiveWrapReadsOrdered ==
    \A i, j \in DOMAIN reader.got : i < j => reader.got[i] < reader.got[j]

\* capture_buffer.cpp:306, "assert(available_size >= required_size)": when all old
\* packets are dropped there is room for the new one.
RoomAtEnd == ~overrun
=============================================================================
