--------------------------- MODULE CircularBuffer ---------------------------
(***************************************************************************)
(* The ring of bytes in shared memory between a client process and the     *)
(* socket server: circular_buffer_producer.tcc and _consumer.tcc.  Each    *)
(* side stores one index and loads the other; indexes run over twice the   *)
(* length so that a full ring differs from an empty one.  A call loads the *)
(* other side's index, copies, and stores its own: three steps, between    *)
(* which the other process may run.                                        *)
(***************************************************************************)
EXTENDS Integers, Sequences, FiniteSetsExt

CONSTANTS
    Length,     \* len(), a multiple of Align
    Align,      \* writable_alignment + 1
    MaxIov,     \* bound on the lengths of the vectors passed to a call
    Marks       \* bytes are told apart by their stream position modulo Marks

RingAssumption ==
    /\ Length \in Nat \ {0} /\ Align \in Nat \ {0} /\ MaxIov \in Nat \ {0}
    /\ Marks \in Nat \ {0} /\ Length % Align = 0

VARIABLES
    base,           \* the cells of the ring
    read_idx, write_idx,
    producer,       \* the producer's call: step, cursor, bytes to copy, bytes left for later
    consumer,       \* the consumer's call: step, cursor, bytes to copy, bytes left for later
    sent,           \* stream position of the next byte the producer is given
    got             \* the bytes the consumer's last call returned

vars == <<base, read_idx, write_idx, producer, consumer, sent, got>>

Indexes == 0..(2 * Length - 1)
Cells == 0..(Length - 1)
Byte == 0..(Marks - 1)
Idle == [pc |-> "idle", n |-> 0, rest |-> 0]
Waiting == [pc |-> "idle", n |-> 0, rest |-> 0, data |-> <<>>]

Smaller(a, b) == IF a < b THEN a ELSE b

mask(idx) == IF idx < Length THEN idx ELSE idx - Length

\* store_write and store_read keep an index below twice the length.
stored(idx) == IF idx < 2 * Length THEN idx ELSE idx - 2 * Length

\* Free bytes, rounded down to the alignment.
writable_unaligned(r, w) == IF r <= w THEN Length - w + r ELSE r - w - Length

writable(r, w) == LET available == writable_unaligned(r, w) IN available - (available % Align)

readable(r, w) == IF r <= w THEN w - r ELSE 2 * Length + w - r

\* The cells of n bytes from an index on: up to the end, then from the front.
Span(idx, n) == [i \in 1..n |-> IF i <= Length - mask(idx) THEN mask(idx) + i - 1
                                ELSE i - 1 - (Length - mask(idx))]

\* What those cells hold.
Bytes(idx, n) == [i \in 1..n |-> base[Span(idx, n)[i]]]

TypeOK ==
    /\ base \in [Cells -> Byte]
    /\ read_idx \in Indexes /\ write_idx \in Indexes
    /\ producer \in [pc : {"idle", "copy", "store"}, n : 0..Length, rest : 0..Length]
    /\ consumer \in [pc : {"idle", "copy", "store"}, n : 0..Length, rest : 0..Length, data : Seq(Byte)]
    /\ sent \in Byte /\ got \in Seq(Byte)

Init ==
    /\ base = [c \in Cells |-> 0]
    /\ read_idx = 0 /\ write_idx = 0
    /\ producer = Idle /\ consumer = Waiting
    /\ sent = 0 /\ got = <<>>

-----------------------------------------------------------------------------
\* write(ptr, length): what fits of one piece of memory.
write(length) ==
    LET to_write == Smaller(writable(read_idx, write_idx), length)
    IN /\ producer.pc = "idle"
       /\ to_write > 0
       /\ producer' = [pc |-> "copy", n |-> to_write, rest |-> 0]
       /\ UNCHANGED <<base, read_idx, write_idx, consumer, sent, got>>

\* The whole vectors, in order, that fit into the bytes available.
WholeVectors(iov, to_write) ==
    LET Total(k) == LET F[i \in 0..k] == IF i = 0 THEN 0 ELSE F[i - 1] + iov[i] IN F[k]
    IN Max({Total(k) : k \in {j \in 0..Len(iov) : Total(j) <= to_write}})

\* write(iov, iovcnt): no vector is copied in part.
write_iov(iov) ==
    LET to_write == WholeVectors(iov, writable(read_idx, write_idx))
    IN /\ producer.pc = "idle"
       /\ to_write > 0
       /\ producer' = [pc |-> "copy", n |-> to_write, rest |-> 0]
       /\ UNCHANGED <<base, read_idx, write_idx, consumer, sent, got>>

\* write_and_notify: up to half of the ring first, so that the consumer can start, then the
\* rest. hiwat is unsigned: below half of the ring there is no limit.
write_and_notify(length) ==
    LET available == writable(read_idx, write_idx)
        to_write  == Smaller(available, length)
        hiwat     == available - Length \div 2
        chunk1    == IF hiwat < 0 THEN to_write ELSE Smaller(to_write, hiwat)
    IN /\ producer.pc = "idle"
       /\ to_write > 0
       /\ producer' = IF chunk1 = 0 THEN [pc |-> "copy", n |-> to_write, rest |-> 0]
                      ELSE [pc |-> "copy", n |-> chunk1, rest |-> to_write - chunk1]
       /\ UNCHANGED <<base, read_idx, write_idx, consumer, sent, got>>

\* Both copies of a write: before the wrap and after it.
copy_in ==
    /\ producer.pc = "copy"
    /\ LET cells == Span(write_idx, producer.n)
       IN base' = [c \in Cells |-> IF \E i \in 1..producer.n : cells[i] = c
                                   THEN (sent + (CHOOSE i \in 1..producer.n : cells[i] = c) - 1) % Marks
                                   ELSE base[c]]
    /\ producer' = [producer EXCEPT !.pc = "store"]
    /\ UNCHANGED <<read_idx, write_idx, consumer, sent, got>>

\* store_write; the second write of write_and_notify asks for room again.
store_write ==
    /\ producer.pc = "store"
    /\ write_idx' = stored(write_idx + producer.n)
    /\ sent' = (sent + producer.n) % Marks
    /\ LET again == Smaller(writable(read_idx, write_idx'), producer.rest)
       IN producer' = IF again = 0 THEN Idle ELSE [pc |-> "copy", n |-> again, rest |-> 0]
    /\ UNCHANGED <<base, read_idx, consumer, got>>

-----------------------------------------------------------------------------
\* read(ptr, length) is pread at offset 0, then drop of what was read.
read(length) ==
    LET to_read == Smaller(readable(read_idx, write_idx), length)
    IN /\ consumer.pc = "idle"
       /\ to_read > 0
       /\ consumer' = [Waiting EXCEPT !.pc = "copy", !.n = to_read]
       /\ UNCHANGED <<base, read_idx, write_idx, producer, sent, got>>

\* read_and_notify reads in two parts; where they divide is fixed by the fill of the ring
\* when the process first came here (lowat is static), so it can be anywhere.
read_and_notify(length) ==
    LET to_read == Smaller(readable(read_idx, write_idx), length)
    IN /\ consumer.pc = "idle"
       /\ \E chunk1 \in 1..to_read :
              consumer' = [Waiting EXCEPT !.pc = "copy", !.n = chunk1, !.rest = to_read - chunk1]
       /\ UNCHANGED <<base, read_idx, write_idx, producer, sent, got>>

\* peek() returns the bytes up to the end of the ring (its caller looks no further); the
\* caller uses them in place and drops what it used.
peek(used) ==
    LET chunk1 == Smaller(readable(read_idx, write_idx), Length - mask(read_idx))
    IN /\ consumer.pc = "idle"
       /\ used \in 1..chunk1
       /\ consumer' = [Waiting EXCEPT !.pc = "copy", !.n = used]
       /\ UNCHANGED <<base, read_idx, write_idx, producer, sent, got>>

\* Mutation: the room is given back before the bytes are copied.
copy_out_late ==
    /\ consumer.pc = "copy"
    /\ consumer' = [consumer EXCEPT !.pc = "store"]
    /\ UNCHANGED <<base, read_idx, write_idx, producer, sent, got>>

\* pread, or the use of the bytes in place.
copy_out ==
    /\ consumer.pc = "copy"
    /\ consumer' = [consumer EXCEPT !.pc = "store", !.data = Bytes(read_idx, consumer.n)]
    /\ UNCHANGED <<base, read_idx, write_idx, producer, sent, got>>

\* drop: store_read. What was left of read_and_notify is read next.
drop ==
    /\ consumer.pc = "store"
    /\ read_idx' = stored(read_idx + consumer.n)
    /\ got' = consumer.data
    /\ LET again == Smaller(readable(read_idx', write_idx), consumer.rest)
       IN consumer' = IF again = 0 THEN Waiting
                      ELSE [Waiting EXCEPT !.pc = "copy", !.n = again]
    /\ UNCHANGED <<base, write_idx, producer, sent>>

-----------------------------------------------------------------------------
Vectors == UNION {[1..k -> 1..MaxIov] : k \in 1..2}

Produce ==
    \/ \E length \in 1..Length : write(length) \/ write_and_notify(length)
    \/ \E iov \in Vectors : write_iov(iov)
    \/ copy_in
    \/ store_write

Consume ==
    \/ \E length \in 1..Length : read(length) \/ read_and_notify(length) \/ peek(length)
    \/ copy_out
    \/ drop

Next == Produce \/ Consume

Spec == Init /\ [][Next]_vars

-----------------------------------------------------------------------------
\* The ring is a stream: whatever the two processes do between each other's loads and
\* stores, the bytes come out of it once, in order and unchanged, and it never takes more
\* than its length.
Stream == INSTANCE ByteStream WITH
    Capacity <- Length,
    queue <- Bytes(read_idx, readable(read_idx, write_idx)),
    delivered <- got

RingFifo == Stream!Spec

\* No cell is copied into by one process while the other copies out of it: there is no
\* data race on the memory that the two share without a lock.
NoOverlap ==
    producer.pc = "copy" /\ consumer.pc = "copy" =>
        \A i \in 1..producer.n, j \in 1..consumer.n :
            Span(write_idx, producer.n)[i] # Span(read_idx, consumer.n)[j]
=============================================================================
