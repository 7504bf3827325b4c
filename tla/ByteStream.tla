----------------------------- MODULE ByteStream -----------------------------
(***************************************************************************)
(* What a stream channel promises in each direction: the bytes written     *)
(* come out once, in order and unchanged, and never more than Capacity of  *)
(* them are on their way.  Bytes are told apart by their position in the   *)
(* stream, modulo Marks.                                                   *)
(***************************************************************************)
EXTENDS Naturals, Sequences

CONSTANTS Capacity, Marks

VARIABLES
    sent,       \* position of the next byte to be written
    delivered,  \* the bytes the last reader got
    queue       \* the bytes on their way

vars == <<sent, delivered, queue>>

\* n bytes of the stream from position p on.
Bytes(p, n) == [i \in 1..n |-> (p + i - 1) % Marks]

Init == sent = 0 /\ delivered = <<>> /\ queue = <<>>

Put(n) ==
    /\ Len(queue) + n <= Capacity
    /\ queue' = queue \o Bytes(sent, n)
    /\ sent' = (sent + n) % Marks
    /\ UNCHANGED delivered

Take(n) ==
    /\ n <= Len(queue)
    /\ queue' = SubSeq(queue, n + 1, Len(queue))
    /\ delivered' = SubSeq(queue, 1, n)
    /\ UNCHANGED sent

Next == \E n \in 1..Capacity : Put(n) \/ Take(n)

Spec == Init /\ [][Next]_vars
=============================================================================
