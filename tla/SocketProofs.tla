---------------------------- MODULE SocketProofs -----------------------------
(***************************************************************************)
(* Proofs about the ring of bytes, for every length, and about the stream  *)
(* channel's eventfd, for every width of its counters.                     *)
(***************************************************************************)
EXTENDS MCSocket, SequenceTheorems, WellFoundedInduction, TLAPS

-----------------------------------------------------------------------------
(* Numbers.                                                                *)

\* Dividing by n: what lies below n, above it, or below zero.
LEMMA Remainder ==
    ASSUME NEW n \in Nat \ {0}, NEW x \in Int
    PROVE  /\ x % n \in 0..(n - 1)
           /\ x \in 0..(n - 1) => x % n = x
           /\ x \in n..(2 * n - 1) => x % n = x - n
           /\ x \in (2 * n)..(3 * n - 1) => x % n = x - 2 * n
           /\ x \in (-n)..(-1) => x % n = x + n
<1> DEFINE q == x \div n
           r == x % n
<1>1. x = n * q + r /\ q \in Int /\ r \in 0..(n - 1)
  OBVIOUS
<1> HIDE DEF q, r
<1>2. \A k \in Int : q <= k - 1 => n * q <= n * k - n
  <2> TAKE k \in Int
  <2> HAVE q <= k - 1
  <2>1. n * q <= n * (k - 1) /\ n * (k - 1) = n * k - n
    BY <1>1
  <2> QED BY <2>1
<1>3. \A k \in Int : q >= k + 1 => n * q >= n * k + n
  <2> TAKE k \in Int
  <2> HAVE q >= k + 1
  <2>1. n * q >= n * (k + 1) /\ n * (k + 1) = n * k + n
    BY <1>1
  <2> QED BY <2>1
<1>4. n * q \in Int /\ n * 0 = 0 /\ n * 1 = n /\ n * 2 = 2 * n /\ n * (-1) = -n
  BY <1>1
<1>5. ASSUME NEW k \in Int, n * k \in Int, x - n * k \in 0..(n - 1) PROVE r = x - n * k
  <2>1. ~(q <= k - 1)
    BY <1>1, <1>2, <1>4, <1>5
  <2>2. ~(q >= k + 1)
    BY <1>1, <1>3, <1>4, <1>5
  <2>3. q = k
    BY <1>1, <2>1, <2>2
  <2> QED BY <1>1, <2>3
<1>6. ASSUME x \in 0..(n - 1) PROVE r = x
  <2>1. n * 0 \in Int /\ x - n * 0 = x /\ 0 \in Int
    BY <1>4
  <2> QED BY <1>5, <1>6, <2>1
<1>7. x \in n..(2 * n - 1) => r = x - n
  BY <1>4, <1>5
<1>8. ASSUME x \in (2 * n)..(3 * n - 1) PROVE r = x - 2 * n
  <2>1. n * 2 \in Int /\ x - n * 2 = x - 2 * n /\ x - 2 * n \in 0..(n - 1)
    BY <1>4, <1>8
  <2> QED BY <1>5, <2>1
<1>9. ASSUME x \in (-n)..(-1) PROVE r = x + n
  <2>1. n * (-1) \in Int /\ x - n * (-1) = x + n /\ x + n \in 0..(n - 1)
    BY <1>4, <1>9
  <2> QED BY <1>5, <2>1
<1> QED BY <1>1, <1>6, <1>7, <1>8, <1>9 DEF r

\* A set of numbers has a least one.
LEMMA LeastNumber ==
    ASSUME NEW T, T \subseteq Nat, T # {}
    PROVE  \E x \in T : \A y \in T : x <= y
<1>1. PICK x \in T : \A y \in T : <<y, x>> \notin OpToRel(<, Nat)
  BY NatLessThanWellFounded, WFMin, Zenon
<1>2. \A y \in T : ~(y < x)
  BY <1>1 DEF OpToRel
<1> QED BY <1>2

-----------------------------------------------------------------------------
(* The ring.                                                               *)

\* Bytes in the ring.
used == Ring!readable(read_idx, write_idx)

\* The cell of the i-th byte from an index on.
cell(idx, i) ==
    IF i <= RingLength - Ring!mask(idx) THEN Ring!mask(idx) + i - 1
    ELSE i - 1 - (RingLength - Ring!mask(idx))

\* Types.
RingTypes ==
    /\ base \in [Ring!Cells -> Ring!Byte]
    /\ read_idx \in Ring!Indexes /\ write_idx \in Ring!Indexes
    /\ producer \in [pc : {"idle", "copy", "store"}, n : 0..RingLength, rest : 0..RingLength]
    /\ consumer \in [pc : {"idle", "copy", "store"}, n : 0..RingLength, rest : 0..RingLength,
                     data : Seq(Ring!Byte)]
    /\ sent \in Ring!Byte /\ got \in Seq(Ring!Byte)

\* The producer writes into free cells, and what it has copied stays there until it
\* has stored its index.
Producing ==
    /\ producer.pc # "idle" => producer.n >= 1 /\ used + producer.n <= RingLength
    /\ producer.pc = "store" =>
          \A i \in 1..producer.n : base[cell(write_idx, i)] = (sent + i - 1) % Marks

\* The consumer reads cells in use, and what it has copied is still there.
Consuming ==
    /\ consumer.pc # "idle" => consumer.n >= 1 /\ consumer.n <= used
    /\ consumer.pc = "store" => consumer.data = Ring!Bytes(read_idx, consumer.n)

RingInv == RingTypes /\ used <= RingLength /\ Producing /\ Consuming

\* The assumptions on the ring.
LEMMA RingConstants ==
    /\ RingLength \in Nat \ {0} /\ RingAlign \in Nat \ {0} /\ MaxIov \in Nat \ {0}
    /\ Marks \in Nat \ {0}
BY SocketAssumption DEF Ring!RingAssumption

\* The cells of as many bytes as the ring has are its cells, each once.
LEMMA CellsDiffer ==
    ASSUME NEW idx \in Ring!Indexes
    PROVE  /\ \A i \in 1..RingLength : cell(idx, i) \in Ring!Cells
           /\ \A i, j \in 1..RingLength : cell(idx, i) = cell(idx, j) => i = j
BY RingConstants DEF cell, Ring!mask, Ring!Cells, Ring!Indexes

\* The cells from a later index on.
LEMMA CellsLater ==
    ASSUME NEW idx \in Ring!Indexes, NEW n \in 0..RingLength
    PROVE  /\ Ring!stored(idx + n) \in Ring!Indexes
           /\ \A i \in 1..RingLength : n + i <= RingLength =>
                 cell(Ring!stored(idx + n), i) = cell(idx, n + i)
BY RingConstants DEF cell, Ring!mask, Ring!Cells, Ring!Indexes, Ring!stored

\* Where the bytes end, and how many they are when one of the indexes moves.
LEMMA BytesUsed ==
    ASSUME NEW r \in Ring!Indexes, NEW w \in Ring!Indexes
    PROVE  /\ Ring!readable(r, w) \in Nat
           /\ Ring!readable(r, w) <= RingLength =>
                /\ w = Ring!stored(r + Ring!readable(r, w))
                /\ \A n \in 0..RingLength : Ring!readable(r, w) + n <= RingLength =>
                      Ring!readable(r, Ring!stored(w + n)) = Ring!readable(r, w) + n
                /\ \A n \in 0..RingLength : n <= Ring!readable(r, w) =>
                      Ring!readable(Ring!stored(r + n), w) = Ring!readable(r, w) - n
BY RingConstants DEF Ring!Indexes, Ring!readable, Ring!stored

\* There is never more room than free cells.
LEMMA RoomFree ==
    ASSUME NEW r \in Ring!Indexes, NEW w \in Ring!Indexes, Ring!readable(r, w) <= RingLength
    PROVE  Ring!writable(r, w) \in 0..(RingLength - Ring!readable(r, w))
<1> DEFINE a == Ring!writable_unaligned(r, w)
<1>1. a = RingLength - Ring!readable(r, w) /\ a \in Nat
  BY RingConstants DEF Ring!Indexes, Ring!readable, Ring!writable_unaligned
<1>2. Ring!writable(r, w) = a - (a % RingAlign)
  BY DEF Ring!writable
<1> HIDE DEF a
<1>3. a % RingAlign \in 0..a
  <2>1. /\ a % RingAlign \in 0..(RingAlign - 1)
        /\ a \in 0..(RingAlign - 1) => a % RingAlign = a
    <3>1. RingAlign \in Nat \ {0} /\ a \in Int
      BY <1>1, RingConstants
    <3> QED BY <3>1, Remainder
  <2> QED BY <1>1, <2>1, RingConstants
<1> QED BY <1>1, <1>2, <1>3

\* The bytes that the ring holds from an index on.
LEMMA BytesHeld ==
    ASSUME RingTypes, NEW idx \in Ring!Indexes, NEW n \in 0..RingLength
    PROVE  /\ Ring!Bytes(idx, n) = [i \in 1..n |-> base[cell(idx, i)]]
           /\ Ring!Bytes(idx, n) \in Seq(Ring!Byte) /\ Len(Ring!Bytes(idx, n)) = n
<1>1. \A i \in 1..n : Ring!Span(idx, n)[i] = cell(idx, i)
  BY DEF Ring!Span, cell
<1>2. Ring!Bytes(idx, n) = [i \in 1..n |-> base[cell(idx, i)]]
  BY <1>1 DEF Ring!Bytes
<1>3. n \in Nat /\ \A i \in 1..n : i \in 1..RingLength
  BY RingConstants
<1>4. \A i \in 1..n : base[cell(idx, i)] \in Ring!Byte
  BY <1>3, CellsDiffer DEF RingTypes
<1> QED BY <1>2, <1>3, <1>4

\* The total of the first k vectors.
total(iov, k) == LET F[i \in 0..k] == IF i = 0 THEN 0 ELSE F[i - 1] + iov[i] IN F[k]

\* It is a number.
LEMMA TotalNumber ==
    ASSUME NEW iov \in Ring!Vectors, NEW k \in 0..Len(iov) PROVE total(iov, k) \in Nat
<1> DEFINE T(f, i) == IF i = 0 THEN 0 ELSE f[i - 1] + iov[i]
           F == CHOOSE f : f = [i \in 0..k |-> T(f, i)]
<1>1. Len(iov) \in 1..2 /\ \A i \in 1..Len(iov) : iov[i] \in Nat
  <2>1. PICK n \in 1..2 : iov \in [1..n -> 1..MaxIov]
    BY DEF Ring!Vectors
  <2>2. Len(iov) = n
    BY <2>1
  <2> QED BY <2>1, <2>2, RingConstants
<1>2. \E f : f = [i \in 0..k |-> T(f, i)]
  <2> DEFINE g == [i \in 0..k |-> IF i = 0 THEN 0 ELSE IF i = 1 THEN iov[1] ELSE iov[1] + iov[2]]
  <2>1. \A i \in 0..k : i = 0 \/ i = 1 \/ i = 2
    BY <1>1
  <2>2. \A i \in 0..k : g[i] = T(g, i)
    <3> TAKE i \in 0..k
    <3>1. CASE i = 0
      BY <3>1
    <3>2. CASE i = 1
      <4>1. iov[1] \in Nat /\ 0 \in 0..k
        BY <1>1, <3>2
      <4> QED BY <3>2, <4>1
    <3>3. CASE i = 2
      <4>1. 1 \in 0..k
        BY <1>1, <3>3
      <4> QED BY <3>3, <4>1
    <3> QED BY <2>1, <3>1, <3>2, <3>3
  <2>3. g = [i \in 0..k |-> T(g, i)]
    BY <2>2
  <2> QED BY <2>3
<1>3. F = [i \in 0..k |-> T(F, i)]
  BY <1>2
<1>4. total(iov, k) = F[k]
  BY DEF total
<1> HIDE DEF F
<1>5. k \in 0..2 /\ F[0] = 0
  BY <1>1, <1>3
<1>6. k >= 1 => F[1] = iov[1] /\ iov[1] \in Nat
  BY <1>1, <1>3, <1>5
<1>7. k = 2 => F[2] = F[1] + iov[2] /\ iov[2] \in Nat
  BY <1>1, <1>3, <1>5
<1> QED BY <1>4, <1>5, <1>6, <1>7

\* The vectors that are copied fit.
LEMMA VectorsFit ==
    ASSUME NEW iov \in Ring!Vectors, NEW room \in Nat
    PROVE  Ring!WholeVectors(iov, room) \in 0..room
<1> DEFINE S == {total(iov, k) : k \in {j \in 0..Len(iov) : total(iov, j) <= room}}
<1>1. Ring!WholeVectors(iov, room) = Ring!Max(S)
  BY DEF Ring!WholeVectors, total
<1>2. S \subseteq 0..room
  BY TotalNumber
<1>3. S # {}
  <2>1. Len(iov) \in Nat
    <3>1. PICK n \in 1..2 : iov \in [1..n -> 1..MaxIov]
      BY DEF Ring!Vectors
    <3> QED BY <3>1
  <2>2. total(iov, 0) = 0
    <3> DEFINE T(f, i) == IF i = 0 THEN 0 ELSE f[i - 1] + iov[i]
               F == CHOOSE f : f = [i \in 0..0 |-> T(f, i)]
               g == [i \in 0..0 |-> 0]
    <3>1. \A i \in 0..0 : T(g, i) = 0
      OBVIOUS
    <3>2. g = [i \in 0..0 |-> T(g, i)]
      BY <3>1
    <3>3. \E f : f = [i \in 0..0 |-> T(f, i)]
      BY <3>2
    <3>4. F = [i \in 0..0 |-> T(F, i)]
      BY <3>3
    <3>5. total(iov, 0) = F[0]
      BY DEF total
    <3> HIDE DEF F
    <3>6. 0 \in 0..0
      OBVIOUS
    <3>7. F[0] = T(F, 0)
      BY <3>4, <3>6
    <3> QED BY <3>5, <3>7
  <2> QED BY <2>1, <2>2
<1> HIDE DEF S
<1>4. \E x \in S : \A y \in S : x >= y
  <2> DEFINE D == {room - x : x \in S}
  <2>1. \A x \in S : x \in Nat /\ room - x \in Nat
    BY <1>2
  <2>2. D \subseteq Nat
    BY <2>1
  <2>3. D # {}
    <3>1. PICK x \in S : TRUE
      BY <1>3
    <3>2. room - x \in D
      BY <3>1
    <3> QED BY <3>2
  <2>4. PICK d \in D : \A e \in D : d <= e
    BY <2>2, <2>3, LeastNumber
  <2>5. PICK x \in S : d = room - x
    BY <2>4
  <2>6. \A y \in S : room - x <= room - y
    BY <2>4, <2>5
  <2>7. \A y \in S : x >= y
    BY <2>1, <2>6
  <2> QED BY <2>7
<1>5. Ring!Max(S) \in S
  BY <1>4 DEF Ring!Max
<1> QED BY <1>1, <1>2, <1>5

\* The bytes on their way.
inRing == Ring!Bytes(read_idx, used)

\* The cells of a span.
LEMMA SpanCells ==
    ASSUME NEW idx, NEW n PROVE Ring!Span(idx, n) = [i \in 1..n |-> cell(idx, i)]
BY DEF Ring!Span, cell

\* The bytes on their way before and after a step.
LEMMA InRing ==
    /\ inRing = [i \in 1..used |-> base[cell(read_idx, i)]]
    /\ inRing' = [i \in 1..used' |-> base'[cell(read_idx', i)]]
<1>1. Ring!Span(read_idx, used) = [i \in 1..used |-> cell(read_idx, i)]
  BY SpanCells
<1>2. Ring!Span(read_idx', used') = [i \in 1..used' |-> cell(read_idx', i)]
  BY SpanCells
<1>3. inRing = [i \in 1..used |-> base[cell(read_idx, i)]]
  BY <1>1 DEF inRing, Ring!Bytes
<1>4. inRing' = [i \in 1..used' |-> base'[cell(read_idx', i)]]
  BY <1>2 DEF inRing, Ring!Bytes
<1> QED BY <1>3, <1>4

\* Types and numbers that every step of the ring needs.
LEMMA RingFacts ==
    ASSUME RingInv
    PROVE  /\ read_idx \in Ring!Indexes /\ write_idx \in Ring!Indexes
           /\ used \in 0..RingLength
           /\ Ring!readable(read_idx, write_idx) \in 0..RingLength
           /\ Ring!writable(read_idx, write_idx) \in 0..(RingLength - used)
           /\ producer.n \in 0..RingLength /\ producer.rest \in 0..RingLength
           /\ consumer.n \in 0..RingLength /\ consumer.rest \in 0..RingLength
<1>1. read_idx \in Ring!Indexes /\ write_idx \in Ring!Indexes
  BY DEF RingInv, RingTypes
<1>2. Ring!readable(read_idx, write_idx) \in Nat /\ used <= RingLength
  BY <1>1, BytesUsed DEF RingInv
<1>3. used \in 0..RingLength
  BY <1>2, RingConstants DEF used
<1>4. Ring!writable(read_idx, write_idx) \in 0..(RingLength - used)
  BY <1>1, <1>2, RoomFree DEF used
<1>5. /\ producer.n \in 0..RingLength /\ producer.rest \in 0..RingLength
      /\ consumer.n \in 0..RingLength /\ consumer.rest \in 0..RingLength
  BY DEF RingInv, RingTypes
<1> QED BY <1>1, <1>3, <1>4, <1>5 DEF used

\* An empty ring.
LEMMA RingStarts ==
    ASSUME Ring!Init PROVE RingInv /\ Ring!Stream!Init
<1>1. used = 0
  BY DEF Ring!Init, used, Ring!readable
<1>2. RingTypes
  <2>1. 0 \in Ring!Indexes /\ 0 \in Ring!Byte /\ 0 \in 0..RingLength
    BY RingConstants DEF Ring!Indexes, Ring!Byte
  <2>2. <<>> \in Seq(Ring!Byte)
    OBVIOUS
  <2> QED BY <2>1, <2>2 DEF Ring!Init, RingTypes, Ring!Idle, Ring!Waiting
<1>3. Producing /\ Consuming
  BY DEF Ring!Init, Producing, Consuming, Ring!Idle, Ring!Waiting
<1>4. inRing = <<>>
  <2>1. inRing = [i \in 1..0 |-> base[cell(read_idx, i)]]
    BY <1>1, InRing
  <2>2. inRing \in Seq({}) /\ Len(inRing) = 0
    BY <2>1
  <2> QED BY <2>2
<1>5. Ring!Stream!Init
  BY <1>4 DEF Ring!Init, Ring!Stream!Init, inRing, used
<1> QED BY <1>1, <1>2, <1>3, <1>5, RingConstants DEF RingInv

\* A call that loads the other side's index and has not copied yet: the bytes on their
\* way are what they were.
LEMMA LoadKeeps ==
    ASSUME RingInv, UNCHANGED <<base, read_idx, write_idx, sent, got>>
    PROVE  UNCHANGED Ring!Stream!vars /\ used' = used
BY DEF Ring!Stream!vars, Ring!Bytes, used

\* A write begins within the room there is.
LEMMA WriteBegins ==
    ASSUME RingInv, NEW n \in 1..Ring!writable(read_idx, write_idx), NEW rest \in 0..RingLength,
           producer' = [pc |-> "copy", n |-> n, rest |-> rest],
           UNCHANGED <<base, read_idx, write_idx, consumer, sent, got>>
    PROVE  RingInv' /\ UNCHANGED Ring!Stream!vars
<1>1. n \in 1..RingLength /\ used + n <= RingLength
  BY RingFacts, RingConstants
<1>2. UNCHANGED Ring!Stream!vars /\ used' = used
  BY LoadKeeps
<1>3. RingTypes'
  BY <1>1 DEF RingInv, RingTypes
<1>4. Producing'
  BY <1>1, <1>2 DEF Producing
<1>5. Consuming'
  BY <1>2 DEF RingInv, Consuming, Ring!Bytes
<1> QED BY <1>2, <1>3, <1>4, <1>5 DEF RingInv

\* A read begins within the bytes there are.
LEMMA ReadBegins ==
    ASSUME RingInv, NEW n \in 1..used, NEW rest \in 0..RingLength,
           consumer' = [pc |-> "copy", n |-> n, rest |-> rest, data |-> <<>>],
           UNCHANGED <<base, read_idx, write_idx, producer, sent, got>>
    PROVE  RingInv' /\ UNCHANGED Ring!Stream!vars
<1>1. n \in 1..RingLength /\ n <= used
  BY RingFacts, RingConstants
<1>2. UNCHANGED Ring!Stream!vars /\ used' = used
  BY LoadKeeps
<1>3. RingTypes'
  <2>1. <<>> \in Seq(Ring!Byte)
    OBVIOUS
  <2> QED BY <1>1, <2>1 DEF RingInv, RingTypes
<1>4. Producing'
  BY <1>2 DEF RingInv, Producing
<1>5. Consuming'
  BY <1>1, <1>2 DEF Consuming
<1> QED BY <1>2, <1>3, <1>4, <1>5 DEF RingInv

\* The producer's cells lie behind those in use.
LEMMA CellsBehind ==
    ASSUME RingInv
    PROVE  \A i \in 1..RingLength : used + i <= RingLength =>
              cell(write_idx, i) = cell(read_idx, used + i)
<1>1. write_idx = Ring!stored(read_idx + used)
  BY RingFacts, BytesUsed DEF used, RingInv
<1>2. used \in 0..RingLength /\ read_idx \in Ring!Indexes
  BY RingFacts
<1>3. \A i \in 1..RingLength : used + i <= RingLength =>
         cell(Ring!stored(read_idx + used), i) = cell(read_idx, used + i)
  BY <1>2, CellsLater
<1> QED BY <1>1, <1>3

\* A copy into the ring changes free cells only.
LEMMA CopyInKeeps ==
    ASSUME RingInv, Ring!copy_in PROVE RingInv' /\ UNCHANGED Ring!Stream!vars
<1> DEFINE n == producer.n
           at(c) == CHOOSE i \in 1..n : cell(write_idx, i) = c
<1>1. n \in 1..RingLength /\ used + n <= RingLength /\ used \in 0..RingLength
  BY RingFacts, RingConstants DEF RingInv, Producing, Ring!copy_in
<1>2. base' = [c \in Ring!Cells |-> IF \E i \in 1..n : cell(write_idx, i) = c
                                    THEN (sent + at(c) - 1) % Marks ELSE base[c]]
  <2>1. Ring!Span(write_idx, n) = [i \in 1..n |-> cell(write_idx, i)]
    BY SpanCells
  <2>2. \A c : (\E i \in 1..n : Ring!Span(write_idx, n)[i] = c)
               <=> (\E i \in 1..n : cell(write_idx, i) = c)
    BY <2>1
  <2>3. \A c : (CHOOSE i \in 1..n : Ring!Span(write_idx, n)[i] = c) = at(c)
    BY <2>1
  <2> HIDE DEF at
  <2>4. base' = [c \in Ring!Cells |->
                    IF \E i \in 1..n : Ring!Span(write_idx, n)[i] = c
                    THEN (sent + (CHOOSE i \in 1..n : Ring!Span(write_idx, n)[i] = c) - 1) % Marks
                    ELSE base[c]]
    BY DEF Ring!copy_in
  <2> QED BY <2>2, <2>3, <2>4
<1>3. \A i \in 1..n : at(cell(write_idx, i)) = i
  <2> TAKE i \in 1..n
  <2>1. \E j \in 1..n : cell(write_idx, j) = cell(write_idx, i)
    OBVIOUS
  <2>2. at(cell(write_idx, i)) \in 1..n /\ cell(write_idx, at(cell(write_idx, i))) = cell(write_idx, i)
    BY <2>1
  <2> HIDE DEF at
  <2>3. \A j \in 1..n : j \in 1..RingLength
    BY <1>1, RingConstants
  <2>4. write_idx \in Ring!Indexes
    BY RingFacts
  <2> QED BY <2>2, <2>3, <2>4, CellsDiffer
<1> HIDE DEF at
<1>4. \A i \in 1..n : base'[cell(write_idx, i)] = (sent + i - 1) % Marks
  <2> TAKE i \in 1..n
  <2>1. cell(write_idx, i) \in Ring!Cells
    <3>1. i \in 1..RingLength /\ write_idx \in Ring!Indexes
      BY <1>1, RingFacts, RingConstants
    <3> QED BY <3>1, CellsDiffer
  <2>2. at(cell(write_idx, i)) = i
    BY <1>3
  <2> QED BY <1>2, <2>1, <2>2
<1>5. \A j \in 1..used : base'[cell(read_idx, j)] = base[cell(read_idx, j)]
  <2> TAKE j \in 1..used
  <2>1. j \in 1..RingLength /\ cell(read_idx, j) \in Ring!Cells
    <3>1. j \in 1..RingLength /\ read_idx \in Ring!Indexes
      BY <1>1, RingFacts, RingConstants
    <3> QED BY <3>1, CellsDiffer
  <2>2. ASSUME NEW i \in 1..n PROVE cell(write_idx, i) # cell(read_idx, j)
    <3>1. i \in 1..RingLength /\ used + i \in 1..RingLength /\ used + i # j
      BY <1>1, RingConstants
    <3>2. cell(write_idx, i) = cell(read_idx, used + i)
      BY <3>1, CellsBehind
    <3>3. read_idx \in Ring!Indexes
      BY RingFacts
    <3> QED BY <2>1, <3>1, <3>2, <3>3, CellsDiffer
  <2> QED BY <1>2, <2>1, <2>2
<1>6. base' \in [Ring!Cells -> Ring!Byte]
  <2>1. ASSUME NEW c \in Ring!Cells PROVE base'[c] \in Ring!Byte
    <3>1. CASE \E i \in 1..n : cell(write_idx, i) = c
      <4>1. PICK i \in 1..n : cell(write_idx, i) = c
        BY <3>1
      <4>2. base'[c] = (sent + i - 1) % Marks
        BY <1>4, <4>1
      <4>3. sent + i - 1 \in Int
        <5>1. sent \in Nat
          BY RingConstants DEF RingInv, RingTypes, Ring!Byte
        <5> QED BY <5>1
      <4>4. (sent + i - 1) % Marks \in 0..(Marks - 1)
        BY <4>3, Remainder, RingConstants
      <4> QED BY <4>2, <4>4 DEF Ring!Byte
    <3>2. CASE ~ \E i \in 1..n : cell(write_idx, i) = c
      BY <1>2, <3>2 DEF RingInv, RingTypes
    <3> QED BY <3>1, <3>2
  <2> QED BY <1>2, <2>1
<1>7. used' = used /\ read_idx' = read_idx /\ write_idx' = write_idx
  BY DEF Ring!copy_in, used
<1>8. inRing' = inRing
  BY <1>5, <1>7, InRing
<1>9. UNCHANGED Ring!Stream!vars
  BY <1>8 DEF inRing, used, Ring!Stream!vars, Ring!copy_in
<1>10. RingTypes'
  BY <1>6, <1>7 DEF RingInv, RingTypes, Ring!copy_in
<1>11. Producing'
  <2>1. producer'.n = n /\ sent' = sent
    BY DEF Ring!copy_in, RingInv, RingTypes
  <2> QED BY <1>1, <1>4, <1>7, <2>1 DEF Producing
<1>12. Consuming'
  <2>1. consumer' = consumer
    BY DEF Ring!copy_in
  <2>2. CASE consumer.pc = "store"
    <3> DEFINE m == consumer.n
    <3>1. m \in 0..RingLength /\ m <= used /\ m >= 1
      BY <2>2, RingFacts DEF RingInv, Consuming
    <3>2. Ring!Span(read_idx, m) = [i \in 1..m |-> cell(read_idx, i)]
      BY SpanCells
    <3>3. \A i \in 1..m : i \in 1..used
      BY <1>1, <3>1
    <3>4. \A i \in 1..m : base'[Ring!Span(read_idx, m)[i]] = base[Ring!Span(read_idx, m)[i]]
      BY <1>5, <3>2, <3>3
    <3>5. Ring!Bytes(read_idx, m)' = [i \in 1..m |-> base'[Ring!Span(read_idx, m)[i]]]
      BY <1>7, <2>1 DEF Ring!Bytes
    <3>6. Ring!Bytes(read_idx, m) = [i \in 1..m |-> base[Ring!Span(read_idx, m)[i]]]
      BY DEF Ring!Bytes
    <3>7. Ring!Bytes(read_idx, m)' = Ring!Bytes(read_idx, m)
      BY <3>4, <3>5, <3>6
    <3>8. consumer.data = Ring!Bytes(read_idx, m)
      BY <2>2 DEF RingInv, Consuming
    <3> QED BY <1>7, <2>1, <3>1, <3>7, <3>8 DEF Consuming
  <2>3. CASE consumer.pc # "store"
    BY <1>7, <2>1, <2>3 DEF RingInv, Consuming
  <2> QED BY <2>2, <2>3
<1> QED BY <1>7, <1>9, <1>10, <1>11, <1>12 DEF RingInv

\* A copy out of the ring reads what is on its way.
LEMMA CopyOutKeeps ==
    ASSUME RingInv, Ring!copy_out PROVE RingInv' /\ UNCHANGED Ring!Stream!vars
<1>1. UNCHANGED Ring!Stream!vars /\ used' = used
  BY LoadKeeps DEF Ring!copy_out
<1>2. /\ consumer.n \in 0..RingLength /\ consumer.n >= 1 /\ consumer.n <= used
      /\ read_idx \in Ring!Indexes
  BY RingFacts DEF RingInv, Consuming, Ring!copy_out
<1>3. Ring!Bytes(read_idx, consumer.n) \in Seq(Ring!Byte)
  BY <1>2, BytesHeld DEF RingInv
<1>4. /\ consumer'.pc = "store" /\ consumer'.n = consumer.n
      /\ consumer'.data = Ring!Bytes(read_idx, consumer.n)
      /\ consumer' \in [pc : {"idle", "copy", "store"}, n : 0..RingLength, rest : 0..RingLength,
                        data : Seq(Ring!Byte)]
  BY <1>3 DEF Ring!copy_out, RingInv, RingTypes
<1>5. RingTypes'
  BY <1>4 DEF RingInv, RingTypes, Ring!copy_out
<1>6. Producing'
  BY <1>1 DEF RingInv, Producing, Ring!copy_out
<1>7. Consuming'
  <2>1. Ring!Bytes(read_idx, consumer.n)' = Ring!Bytes(read_idx, consumer.n)
    BY <1>4 DEF Ring!Bytes, Ring!copy_out
  <2> QED BY <1>1, <1>2, <1>4, <2>1 DEF Consuming
<1> QED BY <1>1, <1>5, <1>6, <1>7 DEF RingInv

\* Storing the write index puts the bytes that were copied behind those on their way.
LEMMA StoreWritePuts ==
    ASSUME RingInv, Ring!store_write PROVE RingInv' /\ Ring!Stream!Next
<1> DEFINE n == producer.n
           again == Ring!Smaller(Ring!writable(read_idx, write_idx'), producer.rest)
<1>1. n \in 1..RingLength /\ used + n <= RingLength /\ used \in 0..RingLength
  BY RingFacts, RingConstants DEF RingInv, Producing, Ring!store_write
<1>2. \A i \in 1..n : base[cell(write_idx, i)] = (sent + i - 1) % Marks
  BY DEF RingInv, Producing, Ring!store_write
<1>3. /\ write_idx' = Ring!stored(write_idx + n) /\ sent' = (sent + n) % Marks
      /\ UNCHANGED <<base, read_idx, consumer, got>>
      /\ producer' = IF again = 0 THEN Ring!Idle ELSE [pc |-> "copy", n |-> again, rest |-> 0]
  BY DEF Ring!store_write
<1>4. write_idx' \in Ring!Indexes
  <2>1. write_idx \in Ring!Indexes /\ n \in 0..RingLength
    BY RingFacts
  <2> QED BY <1>3, <2>1, CellsLater
<1>5. used' = used + n
  <2>1. /\ read_idx \in Ring!Indexes /\ write_idx \in Ring!Indexes /\ n \in 0..RingLength
        /\ Ring!readable(read_idx, write_idx) <= RingLength
        /\ Ring!readable(read_idx, write_idx) + n <= RingLength
    BY <1>1, RingFacts, RingConstants DEF used
  <2>2. Ring!readable(read_idx, Ring!stored(write_idx + n)) = Ring!readable(read_idx, write_idx) + n
    BY <2>1, BytesUsed
  <2> QED BY <1>3, <2>2 DEF used
<1>6. again \in 0..RingLength /\ used' + again <= RingLength
  <2>1. used' \in 0..RingLength /\ producer.rest \in 0..RingLength
    BY <1>1, <1>5, RingFacts, RingConstants
  <2>2. Ring!readable(read_idx, write_idx') \in 0..RingLength /\ read_idx \in Ring!Indexes
    BY <1>3, <2>1, RingFacts DEF used
  <2>3. Ring!readable(read_idx, write_idx') <= RingLength
    BY <2>2, RingConstants
  <2>4. Ring!writable(read_idx, write_idx') \in 0..(RingLength - Ring!readable(read_idx, write_idx'))
    BY <1>4, <2>2, <2>3, RoomFree
  <2>5. Ring!writable(read_idx, write_idx') \in 0..(RingLength - used')
    BY <1>3, <2>4 DEF used
  <2> QED BY <2>1, <2>5, RingConstants DEF Ring!Smaller
<1> HIDE DEF again
<1>7. sent' \in Ring!Byte
  <2>1. sent + n \in Int
    BY <1>1, RingConstants DEF RingInv, RingTypes, Ring!Byte
  <2> QED BY <1>3, <2>1, Remainder, RingConstants DEF Ring!Byte
<1>8. RingTypes'
  <2>1. 0 \in 0..RingLength
    BY RingConstants
  <2>2. producer' \in [pc : {"idle", "copy", "store"}, n : 0..RingLength, rest : 0..RingLength]
    BY <1>3, <1>6, <2>1 DEF Ring!Idle
  <2> QED BY <1>3, <1>4, <1>7, <2>2 DEF RingInv, RingTypes
<1>9. Producing'
  <2>1. CASE again = 0
    BY <1>3, <2>1 DEF Producing, Ring!Idle
  <2>2. CASE again # 0
    <3>1. producer'.pc = "copy" /\ producer'.n = again /\ again >= 1
      BY <1>3, <1>6, <2>2, RingConstants
    <3> QED BY <1>6, <3>1 DEF Producing
  <2> QED BY <2>1, <2>2
<1>10. Consuming'
  <2>1. consumer' = consumer /\ Ring!Bytes(read_idx, consumer.n)' = Ring!Bytes(read_idx, consumer.n)
    BY <1>3 DEF Ring!Bytes
  <2>2. consumer.n \in 0..RingLength
    BY RingFacts
  <2> QED BY <1>1, <1>5, <2>1, <2>2, RingConstants DEF RingInv, Consuming
<1>11. RingInv'
  BY <1>1, <1>5, <1>8, <1>9, <1>10, RingConstants DEF RingInv
<1>12. inRing' = inRing \o Ring!Stream!Bytes(sent, n)
  <2> DEFINE more == [i \in 1..n |-> (sent + i - 1) % Marks]
  <2>1. Ring!Stream!Bytes(sent, n) = more
    BY DEF Ring!Stream!Bytes
  <2>2. inRing = [i \in 1..used |-> base[cell(read_idx, i)]]
    BY InRing
  <2>3. inRing' = [i \in 1..(used + n) |-> base[cell(read_idx, i)]]
    BY <1>3, <1>5, InRing
  <2>4. more \in Seq(Int) /\ Len(more) = n
    <3>1. n \in Nat /\ \A i \in 1..n : (sent + i - 1) % Marks \in Int
      <4>1. n \in Nat /\ sent \in Nat
        BY <1>1, RingConstants DEF RingInv, RingTypes, Ring!Byte
      <4>2. \A i \in 1..n : sent + i - 1 \in Int
        BY <4>1
      <4>3. \A i \in 1..n : (sent + i - 1) % Marks \in 0..(Marks - 1)
        BY <4>2, Remainder, RingConstants
      <4> QED BY <4>1, <4>3, RingConstants
    <3> QED BY <3>1
  <2>5. inRing \in Seq(Ring!Byte) /\ Len(inRing) = used
    BY RingFacts, BytesHeld DEF inRing, RingInv
  <2>6. inRing \o more = [i \in 1..(used + n) |-> IF i <= used THEN inRing[i] ELSE more[i - used]]
    <3>1. used \in Nat /\ n \in Nat
      BY <1>1, RingConstants
    <3> QED BY <2>4, <2>5, <3>1
  <2>7. ASSUME NEW i \in 1..(used + n)
        PROVE  base[cell(read_idx, i)] = IF i <= used THEN inRing[i] ELSE more[i - used]
    <3>0. used \in Nat /\ n \in Nat
      BY <1>1, RingConstants
    <3>1. CASE i <= used
      BY <2>2, <3>0, <3>1
    <3>2. CASE i > used
      <4>1. i - used \in 1..n /\ i - used \in 1..RingLength /\ used + (i - used) = i
            /\ i <= RingLength
        BY <1>1, <3>0, <3>2, RingConstants
      <4>2. cell(write_idx, i - used) = cell(read_idx, used + (i - used))
        BY <4>1, CellsBehind
      <4>3. base[cell(read_idx, i)] = (sent + (i - used) - 1) % Marks
        BY <1>2, <4>1, <4>2
      <4> QED BY <3>0, <3>2, <4>1, <4>3
    <3> QED BY <3>0, <3>1, <3>2
  <2> HIDE DEF more
  <2> QED BY <2>1, <2>3, <2>6, <2>7
<1>13. Ring!Stream!Put(n)
  <2>1. Len(inRing) + n <= RingLength
    BY <1>1, RingFacts, BytesHeld DEF inRing, RingInv
  <2> QED BY <1>3, <1>12, <2>1 DEF Ring!Stream!Put, inRing, used
<1> QED BY <1>1, <1>11, <1>13 DEF Ring!Stream!Next

\* Storing the read index takes the bytes that were copied from the front.
LEMMA DropTakes ==
    ASSUME RingInv, Ring!drop PROVE RingInv' /\ Ring!Stream!Next
<1> DEFINE n == consumer.n
           again == Ring!Smaller(Ring!readable(read_idx', write_idx), consumer.rest)
<1>1. n \in 1..RingLength /\ n <= used /\ used \in 0..RingLength
  BY RingFacts, RingConstants DEF RingInv, Consuming, Ring!drop
<1>2. consumer.data = Ring!Bytes(read_idx, n)
  BY DEF RingInv, Consuming, Ring!drop
<1>3. /\ read_idx' = Ring!stored(read_idx + n) /\ got' = consumer.data
      /\ UNCHANGED <<base, write_idx, producer, sent>>
      /\ consumer' = IF again = 0 THEN Ring!Waiting
                     ELSE [Ring!Waiting EXCEPT !.pc = "copy", !.n = again]
  BY DEF Ring!drop
<1>4. /\ read_idx' \in Ring!Indexes
      /\ \A i \in 1..RingLength : n + i <= RingLength =>
            cell(read_idx', i) = cell(read_idx, n + i)
  <2>1. read_idx \in Ring!Indexes /\ n \in 0..RingLength
    BY RingFacts
  <2> QED BY <1>3, <2>1, CellsLater
<1>5. used' = used - n
  <2>1. /\ read_idx \in Ring!Indexes /\ write_idx \in Ring!Indexes /\ n \in 0..RingLength
        /\ Ring!readable(read_idx, write_idx) <= RingLength
        /\ n <= Ring!readable(read_idx, write_idx)
    BY <1>1, RingFacts, RingConstants DEF used
  <2>2. Ring!readable(Ring!stored(read_idx + n), write_idx) = Ring!readable(read_idx, write_idx) - n
    BY <2>1, BytesUsed
  <2> QED BY <1>3, <2>2 DEF used
<1>6. again \in 0..RingLength /\ again <= used'
  <2>1. used' \in 0..RingLength /\ consumer.rest \in 0..RingLength
    BY <1>1, <1>5, RingFacts, RingConstants
  <2>2. again = Ring!Smaller(used', consumer.rest)
    BY <1>3 DEF used
  <2> QED BY <2>1, <2>2, RingConstants DEF Ring!Smaller
<1> HIDE DEF again
<1>7. RingTypes'
  <2>1. 0 \in 0..RingLength /\ <<>> \in Seq(Ring!Byte)
    BY RingConstants
  <2>2. consumer' \in [pc : {"idle", "copy", "store"}, n : 0..RingLength, rest : 0..RingLength,
                       data : Seq(Ring!Byte)]
    BY <1>3, <1>6, <2>1 DEF Ring!Waiting
  <2>3. got' \in Seq(Ring!Byte)
    BY <1>3 DEF RingInv, RingTypes
  <2> QED BY <1>3, <1>4, <2>2, <2>3 DEF RingInv, RingTypes
<1>8. Producing'
  <2>1. producer.n \in 0..RingLength
    BY RingFacts
  <2>2. producer.pc # "idle" => used' + producer.n <= RingLength
    BY <1>1, <1>5, <2>1, RingConstants DEF RingInv, Producing
  <2> QED BY <1>3, <2>2 DEF RingInv, Producing
<1>9. Consuming'
  <2>1. CASE again = 0
    BY <1>3, <2>1 DEF Consuming, Ring!Waiting
  <2>2. CASE again # 0
    <3>1. consumer'.pc = "copy" /\ consumer'.n = again /\ again >= 1
      BY <1>3, <1>6, <2>2, RingConstants DEF Ring!Waiting
    <3> QED BY <1>6, <3>1 DEF Consuming
  <2> QED BY <2>1, <2>2
<1>10. RingInv'
  BY <1>1, <1>5, <1>7, <1>8, <1>9, RingConstants DEF RingInv
<1>11. inRing \in Seq(Ring!Byte) /\ Len(inRing) = used
  BY RingFacts, BytesHeld DEF inRing, RingInv
<1>12. inRing = [i \in 1..used |-> base[cell(read_idx, i)]]
  BY InRing
<1>13. inRing' = SubSeq(inRing, n + 1, Len(inRing))
  <2>1. inRing' = [i \in 1..(used - n) |-> base[cell(read_idx', i)]]
    BY <1>3, <1>5, InRing
  <2>2. used \in Nat /\ n \in Nat /\ n + 1 \in 1..(used + 1)
    BY <1>1, RingConstants
  <2>3. SubSeq(inRing, n + 1, used) = [i \in 1..(used - n) |-> inRing[n + i]]
    <3> DEFINE t == SubSeq(inRing, n + 1, used)
    <3>1. \A i \in (n + 1)..used : inRing[i] \in Ring!Byte
      BY <1>11, <2>2, ElementOfSeq
    <3>2. /\ t \in Seq(Ring!Byte) /\ Len(t) = IF n + 1 <= used THEN used - (n + 1) + 1 ELSE 0
          /\ \A i \in 1..(used - (n + 1) + 1) : t[i] = inRing[n + 1 + i - 1]
      BY <2>2, <3>1, SubSeqProperties
    <3> HIDE DEF t
    <3>3. Len(t) = used - n /\ \A i \in 1..(used - n) : t[i] = inRing[n + i]
      <4>1. n <= used /\ used - (n + 1) + 1 = used - n /\ (~(n + 1 <= used) => used - n = 0)
        BY <2>2
      <4>2. Len(t) = used - n
        BY <3>2, <4>1
      <4>3. ASSUME NEW i \in 1..(used - n) PROVE t[i] = inRing[n + i]
        <5>1. n + 1 + i - 1 = n + i
          BY <2>2
        <5>2. i \in 1..(used - (n + 1) + 1)
          BY <4>1
        <5> QED BY <3>2, <5>1, <5>2
      <4> QED BY <4>2, <4>3
    <3>4. t = [i \in 1..(used - n) |-> t[i]]
      BY <3>2, <3>3
    <3> QED BY <3>3, <3>4 DEF t
  <2>4. ASSUME NEW i \in 1..(used - n) PROVE base[cell(read_idx', i)] = inRing[n + i]
    <3>1. n + i \in 1..used /\ i \in 1..RingLength /\ n + i <= RingLength
      BY <1>1, <2>2, RingConstants
    <3>2. cell(read_idx', i) = cell(read_idx, n + i)
      BY <1>4, <3>1
    <3> QED BY <1>12, <3>1, <3>2
  <2> QED BY <1>11, <2>1, <2>3, <2>4
<1>14. got' = SubSeq(inRing, 1, n)
  <2>1. Ring!Bytes(read_idx, n) = [i \in 1..n |-> base[cell(read_idx, i)]]
    BY <1>1, RingFacts, BytesHeld DEF RingInv
  <2>2. used \in Nat /\ n \in 1..used
    BY <1>1, RingConstants
  <2>3. SubSeq(inRing, 1, n) = [i \in 1..n |-> inRing[i]]
    BY <1>11, <2>2
  <2>4. \A i \in 1..n : i \in 1..used
    BY <2>2
  <2> QED BY <1>2, <1>3, <1>12, <2>1, <2>3, <2>4
<1>15. Ring!Stream!Take(n)
  BY <1>1, <1>3, <1>11, <1>13, <1>14 DEF Ring!Stream!Take, inRing, used
<1> QED BY <1>1, <1>10, <1>15 DEF Ring!Stream!Next

\* Every call of the producer.
LEMMA ProduceSteps ==
    ASSUME RingInv, Ring!Produce PROVE RingInv' /\ [Ring!Stream!Next]_(Ring!Stream!vars)
<1> DEFINE room == Ring!writable(read_idx, write_idx)
<1>1. room \in 0..RingLength /\ RingLength \in Nat
  BY RingFacts, RingConstants
<1>2. ASSUME NEW length \in 1..RingLength, Ring!write(length)
      PROVE  RingInv' /\ UNCHANGED Ring!Stream!vars
  <2> DEFINE n == Ring!Smaller(room, length)
  <2>1. n \in 1..room /\ 0 \in 0..RingLength
    BY <1>1, <1>2 DEF Ring!write, Ring!Smaller
  <2>2. /\ producer' = [pc |-> "copy", n |-> n, rest |-> 0]
        /\ UNCHANGED <<base, read_idx, write_idx, consumer, sent, got>>
    BY <1>2 DEF Ring!write
  <2> HIDE DEF n
  <2> QED BY <2>1, <2>2, WriteBegins
<1>3. ASSUME NEW length \in 1..RingLength, Ring!write_and_notify(length)
      PROVE  RingInv' /\ UNCHANGED Ring!Stream!vars
  <2> DEFINE to_write == Ring!Smaller(room, length)
             hiwat == room - RingLength \div 2
             chunk1 == IF hiwat < 0 THEN to_write ELSE Ring!Smaller(to_write, hiwat)
  <2>1. to_write \in 1..room /\ 0 \in 0..RingLength
    BY <1>1, <1>3 DEF Ring!write_and_notify, Ring!Smaller
  <2>2. hiwat \in Int
    BY <1>1
  <2>3. /\ producer' = IF chunk1 = 0 THEN [pc |-> "copy", n |-> to_write, rest |-> 0]
                       ELSE [pc |-> "copy", n |-> chunk1, rest |-> to_write - chunk1]
        /\ UNCHANGED <<base, read_idx, write_idx, consumer, sent, got>>
    BY <1>3 DEF Ring!write_and_notify
  <2> HIDE DEF to_write, hiwat
  <2>4. chunk1 \in 0..to_write
    BY <1>1, <2>1, <2>2 DEF Ring!Smaller
  <2> HIDE DEF chunk1
  <2>5. CASE chunk1 = 0
    BY <2>1, <2>3, <2>5, WriteBegins
  <2>6. CASE chunk1 # 0
    <3>1. chunk1 \in 1..room /\ to_write - chunk1 \in 0..RingLength
      BY <1>1, <2>1, <2>4, <2>6
    <3> QED BY <2>3, <2>6, <3>1, WriteBegins
  <2> QED BY <2>5, <2>6
<1>4. ASSUME NEW iov \in Ring!Vectors, Ring!write_iov(iov)
      PROVE  RingInv' /\ UNCHANGED Ring!Stream!vars
  <2> DEFINE n == Ring!WholeVectors(iov, room)
  <2>1. n \in 0..room
    <3>1. room \in Nat
      BY <1>1
    <3> QED BY <3>1, VectorsFit
  <2>2. /\ producer' = [pc |-> "copy", n |-> n, rest |-> 0] /\ n > 0
        /\ UNCHANGED <<base, read_idx, write_idx, consumer, sent, got>>
    BY <1>4 DEF Ring!write_iov
  <2> HIDE DEF n
  <2>3. n \in 1..room /\ 0 \in 0..RingLength
    BY <1>1, <2>1, <2>2
  <2> QED BY <2>2, <2>3, WriteBegins
<1> QED BY <1>2, <1>3, <1>4, CopyInKeeps, StoreWritePuts DEF Ring!Produce

\* Every call of the consumer.
LEMMA ConsumeSteps ==
    ASSUME RingInv, Ring!Consume PROVE RingInv' /\ [Ring!Stream!Next]_(Ring!Stream!vars)
<1>1. /\ used \in 0..RingLength /\ RingLength \in Nat /\ 0 \in 0..RingLength
      /\ used = Ring!readable(read_idx, write_idx)
  BY RingFacts, RingConstants DEF used
<1>2. ASSUME NEW length \in 1..RingLength, Ring!read(length)
      PROVE  RingInv' /\ UNCHANGED Ring!Stream!vars
  <2> DEFINE n == Ring!Smaller(used, length)
  <2>1. n \in 1..used
    BY <1>1, <1>2 DEF Ring!read, Ring!Smaller
  <2>2. /\ consumer' = [Ring!Waiting EXCEPT !.pc = "copy", !.n = n]
        /\ UNCHANGED <<base, read_idx, write_idx, producer, sent, got>>
    BY <1>1, <1>2 DEF Ring!read
  <2>3. consumer' = [pc |-> "copy", n |-> n, rest |-> 0, data |-> <<>>]
    BY <2>2 DEF Ring!Waiting
  <2> HIDE DEF n
  <2> QED BY <1>1, <2>1, <2>2, <2>3, ReadBegins
<1>3. ASSUME NEW length \in 1..RingLength, Ring!read_and_notify(length)
      PROVE  RingInv' /\ UNCHANGED Ring!Stream!vars
  <2> DEFINE to_read == Ring!Smaller(used, length)
  <2>1. to_read \in 0..used
    BY <1>1 DEF Ring!Smaller
  <2>2. PICK chunk1 \in 1..to_read :
           consumer' = [Ring!Waiting EXCEPT !.pc = "copy", !.n = chunk1,
                                            !.rest = to_read - chunk1]
    BY <1>1, <1>3 DEF Ring!read_and_notify
  <2>3. UNCHANGED <<base, read_idx, write_idx, producer, sent, got>>
    BY <1>3 DEF Ring!read_and_notify
  <2> HIDE DEF to_read
  <2>4. chunk1 \in 1..used /\ to_read - chunk1 \in 0..RingLength
    BY <1>1, <2>1, <2>2
  <2>5. consumer' = [pc |-> "copy", n |-> chunk1, rest |-> to_read - chunk1, data |-> <<>>]
    BY <2>2 DEF Ring!Waiting
  <2> QED BY <2>3, <2>4, <2>5, ReadBegins
<1>4. ASSUME NEW length \in 1..RingLength, Ring!peek(length)
      PROVE  RingInv' /\ UNCHANGED Ring!Stream!vars
  <2>1. length \in 1..used
    <3>1. length \in 1..Ring!Smaller(used, RingLength - Ring!mask(read_idx))
      BY <1>1, <1>4 DEF Ring!peek
    <3>2. Ring!mask(read_idx) \in 0..RingLength
      BY <1>1, RingFacts DEF Ring!Indexes, Ring!mask
    <3> QED BY <1>1, <3>1, <3>2 DEF Ring!Smaller
  <2>2. /\ consumer' = [Ring!Waiting EXCEPT !.pc = "copy", !.n = length]
        /\ UNCHANGED <<base, read_idx, write_idx, producer, sent, got>>
    BY <1>4 DEF Ring!peek
  <2>3. consumer' = [pc |-> "copy", n |-> length, rest |-> 0, data |-> <<>>]
    BY <2>2 DEF Ring!Waiting
  <2> QED BY <1>1, <2>1, <2>2, <2>3, ReadBegins
<1> QED BY <1>2, <1>3, <1>4, CopyOutKeeps, DropTakes DEF Ring!Consume

\* A step of anything else leaves the ring alone.
LEMMA RingUntouched ==
    ASSUME RingInv, UNCHANGED ringVars PROVE RingInv' /\ UNCHANGED Ring!Stream!vars
BY DEF ringVars, RingInv, RingTypes, Producing, Consuming, used, Ring!Bytes, Ring!Stream!vars

\* The ring's invariant holds, and every step is one of the stream or none.
LEMMA RingSteps ==
    /\ MCInit => RingInv /\ Ring!Stream!Init
    /\ RingInv /\ [MCNext]_all => RingInv' /\ [Ring!Stream!Next]_(Ring!Stream!vars)
<1>1. MCInit => RingInv /\ Ring!Stream!Init
  BY RingStarts DEF MCInit
<1>2. ASSUME RingInv, [MCNext]_all
      PROVE  RingInv' /\ [Ring!Stream!Next]_(Ring!Stream!vars)
  <2>1. CASE Ring!Next
    BY <1>2, <2>1, ProduceSteps, ConsumeSteps DEF Ring!Next
  <2>2. CASE UNCHANGED ringVars
    BY <1>2, <2>2, RingUntouched
  <2> QED BY <1>2, <2>1, <2>2 DEF MCNext, all
<1> QED BY <1>1, <1>2

\* The ring of circular_buffer_producer.tcc and circular_buffer_consumer.tcc implements a
\* stream of bytes, for every length, alignment and division into calls: between any loads
\* and stores of the two processes the bytes come out once, in order and unchanged, and no
\* more than the length are on their way.
THEOREM RingIsStream == MCSpec => RingFifo
BY RingSteps, PTL DEF MCSpec, RingFifo, Ring!RingFifo, Ring!Stream!Spec

\* The two processes of the ring share its memory without a lock: no cell is copied into by
\* the producer while the consumer copies out of it.
THEOREM NoDataRace == MCSpec => []Ring!NoOverlap
<1>1. ASSUME RingInv PROVE Ring!NoOverlap
  <2> SUFFICES ASSUME producer.pc = "copy", consumer.pc = "copy",
                      NEW i \in 1..producer.n, NEW j \in 1..consumer.n
               PROVE  Ring!Span(write_idx, producer.n)[i] # Ring!Span(read_idx, consumer.n)[j]
    BY DEF Ring!NoOverlap
  <2>1. /\ used + producer.n <= RingLength /\ consumer.n <= used /\ used \in 0..RingLength
        /\ producer.n \in 0..RingLength /\ consumer.n \in 0..RingLength /\ read_idx \in Ring!Indexes
    BY <1>1, RingFacts DEF RingInv, Producing, Consuming
  <2>2. i \in 1..RingLength /\ used + i \in 1..RingLength /\ j \in 1..RingLength /\ used + i # j
    BY <2>1, RingConstants
  <2>3. cell(write_idx, i) = cell(read_idx, used + i)
    BY <1>1, <2>2, RingConstants, CellsBehind
  <2>4. cell(write_idx, i) # cell(read_idx, j)
    BY <2>1, <2>2, <2>3, CellsDiffer
  <2> QED BY <2>4, SpanCells
<1> QED BY <1>1, RingSteps, PTL DEF MCSpec

-----------------------------------------------------------------------------
(* The eventfd of the client.                                              *)

\* The steps that move a counter or the eventfd, and those that then move the other.
Openers == {"block_sub", "undo_sub", "wait_write", "notify_add"}
Second(step) ==
    IF step = "block_sub" THEN "block_write"
    ELSE IF step = "undo_sub" THEN "undo_write"
    ELSE IF step = "wait_write" THEN "wait_sub" ELSE "notify_write"
Later == {"block_write", "undo_write", "wait_sub", "notify_write",
          "block_undo", "ack_add", "notify_undo", "unblock_sub"}

Steps == Openers \cup Later \cup
    {"notify", "send", "write", "write_rest", "full", "block", "block_wait", "submit", "recv",
     "read", "read_rest", "remaining", "ack", "ack_undo", "ack_wait", "receive", "transmit",
     "unblock", "unblock_read"}

\* In a list of steps an opener has its second step behind it, and a later step that is not
\* the next one to be done has its opener before it.
Follows(s) ==
    \A i \in 1..Len(s) :
        /\ s[i] \in Openers => i < Len(s) /\ s[i + 1] = Second(s[i])
        /\ i > 1 /\ s[i] \in Later => s[i - 1] \in Openers

\* A list that can come behind any other.
Behind(s) == Follows(s) /\ (s # <<>> => Head(s) \notin Later)

\* What the next step of a list of the client, or of the server, will make up for.
Owes(s, k) ==
    IF s # <<>> /\ Head(s) \in {"block_write", "block_undo", "ack_add"} THEN k
    ELSE IF s # <<>> /\ Head(s) = "undo_write" THEN 1
    ELSE IF s # <<>> /\ Head(s) = "wait_sub" THEN -1 ELSE 0
ServerOwes(s, k) ==
    IF s # <<>> /\ Head(s) \in {"notify_write", "notify_undo"} THEN 1
    ELSE IF s # <<>> /\ Head(s) = "unblock_sub" THEN k ELSE 0

\* A list whose first step is done.
LEMMA ListTail ==
    ASSUME NEW s \in Seq(Steps), s # <<>>, Follows(s)
    PROVE  /\ Tail(s) \in Seq(Steps) /\ Follows(Tail(s))
           /\ Head(s) \notin Openers => Behind(Tail(s))
           /\ Head(s) \in Openers => Tail(s) # <<>> /\ Head(Tail(s)) = Second(Head(s))
<1> DEFINE t == Tail(s)
<1>1. /\ t \in Seq(Steps) /\ Len(s) \in Nat \ {0} /\ Len(t) = Len(s) - 1 /\ Head(s) = s[1]
      /\ \A i \in 1..Len(t) : t[i] = s[i + 1] /\ i + 1 \in 1..Len(s)
  BY HeadTailProperties, EmptySeq
<1>2. t # <<>> => Len(t) > 0 /\ Head(t) = s[2] /\ 2 \in 1..Len(s)
  BY <1>1, HeadTailProperties, EmptySeq
<1> HIDE DEF t
<1>3. Follows(t)
  <2> SUFFICES ASSUME NEW i \in 1..Len(t)
               PROVE  /\ t[i] \in Openers => i < Len(t) /\ t[i + 1] = Second(t[i])
                      /\ i > 1 /\ t[i] \in Later => t[i - 1] \in Openers
    BY DEF Follows
  <2>1. i \in Nat \ {0} /\ t[i] = s[i + 1] /\ i + 1 \in 1..Len(s)
    BY <1>1
  <2>2. t[i] \in Openers => i < Len(t) /\ t[i + 1] = Second(t[i])
    <3> HAVE t[i] \in Openers
    <3>1. i + 1 < Len(s) /\ s[i + 1 + 1] = Second(s[i + 1])
      BY <2>1 DEF Follows
    <3>2. i < Len(t) /\ i + 1 \in 1..Len(t)
      BY <1>1, <2>1, <3>1
    <3> QED BY <1>1, <2>1, <3>1, <3>2
  <2>3. i > 1 /\ t[i] \in Later => t[i - 1] \in Openers
    <3> HAVE i > 1 /\ t[i] \in Later
    <3>1. s[i + 1 - 1] \in Openers
      BY <2>1 DEF Follows
    <3>2. i - 1 \in 1..Len(t) /\ i - 1 + 1 = i + 1 - 1
      BY <1>1, <2>1
    <3> QED BY <1>1, <3>1, <3>2
  <2> QED BY <2>2, <2>3
<1>4. ASSUME Head(s) \notin Openers PROVE Behind(t)
  <2>1. ASSUME t # <<>>, Head(t) \in Later PROVE FALSE
    <3>1. s[2 - 1] \in Openers
      BY <1>1, <1>2, <2>1 DEF Follows
    <3> QED BY <1>1, <1>4, <3>1
  <2> QED BY <1>3, <2>1 DEF Behind
<1>5. ASSUME Head(s) \in Openers PROVE t # <<>> /\ Head(t) = Second(Head(s))
  <2>1. 1 < Len(s) /\ s[1 + 1] = Second(s[1])
    BY <1>1, <1>5 DEF Follows
  <2>2. t # <<>>
    BY <1>1, <2>1
  <2> QED BY <1>1, <1>2, <2>1, <2>2
<1> QED BY <1>1, <1>3, <1>4, <1>5 DEF t

\* A list that is put before another.
LEMMA ListJoin ==
    ASSUME NEW a \in Seq(Steps), NEW b \in Seq(Steps), a # <<>>, Follows(a), Behind(b)
    PROVE  /\ a \o b \in Seq(Steps) /\ a \o b # <<>> /\ Head(a \o b) = Head(a)
           /\ Follows(a \o b)
<1> DEFINE c == a \o b
<1>1. /\ c \in Seq(Steps) /\ Len(a) \in Nat \ {0} /\ Len(b) \in Nat /\ Len(c) = Len(a) + Len(b)
      /\ \A i \in 1..Len(c) : c[i] = IF i <= Len(a) THEN a[i] ELSE b[i - Len(a)]
  BY ConcatProperties, EmptySeq, LenProperties
<1>2. Head(a) = a[1] /\ (b # <<>> => Head(b) = b[1])
  BY HeadTailProperties
<1> HIDE DEF c
<1>3. c # <<>> /\ Head(c) = Head(a)
  <2>1. c # <<>>
    BY <1>1
  <2>2. Head(c) = c[1] /\ 1 \in 1..Len(c) /\ 1 <= Len(a)
    BY <1>1, <2>1, HeadTailProperties
  <2> QED BY <1>1, <1>2, <2>1, <2>2
<1>4. Follows(c)
  <2> SUFFICES ASSUME NEW i \in 1..Len(c)
               PROVE  /\ c[i] \in Openers => i < Len(c) /\ c[i + 1] = Second(c[i])
                      /\ i > 1 /\ c[i] \in Later => c[i - 1] \in Openers
    BY DEF Follows
  <2>0. i \in Nat \ {0}
    BY <1>1
  <2>1. CASE i <= Len(a)
    <3>1. i \in 1..Len(a) /\ c[i] = a[i]
      BY <1>1, <2>0, <2>1
    <3>2. c[i] \in Openers => i < Len(c) /\ c[i + 1] = Second(c[i])
      <4> HAVE c[i] \in Openers
      <4>1. i < Len(a) /\ a[i + 1] = Second(a[i])
        BY <3>1 DEF Follows
      <4>2. i + 1 \in 1..Len(c) /\ i + 1 <= Len(a)
        BY <1>1, <2>0, <4>1
      <4> QED BY <1>1, <2>0, <3>1, <4>1, <4>2
    <3>3. i > 1 /\ c[i] \in Later => c[i - 1] \in Openers
      <4> HAVE i > 1 /\ c[i] \in Later
      <4>1. a[i - 1] \in Openers
        BY <3>1 DEF Follows
      <4>2. i - 1 \in 1..Len(c) /\ i - 1 <= Len(a)
        BY <1>1, <2>0, <2>1
      <4> QED BY <1>1, <4>1, <4>2
    <3> QED BY <3>2, <3>3
  <2>2. CASE i > Len(a)
    <3> DEFINE j == i - Len(a)
    <3>1. j \in 1..Len(b) /\ c[i] = b[j]
      BY <1>1, <2>0, <2>2
    <3>2. c[i] \in Openers => i < Len(c) /\ c[i + 1] = Second(c[i])
      <4> HAVE c[i] \in Openers
      <4>1. j < Len(b) /\ b[j + 1] = Second(b[j])
        BY <3>1 DEF Follows, Behind
      <4>2. i + 1 \in 1..Len(c) /\ ~(i + 1 <= Len(a)) /\ i + 1 - Len(a) = j + 1 /\ i < Len(c)
        BY <1>1, <2>0, <2>2, <4>1
      <4>3. c[i + 1] = b[i + 1 - Len(a)]
        BY <1>1, <4>2
      <4> QED BY <3>1, <4>1, <4>2, <4>3
    <3>3. i > 1 /\ c[i] \in Later => c[i - 1] \in Openers
      <4> HAVE i > 1 /\ c[i] \in Later
      <4>1. CASE j = 1
        <5>1. b # <<>> /\ b[1] \in Later
          BY <3>1, <4>1
        <5> QED BY <1>2, <5>1 DEF Behind
      <4>2. CASE j # 1
        <5>1. j > 1
          BY <1>1, <3>1, <4>2
        <5>2. b[j - 1] \in Openers
          BY <3>1, <5>1 DEF Follows, Behind
        <5>3. i - 1 \in 1..Len(c) /\ ~(i - 1 <= Len(a)) /\ i - 1 - Len(a) = j - 1
          BY <1>1, <2>0, <2>2, <5>1
        <5>4. c[i - 1] = b[i - 1 - Len(a)]
          BY <1>1, <5>3
        <5> QED BY <5>2, <5>3, <5>4
      <4> QED BY <4>1, <4>2
    <3> QED BY <3>2, <3>3
  <2> QED BY <1>1, <2>0, <2>1, <2>2
<1> QED BY <1>1, <1>3, <1>4 DEF c

\* A list of one step.
LEMMA OneStep ==
    ASSUME NEW x \in Steps, x \notin Openers
    PROVE  <<x>> \in Seq(Steps) /\ <<x>> # <<>> /\ Head(<<x>>) = x /\ Follows(<<x>>)
<1> DEFINE s == <<x>>
<1>1. s \in Seq(Steps) /\ Len(s) = 1 /\ s[1] = x /\ Head(s) = x
  OBVIOUS
<1>2. s # <<>>
  OBVIOUS
<1> HIDE DEF s
<1>3. Follows(s)
  BY <1>1 DEF Follows
<1> QED BY <1>1, <1>2, <1>3 DEF s

\* Two steps that belong together.
LEMMA TwoSteps ==
    ASSUME NEW x \in Openers
    PROVE  /\ <<x, Second(x)>> \in Seq(Steps) /\ <<x, Second(x)>> # <<>>
           /\ Head(<<x, Second(x)>>) = x /\ Behind(<<x, Second(x)>>)
<1> DEFINE s == <<x, Second(x)>>
<1>0. x \in Steps /\ Second(x) \in Steps
  BY DEF Openers, Second, Steps, Later
<1>1. s \in Seq(Steps) /\ s # <<>> /\ Head(s) = x /\ Len(s) = 2 /\ s[1] = x /\ s[2] = Second(x)
  BY <1>0
<1>2. Second(x) \notin Openers /\ x \notin Later
  BY DEF Openers, Second, Later
<1> HIDE DEF s
<1>3. Follows(s)
  BY <1>1, <1>2 DEF Follows
<1> QED BY <1>1, <1>2, <1>3 DEF Behind, s

ClientDebt == Owes(client.todo, client.k)
ServerDebt == ServerOwes(server.todo, server.k)

\* By how much the eventfd is ahead of its counters.
Gap == rx_fd.val - (rx_fd.write - rx_fd.read)

FdTypes == rx_fd \in [read : 0..(W - 1), write : 0..(W - 1), val : 0..EventfdMax]

ClientOk ==
    /\ client = [todo |-> client.todo, rest |-> client.rest, room |-> client.room, k |-> client.k]
    /\ client.todo \in Seq(Steps) /\ Follows(client.todo)
    /\ client.k \in 0..(W - 1)

ServerOk ==
    /\ server.todo \in Seq(Steps) /\ Follows(server.todo)
    /\ Server("unblock_sub") => server.k \in 0..(W - 1)

\* The eventfd is ahead of its counters by what the two processes owe, up to W.
FdInv ==
    /\ FdTypes /\ ClientOk /\ ServerOk
    /\ Gap + ClientDebt + ServerDebt \in {-W, 0, W, 2 * W, 3 * W}

\* The assumption on the width.
LEMMA WidthLarge == W \in Nat /\ W > 8
BY ChannelAssumption, Zenon

\* What is owed lies below the width.
LEMMA DebtRange ==
    ASSUME NEW s, NEW k
    PROVE  /\ k \in 0..(W - 1) => Owes(s, k) \in (-1)..(W - 1)
           /\ (s # <<>> /\ Head(s) = "unblock_sub" => k \in 0..(W - 1)) =>
                  ServerOwes(s, k) \in 0..(W - 1)
<1>1. Owes(s, k) = k \/ Owes(s, k) \in {-1, 0, 1}
  BY DEF Owes
<1>2. ASSUME ~(s # <<>> /\ Head(s) = "unblock_sub") PROVE ServerOwes(s, k) \in {0, 1}
  BY <1>2 DEF ServerOwes
<1>3. ASSUME s # <<>>, Head(s) = "unblock_sub" PROVE ServerOwes(s, k) = k
  BY <1>3 DEF ServerOwes
<1>4. {-1, 0, 1} \subseteq (-1)..(W - 1) /\ {0, 1} \subseteq 0..(W - 1)
  BY WidthLarge
<1>5. k \in 0..(W - 1) => k \in (-1)..(W - 1)
  BY WidthLarge
<1> QED BY <1>1, <1>2, <1>3, <1>4, <1>5

\* A list that can come behind any other owes nothing.
LEMMA BehindOwesNothing ==
    ASSUME NEW s, Behind(s), NEW k PROVE Owes(s, k) = 0 /\ ServerOwes(s, k) = 0
BY DEF Behind, Owes, ServerOwes, Later

\* The client has done its step.
LEMMA ClientPops ==
    ASSUME ClientOk, client.todo # <<>>, NEW c,
           c = [todo |-> client.todo, rest |-> c.rest, room |-> c.room, k |-> c.k],
           c.k \in 0..(W - 1), Go(c, <<>>)
    PROVE  /\ ClientOk'
           /\ Head(client.todo) \notin Openers => ClientDebt' = 0
           /\ Head(client.todo) = "block_sub" => ClientDebt' = c.k
           /\ Head(client.todo) = "undo_sub" => ClientDebt' = 1
           /\ Head(client.todo) = "wait_write" => ClientDebt' = -1
<1> DEFINE t == Tail(client.todo)
<1>1. /\ t \in Seq(Steps) /\ Follows(t)
      /\ Head(client.todo) \notin Openers => Behind(t)
      /\ Head(client.todo) \in Openers => t # <<>> /\ Head(t) = Second(Head(client.todo))
  BY ListTail DEF ClientOk
<1>2. client' = IF t = <<>> THEN AtRest ELSE [c EXCEPT !.todo = t]
  <2>1. <<>> \o t = t
    BY <1>1
  <2> QED BY <2>1 DEF Go
<1> HIDE DEF t
<1>3. client' = [todo |-> t, rest |-> client'.rest, room |-> client'.room, k |-> client'.k]
  BY <1>2 DEF AtRest
<1>4. client'.todo = t /\ (t # <<>> => client'.k = c.k) /\ (t = <<>> => client'.k = 0)
  BY <1>2 DEF AtRest
<1>5. client'.k \in 0..(W - 1)
  BY <1>4, WidthLarge
<1>6. ClientOk'
  BY <1>1, <1>3, <1>4, <1>5 DEF ClientOk
<1>7. ClientDebt' = Owes(t, client'.k)
  BY <1>4 DEF ClientDebt
<1>8. Head(client.todo) \notin Openers => ClientDebt' = 0
  BY <1>1, <1>7, BehindOwesNothing
<1>9. Head(client.todo) \in Openers =>
         t # <<>> /\ Head(t) = Second(Head(client.todo)) /\ ClientDebt' = Owes(t, c.k)
  BY <1>1, <1>4, <1>7
<1> QED BY <1>6, <1>8, <1>9 DEF Openers, Second, Owes

\* The client has more to do in the place of its step.
LEMMA ClientPushes ==
    ASSUME ClientOk, client.todo # <<>>, Head(client.todo) \notin Openers, NEW c,
           c = [todo |-> client.todo, rest |-> c.rest, room |-> c.room, k |-> c.k],
           c.k \in 0..(W - 1), NEW st \in Seq(Steps), st # <<>>, Follows(st), Go(c, st)
    PROVE  ClientOk' /\ ClientDebt' = Owes(st, c.k)
<1> DEFINE t == Tail(client.todo)
           s == st \o t
<1>1. t \in Seq(Steps) /\ Behind(t)
  BY ListTail DEF ClientOk
<1>2. s \in Seq(Steps) /\ s # <<>> /\ Head(s) = Head(st) /\ Follows(s)
  BY <1>1, ListJoin
<1>3. client' = [c EXCEPT !.todo = s]
  BY <1>2 DEF Go
<1> HIDE DEF s
<1>4. client' = [todo |-> s, rest |-> c.rest, room |-> c.room, k |-> c.k]
  BY <1>3
<1>5. client'.todo = s /\ client'.k = c.k
  BY <1>4
<1>6. ClientOk'
  BY <1>2, <1>4, <1>5 DEF ClientOk
<1>7. Owes(s, c.k) = Owes(st, c.k)
  BY <1>2 DEF Owes
<1> QED BY <1>5, <1>6, <1>7 DEF ClientDebt

\* The client begins anew.
LEMMA ClientSets ==
    ASSUME NEW s \in Seq(Steps), Behind(s), NEW r, NEW m, NEW k \in 0..(W - 1),
           client' = [todo |-> s, rest |-> r, room |-> m, k |-> k]
    PROVE  ClientOk' /\ ClientDebt' = 0
<1>1. client'.todo = s /\ client'.rest = r /\ client'.room = m /\ client'.k = k
  OBVIOUS
<1>2. ClientOk'
  BY <1>1 DEF ClientOk, Behind
<1> QED BY <1>1, <1>2, BehindOwesNothing DEF ClientDebt

\* The client returns.
LEMMA ClientReturns ==
    ASSUME client' = AtRest PROVE ClientOk' /\ ClientDebt' = 0
<1>1. <<>> \in Seq(Steps) /\ Behind(<<>>) /\ 0 \in 0..(W - 1)
  BY WidthLarge DEF Behind, Follows
<1> QED BY <1>1, ClientSets DEF AtRest

\* The server has done its step, or has more to do in its place.
LEMMA ServerGoes ==
    ASSUME ServerOk, server.todo # <<>>, NEW st \in Seq(Steps), NEW k, Do(st, k), Follows(st),
           st # <<>> => Head(server.todo) \notin Openers,
           st # <<>> /\ Head(st) = "unblock_sub" => k \in 0..(W - 1)
    PROVE  /\ ServerOk'
           /\ st # <<>> => ServerDebt' = ServerOwes(st, k)
           /\ st = <<>> /\ Head(server.todo) \notin Openers => ServerDebt' = 0
           /\ st = <<>> /\ Head(server.todo) = "notify_add" => ServerDebt' = 1
<1> DEFINE t == Tail(server.todo)
           s == st \o t
<1>1. /\ t \in Seq(Steps) /\ Follows(t)
      /\ Head(server.todo) \notin Openers => Behind(t)
      /\ Head(server.todo) \in Openers => t # <<>> /\ Head(t) = Second(Head(server.todo))
  BY ListTail DEF ServerOk
<1>2. server' = IF s = <<>> THEN Quiet ELSE [todo |-> s, k |-> k]
  BY DEF Do
<1>3. CASE st = <<>>
  <2>1. s = t
    BY <1>1, <1>3
  <2> HIDE DEF s
  <2>2. server'.todo = t
    BY <1>2, <2>1 DEF Quiet
  <2>3. ~(t # <<>> /\ Head(t) = "unblock_sub")
    BY <1>1 DEF Behind, Later, Openers, Second
  <2>4. ServerOk'
    BY <1>1, <2>2, <2>3 DEF ServerOk, Server
  <2>5. ServerDebt' = ServerOwes(t, server'.k)
    BY <2>2 DEF ServerDebt
  <2>6. Head(server.todo) \notin Openers => ServerDebt' = 0
    BY <1>1, <2>5, BehindOwesNothing
  <2>7. Head(server.todo) = "notify_add" => ServerDebt' = 1
    BY <1>1, <2>5 DEF Openers, Second, ServerOwes
  <2> QED BY <1>3, <2>4, <2>6, <2>7
<1>4. CASE st # <<>>
  <2>1. s \in Seq(Steps) /\ s # <<>> /\ Head(s) = Head(st) /\ Follows(s)
    BY <1>1, <1>4, ListJoin
  <2> HIDE DEF s
  <2>2. server'.todo = s /\ server'.k = k
    BY <1>2, <2>1
  <2>3. ServerOk'
    BY <1>4, <2>1, <2>2 DEF ServerOk, Server
  <2>4. ServerOwes(s, k) = ServerOwes(st, k)
    BY <1>4, <2>1 DEF ServerOwes
  <2> QED BY <1>4, <2>2, <2>3, <2>4 DEF ServerDebt
<1> QED BY <1>3, <1>4

\* The server begins a handler.
LEMMA ServerHandles ==
    ASSUME ServerOk, NEW st \in Seq(Steps), Behind(st), Handle(st)
    PROVE  ServerOk' /\ ServerDebt' = 0 /\ ServerDebt = 0
<1>1. server'.todo = st /\ server.todo = <<>>
  BY DEF Handle
<1>2. ~(st # <<>> /\ Head(st) = "unblock_sub")
  BY DEF Behind, Later
<1>3. ServerOk'
  BY <1>1, <1>2 DEF ServerOk, Server, Behind
<1>4. ServerDebt' = ServerOwes(st, server'.k) /\ ServerDebt = 0
  BY <1>1 DEF ServerDebt, ServerOwes
<1> QED BY <1>3, <1>4, BehindOwesNothing

\* A counter that moves by k is off by nothing or by the width.
LEMMA CounterMoves ==
    ASSUME NEW x \in 0..(W - 1), NEW k \in 0..(W - 1)
    PROVE  /\ (x + k) % W \in 0..(W - 1) /\ ((x + k) % W) - (x + k) \in {-W, 0}
           /\ (x - k) % W \in 0..(W - 1) /\ ((x - k) % W) - (x - k) \in {0, W}
<1>1. W \in Nat \ {0} /\ x + k \in Int /\ x - k \in Int
  BY WidthLarge
<1> DEFINE up == x + k
           down == x - k
<1>2. up \in 0..(2 * W - 1) /\ down \in (-W)..(W - 1)
  BY <1>1
<1>3. /\ up % W \in 0..(W - 1) /\ (up \in 0..(W - 1) => up % W = up)
      /\ (up \in W..(2 * W - 1) => up % W = up - W)
  BY <1>1, Remainder
<1>4. /\ down % W \in 0..(W - 1) /\ (down \in 0..(W - 1) => down % W = down)
      /\ (down \in (-W)..(-1) => down % W = down + W)
  BY <1>1, Remainder
<1> HIDE DEF up, down
<1>5. up % W \in 0..(W - 1) /\ (up % W) - up \in {-W, 0}
  BY <1>1, <1>2, <1>3
<1>6. down % W \in 0..(W - 1) /\ (down % W) - down \in {0, W}
  BY <1>1, <1>2, <1>4
<1> QED BY <1>5, <1>6 DEF up, down

\* Steps that neither open a change of the eventfd nor end one.
Plain == Steps \ (Openers \cup Later)

\* Lists of such steps.
LEMMA PlainLists ==
    ASSUME NEW x \in Plain, NEW y \in Plain, NEW z \in Plain, NEW u \in Plain
    PROVE  /\ <<x>> \in Seq(Steps) /\ Behind(<<x>>)
           /\ <<x, y>> \in Seq(Steps) /\ Behind(<<x, y>>)
           /\ <<x, y, z>> \in Seq(Steps) /\ Behind(<<x, y, z>>)
           /\ <<x, y, z, u>> \in Seq(Steps) /\ Behind(<<x, y, z, u>>)
<1>1. ASSUME NEW s \in Seq(Steps), s # <<>>, \A i \in 1..Len(s) : s[i] \in Plain
      PROVE  Behind(s)
  <2>1. Follows(s)
    BY <1>1 DEF Follows, Plain
  <2>2. Head(s) = s[1] /\ 1 \in 1..Len(s)
    BY <1>1, HeadTailProperties, EmptySeq, LenProperties
  <2> QED BY <1>1, <2>1, <2>2 DEF Behind, Plain
<1>2. x \in Steps /\ y \in Steps /\ z \in Steps /\ u \in Steps
  BY DEF Plain
<1>3. <<x>> \in Seq(Steps) /\ Behind(<<x>>)
  <2> DEFINE s == <<x>>
  <2>1. s \in Seq(Steps) /\ Len(s) = 1 /\ s[1] = x
    BY <1>2
  <2>2. s # <<>>
    OBVIOUS
  <2> HIDE DEF s
  <2>3. \A i \in 1..Len(s) : s[i] \in Plain
    BY <2>1
  <2> QED BY <1>1, <2>1, <2>2, <2>3 DEF s
<1>4. <<x, y>> \in Seq(Steps) /\ Behind(<<x, y>>)
  <2> DEFINE s == <<x, y>>
  <2>1. s \in Seq(Steps) /\ Len(s) = 2 /\ s[1] = x /\ s[2] = y
    BY <1>2
  <2>2. s # <<>>
    OBVIOUS
  <2> HIDE DEF s
  <2>3. \A i \in 1..Len(s) : s[i] \in Plain
    BY <2>1
  <2> QED BY <1>1, <2>1, <2>2, <2>3 DEF s
<1>5. <<x, y, z>> \in Seq(Steps) /\ Behind(<<x, y, z>>)
  <2> DEFINE s == <<x, y, z>>
  <2>1. s \in Seq(Steps) /\ Len(s) = 3 /\ s[1] = x /\ s[2] = y /\ s[3] = z
    BY <1>2
  <2>2. s # <<>>
    OBVIOUS
  <2> HIDE DEF s
  <2>3. \A i \in 1..Len(s) : s[i] \in Plain
    BY <2>1
  <2> QED BY <1>1, <2>1, <2>2, <2>3 DEF s
<1>6. <<x, y, z, u>> \in Seq(Steps) /\ Behind(<<x, y, z, u>>)
  <2> DEFINE s == <<x, y, z, u>>
  <2>1. s \in Seq(Steps) /\ Len(s) = 4 /\ s[1] = x /\ s[2] = y /\ s[3] = z /\ s[4] = u
    BY <1>2
  <2>2. s # <<>>
    OBVIOUS
  <2> HIDE DEF s
  <2>3. \A i \in 1..Len(s) : s[i] \in Plain
    BY <2>1
  <2> QED BY <1>1, <2>1, <2>2, <2>3 DEF s
<1> QED BY <1>3, <1>4, <1>5, <1>6

\* One such step.
LEMMA PlainList ==
    ASSUME NEW x \in Plain PROVE <<x>> \in Seq(Steps) /\ Behind(<<x>>)
BY PlainLists

\* The lists that the client goes on with.
LEMMA ClientLists ==
    /\ {"notify", "send", "write", "write_rest", "full", "block", "block_wait", "submit", "recv",
        "read", "read_rest", "remaining", "ack", "ack_undo", "ack_wait"} \subseteq Plain
    /\ \A s \in {<<>>, <<"notify">>, <<"block">>, <<"block_wait">>, <<"ack">>, <<"ack_undo">>,
                 <<"ack_wait">>, <<"write">>, <<"read">>, <<"block", "send">>,
                 <<"block_wait", "send">>, <<"block", "submit">>, <<"ack_wait", "recv">>,
                 <<"notify", "read_rest", "remaining">>,
                 <<"notify", "write_rest", "full", "notify">>,
                 <<"block_sub", "block_write">>, <<"wait_write", "wait_sub">>,
                 <<"undo_sub", "undo_write">>,
                 <<"block_sub", "block_write", "wait_write", "wait_sub">>} :
          s \in Seq(Steps) /\ Behind(s)
<1>1. {"notify", "send", "write", "write_rest", "full", "block", "block_wait", "submit", "recv",
       "read", "read_rest", "remaining", "ack", "ack_undo", "ack_wait"} \subseteq Plain
  BY DEF Plain, Steps, Openers, Later
<1>2. <<>> \in Seq(Steps) /\ Behind(<<>>)
  BY DEF Behind, Follows
<1>3. \A x \in {"notify", "block", "block_wait", "ack", "ack_undo", "ack_wait", "write", "read"} :
         <<x>> \in Seq(Steps) /\ Behind(<<x>>)
  BY <1>1, PlainList
<1>4. /\ <<"block", "send">> \in Seq(Steps) /\ Behind(<<"block", "send">>)
      /\ <<"block_wait", "send">> \in Seq(Steps) /\ Behind(<<"block_wait", "send">>)
      /\ <<"block", "submit">> \in Seq(Steps) /\ Behind(<<"block", "submit">>)
      /\ <<"ack_wait", "recv">> \in Seq(Steps) /\ Behind(<<"ack_wait", "recv">>)
  BY <1>1, PlainLists
<1>5. /\ <<"notify", "read_rest", "remaining">> \in Seq(Steps)
      /\ Behind(<<"notify", "read_rest", "remaining">>)
  BY <1>1, PlainLists
<1>6. /\ <<"notify", "write_rest", "full", "notify">> \in Seq(Steps)
      /\ Behind(<<"notify", "write_rest", "full", "notify">>)
  BY <1>1, PlainLists
<1>7. /\ <<"block_sub", "block_write">> \in Seq(Steps) /\ Behind(<<"block_sub", "block_write">>)
      /\ <<"block_sub", "block_write">> # <<>> /\ Head(<<"block_sub", "block_write">>) = "block_sub"
  <2>1. "block_sub" \in Openers /\ Second("block_sub") = "block_write"
    BY DEF Openers, Second
  <2> QED BY <2>1, TwoSteps
<1>8. <<"wait_write", "wait_sub">> \in Seq(Steps) /\ Behind(<<"wait_write", "wait_sub">>)
  <2>1. "wait_write" \in Openers /\ Second("wait_write") = "wait_sub"
    BY DEF Openers, Second
  <2> QED BY <2>1, TwoSteps
<1>9. <<"undo_sub", "undo_write">> \in Seq(Steps) /\ Behind(<<"undo_sub", "undo_write">>)
  <2>1. "undo_sub" \in Openers /\ Second("undo_sub") = "undo_write"
    BY DEF Openers, Second
  <2> QED BY <2>1, TwoSteps
<1>10. /\ <<"block_sub", "block_write", "wait_write", "wait_sub">> \in Seq(Steps)
       /\ Behind(<<"block_sub", "block_write", "wait_write", "wait_sub">>)
  <2> DEFINE s == <<"block_sub", "block_write", "wait_write", "wait_sub">>
  <2>1. \A x \in {"block_sub", "block_write", "wait_write", "wait_sub"} : x \in Steps
    BY DEF Steps, Openers, Later
  <2>2. s \in Seq(Steps) /\ Len(s) = 4 /\ s[1] = "block_sub" /\ s[2] = "block_write"
        /\ s[3] = "wait_write" /\ s[4] = "wait_sub"
    BY <2>1
  <2>3. s # <<>> /\ Head(s) = "block_sub"
    OBVIOUS
  <2> HIDE DEF s
  <2>4. \A i \in 1..Len(s) : i \in {1, 2, 3, 4}
    BY <2>2
  <2>5. Follows(s)
    BY <2>2, <2>4 DEF Follows, Openers, Later, Second
  <2> QED BY <2>2, <2>3, <2>5 DEF Behind, Later, s
<1> QED BY <1>1, <1>2, <1>3, <1>4, <1>5, <1>6, <1>7, <1>8, <1>9, <1>10

\* The client does a plain step and goes on with a list that owes nothing.
LEMMA ClientContinues ==
    ASSUME ClientOk, client.todo # <<>>, Head(client.todo) \in Plain, NEW c,
           c = [todo |-> client.todo, rest |-> c.rest, room |-> c.room, k |-> c.k],
           c.k \in 0..(W - 1), NEW st \in Seq(Steps), Behind(st), Go(c, st)
    PROVE  ClientOk' /\ ClientDebt' = ClientDebt
<1>1. ClientDebt = 0 /\ Head(client.todo) \notin Openers
  BY DEF ClientDebt, Owes, Plain, Later
<1>2. CASE st = <<>>
  BY <1>1, <1>2, ClientPops
<1>3. CASE st # <<>>
  <2>1. ClientOk' /\ ClientDebt' = Owes(st, c.k)
    BY <1>1, <1>3, ClientPushes DEF Behind
  <2> QED BY <1>1, <2>1, BehindOwesNothing
<1> QED BY <1>2, <1>3

\* A multiple of the width that changes by a multiple and stays within bounds.
LEMMA Multiples ==
    ASSUME NEW x \in {-W, 0, W, 2 * W, 3 * W}, NEW g \in (1 - W)..(2 * W - 3),
           NEW c \in (-1)..(W - 1), NEW s \in 0..(W - 1), (g + c + s) - x \in {-W, 0, W}
    PROVE  g + c + s \in {-W, 0, W, 2 * W, 3 * W}
<1>1. W \in Nat /\ W > 8 /\ g \in Int /\ c \in Int /\ s \in Int /\ x \in Int
  BY WidthLarge
<1>2. -W <= g + c + s /\ g + c + s <= 4 * W - 5
  BY <1>1
<1> QED BY <1>1, <1>2

\* The balance after a step.
LEMMA FdSettles ==
    ASSUME FdInv, FdTypes', ClientOk', ServerOk',
           (Gap' + ClientDebt' + ServerDebt') - (Gap + ClientDebt + ServerDebt) \in {-W, 0, W}
    PROVE  FdInv'
<1>1. /\ ClientDebt \in (-1)..(W - 1) /\ ServerDebt \in 0..(W - 1)
      /\ ClientDebt' \in (-1)..(W - 1) /\ ServerDebt' \in 0..(W - 1)
  <2>1. ClientDebt \in (-1)..(W - 1)
    BY DebtRange DEF FdInv, ClientOk, ClientDebt
  <2>2. ClientDebt' \in (-1)..(W - 1)
    BY DebtRange DEF ClientOk, ClientDebt
  <2>3. ServerDebt \in 0..(W - 1)
    BY DebtRange DEF FdInv, ServerOk, ServerDebt, Server
  <2>4. ServerDebt' \in 0..(W - 1)
    BY DebtRange DEF ServerOk, ServerDebt, Server
  <2> QED BY <2>1, <2>2, <2>3, <2>4
<1>2. Gap \in (1 - W)..(2 * W - 3) /\ Gap' \in (1 - W)..(2 * W - 3)
  <2>1. rx_fd.val \in 0..(W - 2) /\ rx_fd.write \in 0..(W - 1) /\ rx_fd.read \in 0..(W - 1)
    BY DEF FdInv, FdTypes, EventfdMax
  <2>2. rx_fd'.val \in 0..(W - 2) /\ rx_fd'.write \in 0..(W - 1) /\ rx_fd'.read \in 0..(W - 1)
    BY DEF FdTypes, EventfdMax
  <2> QED BY <2>1, <2>2, WidthLarge DEF Gap
<1>3. Gap + ClientDebt + ServerDebt \in {-W, 0, W, 2 * W, 3 * W}
  BY DEF FdInv
<1>4. Gap' + ClientDebt' + ServerDebt' \in {-W, 0, W, 2 * W, 3 * W}
  BY <1>1, <1>2, <1>3, Multiples
<1> QED BY <1>4 DEF FdInv

\* A step of the client that does not touch the eventfd.
LEMMA ClientKeeps ==
    ASSUME FdInv, rx_fd' = rx_fd, server' = server, ClientOk', ClientDebt' = ClientDebt
    PROVE  FdInv'
BY DEF FdInv, FdTypes, ServerOk, Server, Gap, ServerDebt

\* A step of the server that does not touch the eventfd.
LEMMA ServerKeeps ==
    ASSUME FdInv, rx_fd' = rx_fd, client' = client, ServerOk', ServerDebt' = ServerDebt
    PROVE  FdInv'
BY DEF FdInv, FdTypes, ClientOk, Gap, ClientDebt

\* A plain step of the client keeps the balance.
LEMMA ClientGoes ==
    ASSUME FdInv, NEW x \in Plain, Client(x), NEW c,
           c = [todo |-> client.todo, rest |-> c.rest, room |-> c.room, k |-> c.k],
           c.k \in 0..(W - 1), NEW st \in Seq(Steps), Behind(st), Go(c, st),
           rx_fd' = rx_fd, server' = server
    PROVE  FdInv'
<1>1. ClientOk /\ client.todo # <<>> /\ Head(client.todo) \in Plain
  BY DEF FdInv, Client
<1>2. ClientOk' /\ ClientDebt' = ClientDebt
  BY <1>1, ClientContinues
<1> QED BY <1>2, ClientKeeps

\* So does one that begins anew.
LEMMA ClientBegins ==
    ASSUME FdInv, ClientDebt = 0, NEW st \in Seq(Steps), Behind(st), NEW r, NEW m, NEW k \in 0..(W - 1),
           client' = [todo |-> st, rest |-> r, room |-> m, k |-> k],
           rx_fd' = rx_fd, server' = server
    PROVE  FdInv'
BY ClientSets, ClientKeeps

\* And one that returns.
LEMMA ClientStops ==
    ASSUME FdInv, ClientDebt = 0, client' = AtRest, rx_fd' = rx_fd, server' = server
    PROVE  FdInv'
BY ClientReturns, ClientKeeps

\* A client at rest, or before a plain step, owes nothing.
LEMMA NothingOwed ==
    ASSUME client.todo = <<>> \/ \E x \in Plain : Client(x) PROVE ClientDebt = 0
BY DEF ClientDebt, Owes, Client, Plain, Later

\* The client's step record, as it is and with the fields that the calls set.
LEMMA ClientRecords ==
    ASSUME ClientOk, NEW r, NEW k
    PROVE  /\ LET c == client
              IN c = [todo |-> client.todo, rest |-> c.rest, room |-> c.room, k |-> c.k]
                 /\ c.k \in 0..(W - 1)
           /\ LET c == [client EXCEPT !.rest = r]
              IN c = [todo |-> client.todo, rest |-> c.rest, room |-> c.room, k |-> c.k]
                 /\ c.k \in 0..(W - 1)
           /\ LET c == [client EXCEPT !.k = k]
              IN c = [todo |-> client.todo, rest |-> c.rest, room |-> c.room, k |-> c.k]
                 /\ c.k = k
<1>1. PICK t, a, b, i : client = [todo |-> t, rest |-> a, room |-> b, k |-> i]
  BY DEF ClientOk
<1>2. client.todo = t /\ client.k \in 0..(W - 1) /\ client.k = i
  BY <1>1 DEF ClientOk
<1>3. [client EXCEPT !.rest = r] = [todo |-> t, rest |-> r, room |-> b, k |-> i]
  BY <1>1
<1>4. [client EXCEPT !.k = k] = [todo |-> t, rest |-> a, room |-> b, k |-> k]
  BY <1>1
<1> QED BY <1>1, <1>2, <1>3, <1>4

\* The same with two fields set.
LEMMA ClientTwoFields ==
    ASSUME ClientOk, NEW r, NEW m
    PROVE  \E c : /\ c = [client EXCEPT !.rest = r, !.room = m]
                  /\ c = [todo |-> client.todo, rest |-> c.rest, room |-> c.room, k |-> c.k]
                  /\ c.k \in 0..(W - 1)
<1>1. PICK d : d = [client EXCEPT !.rest = r]
  OBVIOUS
<1>2. PICK c : c = [d EXCEPT !.room = m]
  OBVIOUS
<1>3. c = [client EXCEPT !.rest = r, !.room = m]
  BY <1>1, <1>2, Zenon
<1>4. PICK t, a, b, i : client = [todo |-> t, rest |-> a, room |-> b, k |-> i]
  BY DEF ClientOk
<1>5. client.todo = t /\ client.k \in 0..(W - 1) /\ client.k = i
  BY <1>4 DEF ClientOk
<1>6. d = [todo |-> t, rest |-> r, room |-> b, k |-> i]
  BY <1>1, <1>4
<1>7. c = [todo |-> t, rest |-> r, room |-> m, k |-> i]
  BY <1>2, <1>6
<1>8. /\ c = [todo |-> client.todo, rest |-> c.rest, room |-> c.room, k |-> c.k]
      /\ c.k \in 0..(W - 1)
  BY <1>5, <1>7
<1> QED BY <1>3, <1>8, Zenon

\* The client's steps around the ring and the calls themselves.
LEMMA ClientRingSteps ==
    ASSUME FdInv, notify \/ write \/ write_rest \/ full \/ submit \/ read \/ read_rest \/ remaining
    PROVE  FdInv'
<1>0. ClientOk
  BY DEF FdInv
<1>1. CASE notify
  <2>1. Client("notify") /\ Go(client, <<>>) /\ rx_fd' = rx_fd /\ server' = server
    BY <1>1 DEF notify
  <2> QED BY <1>0, <2>1, ClientLists, ClientRecords, ClientGoes
<1>2. CASE write
  <2>1. PICK r, m : Go([client EXCEPT !.rest = r, !.room = m],
                       <<"notify", "write_rest", "full", "notify">>)
    BY <1>2 DEF write
  <2>2. Client("write") /\ rx_fd' = rx_fd /\ server' = server
    BY <1>2 DEF write
  <2>3. PICK c : /\ c = [client EXCEPT !.rest = r, !.room = m]
                 /\ c = [todo |-> client.todo, rest |-> c.rest, room |-> c.room, k |-> c.k]
                 /\ c.k \in 0..(W - 1)
    BY <1>0, ClientTwoFields, Zenon
  <2>4. /\ Go(c, <<"notify", "write_rest", "full", "notify">>)
        /\ c = [todo |-> client.todo, rest |-> c.rest, room |-> c.room, k |-> c.k]
        /\ c.k \in 0..(W - 1)
    BY <2>1, <2>3, Zenon
  <2> QED BY <2>2, <2>4, ClientLists, ClientGoes
<1>3. CASE write_rest
  <2>1. PICK r, m : Go([client EXCEPT !.rest = r, !.room = m], <<>>)
    BY <1>3 DEF write_rest
  <2>2. Client("write_rest") /\ rx_fd' = rx_fd /\ server' = server
    BY <1>3 DEF write_rest
  <2>3. PICK c : /\ c = [client EXCEPT !.rest = r, !.room = m]
                 /\ c = [todo |-> client.todo, rest |-> c.rest, room |-> c.room, k |-> c.k]
                 /\ c.k \in 0..(W - 1)
    BY <1>0, ClientTwoFields, Zenon
  <2>4. /\ Go(c, <<>>)
        /\ c = [todo |-> client.todo, rest |-> c.rest, room |-> c.room, k |-> c.k]
        /\ c.k \in 0..(W - 1)
    BY <2>1, <2>3, Zenon
  <2> QED BY <2>2, <2>4, ClientLists, ClientGoes
<1>4. CASE full
  <2>1. PICK st \in {<<"block">>, <<>>} : Go(client, st)
    BY <1>4 DEF full
  <2>2. Client("full") /\ rx_fd' = rx_fd /\ server' = server
    BY <1>4 DEF full
  <2> QED BY <1>0, <2>1, <2>2, ClientLists, ClientRecords, ClientGoes
<1>5. CASE submit
  <2>1. Client("submit") /\ rx_fd' = rx_fd /\ server' = server
    BY <1>5 DEF submit
  <2>2. CASE client' = AtRest
    <3>1. ClientDebt = 0
      BY <2>1, NothingOwed, ClientLists
    <3> QED BY <2>1, <2>2, <3>1, ClientStops
  <2>3. CASE client' # AtRest
    <3>1. PICK st \in {<<"block_wait">>, <<>>} : Go(client, st)
      BY <1>5, <2>3 DEF submit, Return
    <3> QED BY <1>0, <2>1, <3>1, ClientLists, ClientRecords, ClientGoes
  <2> QED BY <2>2, <2>3
<1>6. CASE read
  <2>1. PICK r : Go([client EXCEPT !.rest = r], <<"notify", "read_rest", "remaining">>)
    BY <1>6 DEF read
  <2>2. Client("read") /\ rx_fd' = rx_fd /\ server' = server
    BY <1>6 DEF read
  <2> QED BY <1>0, <2>1, <2>2, ClientLists, ClientRecords, ClientGoes
<1>7. CASE read_rest
  <2>1. Client("read_rest") /\ Go([client EXCEPT !.rest = 0], <<>>) /\ rx_fd' = rx_fd
        /\ server' = server
    BY <1>7 DEF read_rest
  <2> QED BY <1>0, <2>1, ClientLists, ClientRecords, ClientGoes
<1>8. CASE remaining
  <2>1. rx_fd' = rx_fd /\ server' = server
    BY <1>8 DEF remaining
  <2>2. PICK x \in {"remaining", "ack", "ack_undo"} : Client(x)
    BY <1>8 DEF remaining
  <2>3. PICK st \in {<<"ack">>, <<"ack_undo">>, <<"ack_wait">>, <<>>, <<"undo_sub", "undo_write">>} :
           Go(client, st)
    BY <1>8 DEF remaining
  <2>4. x \in Plain
    BY <2>2, ClientLists
  <2>5. st \in Seq(Steps) /\ Behind(st)
    BY <2>3, ClientLists
  <2> QED BY <1>0, <2>1, <2>2, <2>3, <2>4, <2>5, ClientRecords, ClientGoes
<1> QED BY <1>1, <1>2, <1>3, <1>4, <1>5, <1>6, <1>7, <1>8

\* The records that calls begin with.
LEMMA RestRecords ==
    ASSUME NEW s, NEW m
    PROVE  /\ [AtRest EXCEPT !.todo = s] = [todo |-> s, rest |-> 0, room |-> 0, k |-> 0]
           /\ \E c : /\ c = [AtRest EXCEPT !.todo = s, !.room = m]
                     /\ c = [todo |-> s, rest |-> 0, room |-> m, k |-> 0]
<1>1. PICK d : d = [AtRest EXCEPT !.todo = s]
  OBVIOUS
<1>2. PICK c : c = [d EXCEPT !.room = m]
  OBVIOUS
<1>3. c = [AtRest EXCEPT !.todo = s, !.room = m]
  BY <1>1, <1>2, Zenon
<1>4. d = [todo |-> s, rest |-> 0, room |-> 0, k |-> 0]
  BY <1>1 DEF AtRest
<1>5. c = [todo |-> s, rest |-> 0, room |-> m, k |-> 0]
  BY <1>2, <1>4
<1> QED BY <1>1, <1>3, <1>4, <1>5, Zenon

\* The client's calls, and block().
LEMMA ClientCallSteps ==
    ASSUME FdInv, send \/ connect \/ recv \/ block
    PROVE  FdInv'
<1>0. ClientOk /\ 0 \in 0..(W - 1)
  BY WidthLarge DEF FdInv
<1>1. CASE send
  <2>1. rx_fd' = rx_fd /\ server' = server
    BY <1>1 DEF send
  <2>2. client.todo = <<>> \/ Client("send")
    BY <1>1 DEF send
  <2>3. ClientDebt = 0
    BY <2>2, NothingOwed, ClientLists
  <2> DEFINE st == <<IF nonblock THEN "block" ELSE "block_wait", "send">>
  <2>4. \/ client' = AtRest
        \/ client' = [AtRest EXCEPT !.todo = <<"write">>, !.room = Writable(tx)]
        \/ client' = [AtRest EXCEPT !.todo = st]
    BY <1>1, Zenon DEF send
  <2>5. CASE client' = AtRest
    BY <2>1, <2>3, <2>5, ClientStops
  <2>6. CASE client' = [AtRest EXCEPT !.todo = <<"write">>, !.room = Writable(tx)]
    <3>1. client' = [todo |-> <<"write">>, rest |-> 0, room |-> Writable(tx), k |-> 0]
      BY <2>6, RestRecords, Zenon
    <3> QED BY <1>0, <2>1, <2>3, <3>1, ClientLists, ClientBegins
  <2>7. CASE client' = [AtRest EXCEPT !.todo = st]
    <3>1. client' = [todo |-> st, rest |-> 0, room |-> 0, k |-> 0]
      BY <2>7, RestRecords, Zenon
    <3>2. st \in Seq(Steps) /\ Behind(st)
      <4>1. st \in {<<"block", "send">>, <<"block_wait", "send">>}
        OBVIOUS
      <4> HIDE DEF st
      <4> QED BY <4>1, ClientLists
    <3> HIDE DEF st
    <3> QED BY <1>0, <2>1, <2>3, <3>1, <3>2, ClientBegins
  <2> QED BY <2>4, <2>5, <2>6, <2>7, Zenon
<1>2. CASE connect
  <2>1. rx_fd' = rx_fd /\ server' = server /\ client.todo = <<>>
        /\ client' = [AtRest EXCEPT !.todo = <<"block", "submit">>]
    BY <1>2 DEF connect
  <2>2. client' = [todo |-> <<"block", "submit">>, rest |-> 0, room |-> 0, k |-> 0]
    BY <2>1, RestRecords, Zenon
  <2>3. ClientDebt = 0
    BY <2>1, NothingOwed
  <2> QED BY <1>0, <2>1, <2>2, <2>3, ClientLists, ClientBegins
<1>3. CASE recv
  <2>1. rx_fd' = rx_fd /\ server' = server
    BY <1>3 DEF recv
  <2>2. client.todo = <<>> \/ Client("recv")
    BY <1>3 DEF recv
  <2>3. ClientDebt = 0
    BY <2>2, NothingOwed, ClientLists
  <2>4. \/ client' = AtRest
        \/ client' = [AtRest EXCEPT !.todo = <<"read">>]
        \/ client' = [AtRest EXCEPT !.todo = <<"ack_wait", "recv">>]
    BY <1>3, Zenon DEF recv, Return
  <2>5. CASE client' = AtRest
    BY <2>1, <2>3, <2>5, ClientStops
  <2>6. CASE client' = [AtRest EXCEPT !.todo = <<"read">>]
    <3>1. client' = [todo |-> <<"read">>, rest |-> 0, room |-> 0, k |-> 0]
      BY <2>6, RestRecords, Zenon
    <3> QED BY <1>0, <2>1, <2>3, <3>1, ClientLists, ClientBegins
  <2>7. CASE client' = [AtRest EXCEPT !.todo = <<"ack_wait", "recv">>]
    <3>1. client' = [todo |-> <<"ack_wait", "recv">>, rest |-> 0, room |-> 0, k |-> 0]
      BY <2>7, RestRecords, Zenon
    <3> QED BY <1>0, <2>1, <2>3, <3>1, ClientLists, ClientBegins
  <2> QED BY <2>4, <2>5, <2>6, <2>7
<1>4. CASE block
  <2> DEFINE amount == (EventfdMax - count) % W
  <2>1. rx_fd' = rx_fd /\ server' = server
    BY <1>4 DEF block
  <2>2. PICK x \in {"block", "block_wait"} : Client(x)
    BY <1>4 DEF block
  <2>3. x \in Plain
    BY <2>2, ClientLists
  <2>4. amount \in 0..(W - 1)
    <3>1. W \in Nat \ {0} /\ rx_fd.write - rx_fd.read \in Int
      BY WidthLarge DEF FdInv, FdTypes
    <3>2. count \in Int
      BY <3>1, Remainder DEF count
    <3>3. EventfdMax - count \in Int
      BY <3>1, <3>2 DEF EventfdMax
    <3> QED BY <3>1, <3>3, Remainder
  <2>5. \/ Failed
        \/ Go(client, <<"wait_write", "wait_sub">>)
        \/ Go([client EXCEPT !.k = amount], <<"block_sub", "block_write">>)
        \/ Go([client EXCEPT !.k = amount],
              <<"block_sub", "block_write", "wait_write", "wait_sub">>)
    BY <1>4, Zenon DEF block
  <2> HIDE DEF amount
  <2>6. CASE Failed
    <3>1. ClientDebt = 0
      BY <2>2, <2>3, NothingOwed
    <3>2. CASE client' = AtRest
      BY <2>1, <3>1, <3>2, ClientStops
    <3>3. CASE client' = [client EXCEPT !.todo = <<"notify">>]
      <4>1. PICK t, a, b, i : client = [todo |-> t, rest |-> a, room |-> b, k |-> i]
        BY <1>0 DEF ClientOk
      <4>2. client' = [todo |-> <<"notify">>, rest |-> a, room |-> b, k |-> i]
        BY <3>3, <4>1
      <4>3. i \in 0..(W - 1)
        BY <1>0, <4>1 DEF ClientOk
      <4> QED BY <2>1, <3>1, <4>2, <4>3, ClientLists, ClientBegins
    <3> QED BY <2>6, <3>2, <3>3 DEF Failed, Return
  <2>7. CASE Go(client, <<"wait_write", "wait_sub">>)
    BY <1>0, <2>1, <2>2, <2>3, <2>7, ClientLists, ClientRecords, ClientGoes
  <2>8. CASE Go([client EXCEPT !.k = amount], <<"block_sub", "block_write">>)
    BY <1>0, <2>1, <2>2, <2>3, <2>4, <2>8, ClientLists, ClientRecords, ClientGoes
  <2>9. CASE Go([client EXCEPT !.k = amount],
                <<"block_sub", "block_write", "wait_write", "wait_sub">>)
    BY <1>0, <2>1, <2>2, <2>3, <2>4, <2>9, ClientLists, ClientRecords, ClientGoes
  <2> QED BY <2>5, <2>6, <2>7, <2>8, <2>9
<1> QED BY <1>1, <1>2, <1>3, <1>4

\* How much the gap changes when one of the fields does.
LEMMA FdMoves ==
    ASSUME FdTypes, NEW e
    PROVE  /\ Gap \in Int
           /\ e \in 0..(W - 1) /\ rx_fd' = [rx_fd EXCEPT !.read = e] =>
                 FdTypes' /\ Gap' = Gap + (e - rx_fd.read)
           /\ e \in 0..(W - 1) /\ rx_fd' = [rx_fd EXCEPT !.write = e] =>
                 FdTypes' /\ Gap' = Gap - (e - rx_fd.write)
           /\ e \in 0..EventfdMax /\ rx_fd' = [rx_fd EXCEPT !.val = e] =>
                 FdTypes' /\ Gap' = Gap + (e - rx_fd.val)
<1>1. /\ rx_fd.read \in 0..(W - 1) /\ rx_fd.write \in 0..(W - 1) /\ rx_fd.val \in 0..EventfdMax
      /\ W \in Nat /\ EventfdMax \in Int
  BY WidthLarge DEF FdTypes, EventfdMax
<1>2. ASSUME e \in 0..(W - 1), rx_fd' = [rx_fd EXCEPT !.read = e]
      PROVE  FdTypes' /\ Gap' = Gap + (e - rx_fd.read)
  <2>1. FdTypes' /\ rx_fd'.read = e /\ rx_fd'.write = rx_fd.write /\ rx_fd'.val = rx_fd.val
    BY <1>2 DEF FdTypes
  <2> QED BY <1>1, <1>2, <2>1 DEF Gap
<1>3. ASSUME e \in 0..(W - 1), rx_fd' = [rx_fd EXCEPT !.write = e]
      PROVE  FdTypes' /\ Gap' = Gap - (e - rx_fd.write)
  <2>1. FdTypes' /\ rx_fd'.write = e /\ rx_fd'.read = rx_fd.read /\ rx_fd'.val = rx_fd.val
    BY <1>3 DEF FdTypes
  <2> QED BY <1>1, <1>3, <2>1 DEF Gap
<1>4. ASSUME e \in 0..EventfdMax, rx_fd' = [rx_fd EXCEPT !.val = e]
      PROVE  FdTypes' /\ Gap' = Gap + (e - rx_fd.val)
  <2>1. FdTypes' /\ rx_fd'.val = e /\ rx_fd'.read = rx_fd.read /\ rx_fd'.write = rx_fd.write
    BY <1>4 DEF FdTypes
  <2> QED BY <1>1, <1>4, <2>1 DEF Gap
<1> QED BY <1>1, <1>2, <1>3, <1>4 DEF Gap

\* The fields and the debts are numbers.
LEMMA FdNumbers ==
    ASSUME FdInv
    PROVE  /\ rx_fd.read \in 0..(W - 1) /\ rx_fd.write \in 0..(W - 1)
           /\ rx_fd.val \in 0..(W - 2) /\ client.k \in 0..(W - 1) /\ W \in Nat /\ W > 8
           /\ Gap \in Int /\ ClientDebt \in Int /\ ServerDebt \in Int
<1>1. /\ rx_fd.read \in 0..(W - 1) /\ rx_fd.write \in 0..(W - 1)
      /\ rx_fd.val \in 0..(W - 2) /\ client.k \in 0..(W - 1) /\ W \in Nat /\ W > 8
  BY WidthLarge DEF FdInv, FdTypes, EventfdMax, ClientOk
<1>2. Gap \in Int
  BY FdMoves DEF FdInv
<1>3. ClientDebt \in Int
  BY <1>1, DebtRange DEF ClientDebt
<1>4. ServerDebt \in 0..(W - 1)
  BY DebtRange DEF FdInv, ServerOk, ServerDebt, Server
<1> QED BY <1>1, <1>2, <1>3, <1>4

\* A step of the client that moves the eventfd or a counter by what it then owes or paid.
LEMMA ClientPays ==
    ASSUME FdInv, FdTypes', ClientOk', server' = server, NEW d \in {-W, 0, W}, NEW n \in Int,
           Gap' = Gap + n, ClientDebt' = ClientDebt + (d - n)
    PROVE  FdInv'
<1>1. ServerOk' /\ ServerDebt' = ServerDebt
  BY DEF FdInv, ServerOk, Server, ServerDebt
<1>2. d \in Int
  BY WidthLarge
<1>3. (Gap + n + (ClientDebt + (d - n)) + ServerDebt) - (Gap + ClientDebt + ServerDebt) = d
  BY <1>2, FdNumbers
<1> QED BY <1>1, <1>3, FdSettles

\* The same for the server.
LEMMA ServerPays ==
    ASSUME FdInv, FdTypes', ServerOk', client' = client, NEW d \in {-W, 0, W}, NEW n \in Int,
           Gap' = Gap + n, ServerDebt' = ServerDebt + (d - n)
    PROVE  FdInv'
<1>1. ClientOk' /\ ClientDebt' = ClientDebt
  BY DEF FdInv, ClientOk, ClientDebt
<1>2. d \in Int
  BY WidthLarge
<1>3. (Gap + n + ClientDebt + (ServerDebt + (d - n))) - (Gap + ClientDebt + ServerDebt) = d
  BY <1>2, FdNumbers
<1> QED BY <1>1, <1>3, FdSettles

\* block() that fails.
LEMMA ClientFails ==
    ASSUME ClientOk, Failed PROVE ClientOk' /\ ClientDebt' = 0
<1>1. CASE client' = AtRest
  BY <1>1, ClientReturns
<1>2. CASE client' = [client EXCEPT !.todo = <<"notify">>]
  <2>1. PICK t, a, b, i : client = [todo |-> t, rest |-> a, room |-> b, k |-> i]
    BY DEF ClientOk
  <2>2. client' = [todo |-> <<"notify">>, rest |-> a, room |-> b, k |-> i]
    BY <1>2, <2>1
  <2>3. i \in 0..(W - 1)
    BY <2>1 DEF ClientOk
  <2> QED BY <2>2, <2>3, ClientLists, ClientSets
<1> QED BY <1>1, <1>2 DEF Failed, Return

\* The client's steps on the eventfd and on its own counter.
LEMMA ClientFdSteps ==
    ASSUME FdInv,
           \/ block_sub \/ block_write \/ block_undo \/ wait_write \/ wait_sub
           \/ ack_wait \/ ack_add \/ undo_sub \/ undo_write
    PROVE  FdInv'
<1>0. ClientOk /\ FdTypes /\ 1 \in 0..(W - 1) /\ 0 \in {-W, 0, W}
  BY WidthLarge DEF FdInv
<1>1. ASSUME NEW x, Client(x), Go(client, <<>>)
      PROVE  /\ ClientOk'
             /\ x \notin Openers => ClientDebt' = 0
             /\ x = "block_sub" => ClientDebt' = client.k
             /\ x = "undo_sub" => ClientDebt' = 1
             /\ x = "wait_write" => ClientDebt' = -1
  BY <1>0, <1>1, ClientPops, ClientRecords DEF Client
<1>2. CASE block_sub
  <2>1. Client("block_sub") /\ Go(client, <<>>) /\ server' = server
    BY <1>2 DEF block_sub
  <2>2. ClientOk' /\ ClientDebt' = client.k /\ ClientDebt = 0
    <3>1. ClientOk' /\ ClientDebt' = client.k
      BY <1>1, <2>1
    <3>2. ClientDebt = 0
      BY <2>1 DEF Client, ClientDebt, Owes
    <3> QED BY <3>1, <3>2
  <2> DEFINE e == (rx_fd.read - client.k) % W
  <2>3. e \in 0..(W - 1) /\ e - (rx_fd.read - client.k) \in {0, W}
    BY FdNumbers, CounterMoves
  <2>4. rx_fd' = [rx_fd EXCEPT !.read = e]
    BY <1>2 DEF block_sub
  <2> HIDE DEF e
  <2>5. FdTypes' /\ Gap' = Gap + (e - rx_fd.read)
    BY <1>0, <2>3, <2>4, FdMoves
  <2> DEFINE n == e - rx_fd.read
             d == e - (rx_fd.read - client.k)
  <2>6. n \in Int /\ d \in {-W, 0, W} /\ ClientDebt' = ClientDebt + (d - n)
    BY <2>2, <2>3, FdNumbers
  <2> QED BY <2>1, <2>2, <2>5, <2>6, ClientPays
<1>3. CASE block_write
  <2>1. Client("block_write") /\ server' = server
    BY <1>3 DEF block_write
  <2>2. ClientDebt = client.k
    BY <2>1 DEF Client, ClientDebt, Owes
  <2>3. CASE rx_fd.val + client.k <= EventfdMax /\ Go(client, <<>>)
             /\ rx_fd' = [rx_fd EXCEPT !.val = @ + client.k]
    <3> DEFINE e == rx_fd.val + client.k
    <3>1. e \in 0..EventfdMax /\ e \in Int
      BY <2>3, FdNumbers DEF EventfdMax
    <3>2. rx_fd' = [rx_fd EXCEPT !.val = e]
      BY <2>3
    <3> HIDE DEF e
    <3>3. FdTypes' /\ Gap' = Gap + (e - rx_fd.val)
      BY <1>0, <3>1, <3>2, FdMoves
    <3>4. ClientOk' /\ ClientDebt' = 0
      BY <1>1, <2>1, <2>3 DEF Openers
    <3>5. e - rx_fd.val \in Int /\ 0 = ClientDebt + (0 - (e - rx_fd.val))
      BY <2>2, <3>1, FdNumbers DEF e
    <3> QED BY <1>0, <2>1, <3>3, <3>4, <3>5, ClientPays
  <2>4. CASE Go(client, <<"block_undo">>) /\ rx_fd' = rx_fd
    <3> DEFINE st == <<"block_undo">>
    <3>1. st \in Seq(Steps) /\ st # <<>> /\ Head(st) = "block_undo" /\ Follows(st)
      <4>1. "block_undo" \in Steps /\ "block_undo" \notin Openers
        BY DEF Steps, Openers, Later
      <4> QED BY <4>1, OneStep
    <3>2. Go(client, st)
      BY <2>4
    <3> HIDE DEF st
    <3>3. client.todo # <<>> /\ Head(client.todo) \notin Openers
      BY <2>1 DEF Client, Openers
    <3>4. ClientOk' /\ ClientDebt' = Owes(st, client.k)
      BY <1>0, <3>1, <3>2, <3>3, ClientRecords, ClientPushes
    <3>5. Owes(st, client.k) = client.k
      BY <3>1 DEF Owes
    <3> QED BY <2>1, <2>2, <2>4, <3>4, <3>5, ClientKeeps
  <2> QED BY <1>3, <2>3, <2>4 DEF block_write
<1>4. CASE block_undo
  <2>1. Client("block_undo") /\ Failed /\ server' = server
    BY <1>4 DEF block_undo
  <2>2. ClientOk' /\ ClientDebt' = 0 /\ ClientDebt = client.k
    BY <1>0, <2>1, ClientFails DEF Client, ClientDebt, Owes
  <2> DEFINE e == (rx_fd.read + client.k) % W
  <2>3. e \in 0..(W - 1) /\ e - (rx_fd.read + client.k) \in {-W, 0}
    BY FdNumbers, CounterMoves
  <2>4. rx_fd' = [rx_fd EXCEPT !.read = e]
    BY <1>4 DEF block_undo
  <2> HIDE DEF e
  <2>5. FdTypes' /\ Gap' = Gap + (e - rx_fd.read)
    BY <1>0, <2>3, <2>4, FdMoves
  <2> DEFINE n == e - rx_fd.read
             d == e - (rx_fd.read + client.k)
  <2>6. n \in Int /\ d \in {-W, 0, W} /\ ClientDebt' = ClientDebt + (d - n)
    BY <2>2, <2>3, FdNumbers
  <2> QED BY <2>1, <2>2, <2>5, <2>6, ClientPays
<1>5. CASE wait_write
  <2>1. Client("wait_write") /\ Go(client, <<>>) /\ server' = server
    BY <1>5 DEF wait_write
  <2>2. ClientOk' /\ ClientDebt' = -1 /\ ClientDebt = 0
    <3>1. ClientOk' /\ ClientDebt' = -1
      BY <1>1, <2>1
    <3>2. ClientDebt = 0
      BY <2>1 DEF Client, ClientDebt, Owes
    <3> QED BY <3>1, <3>2
  <2> DEFINE e == rx_fd.val + 1
  <2>3. e \in 0..EventfdMax /\ rx_fd' = [rx_fd EXCEPT !.val = e]
    BY <1>5, FdNumbers DEF wait_write, EventfdMax
  <2>4. e - rx_fd.val = 1
    BY FdNumbers
  <2> HIDE DEF e
  <2>5. FdTypes' /\ Gap' = Gap + 1
    BY <1>0, <2>3, <2>4, FdMoves
  <2>6. ClientDebt' = ClientDebt + (0 - 1)
    BY <2>2
  <2> QED BY <1>0, <2>1, <2>2, <2>5, <2>6, ClientPays
<1>6. CASE wait_sub
  <2>1. Client("wait_sub") /\ Go(client, <<>>) /\ server' = server
    BY <1>6 DEF wait_sub
  <2>2. ClientOk' /\ ClientDebt' = 0 /\ ClientDebt = -1
    <3>1. ClientOk' /\ ClientDebt' = 0
      BY <1>1, <2>1 DEF Openers
    <3>2. ClientDebt = -1
      BY <2>1 DEF Client, ClientDebt, Owes
    <3> QED BY <3>1, <3>2
  <2> DEFINE e == (rx_fd.read - 1) % W
  <2>3. e \in 0..(W - 1) /\ e - (rx_fd.read - 1) \in {0, W}
    BY <1>0, FdNumbers, CounterMoves
  <2>4. rx_fd' = [rx_fd EXCEPT !.read = e]
    BY <1>6 DEF wait_sub
  <2> HIDE DEF e
  <2>5. FdTypes' /\ Gap' = Gap + (e - rx_fd.read)
    BY <1>0, <2>3, <2>4, FdMoves
  <2> DEFINE n == e - rx_fd.read
             d == e - (rx_fd.read - 1)
  <2>6. n \in Int /\ d \in {-W, 0, W} /\ ClientDebt' = ClientDebt + (d - n)
    BY <2>2, <2>3, FdNumbers
  <2> QED BY <2>1, <2>2, <2>5, <2>6, ClientPays
<1>7. CASE ack_wait
  <2>1. Client("ack_wait") /\ server' = server
    BY <1>7 DEF ack_wait
  <2>2. ClientDebt = 0 /\ client.todo # <<>> /\ Head(client.todo) \notin Openers
    BY <2>1 DEF Client, ClientDebt, Owes, Openers
  <2>3. CASE Go([client EXCEPT !.k = rx_fd.val], <<"ack_add">>) /\ rx_fd' = [rx_fd EXCEPT !.val = 0]
    <3>1. 0 \in 0..EventfdMax /\ rx_fd.val \in 0..(W - 1) /\ rx_fd.val \in Int
      BY FdNumbers DEF EventfdMax
    <3>2. FdTypes' /\ Gap' = Gap + (0 - rx_fd.val)
      BY <1>0, <2>3, <3>1, FdMoves
    <3> DEFINE st == <<"ack_add">>
               c == [client EXCEPT !.k = rx_fd.val]
    <3>3. st \in Seq(Steps) /\ st # <<>> /\ Head(st) = "ack_add" /\ Follows(st)
      <4>1. "ack_add" \in Steps /\ "ack_add" \notin Openers
        BY DEF Steps, Openers, Later
      <4> QED BY <4>1, OneStep
    <3>4. Go(c, st)
      BY <2>3
    <3>5. c = [todo |-> client.todo, rest |-> c.rest, room |-> c.room, k |-> c.k] /\ c.k = rx_fd.val
      BY <1>0, ClientRecords
    <3> HIDE DEF st, c
    <3>6. ClientOk' /\ ClientDebt' = Owes(st, c.k)
      BY <1>0, <2>2, <3>1, <3>3, <3>4, <3>5, ClientPushes
    <3>7. Owes(st, c.k) = rx_fd.val
      BY <3>3, <3>5 DEF Owes
    <3>8. 0 - rx_fd.val \in Int /\ ClientDebt' = ClientDebt + (0 - (0 - rx_fd.val))
      BY <2>2, <3>1, <3>6, <3>7
    <3> QED BY <1>0, <2>1, <3>2, <3>6, <3>8, ClientPays
  <2>4. CASE client' = AtRest /\ rx_fd' = rx_fd
    BY <2>1, <2>2, <2>4, ClientStops
  <2> QED BY <1>7, <2>3, <2>4 DEF ack_wait, Return
<1>8. CASE ack_add
  <2>1. Client("ack_add") /\ Go(client, <<>>) /\ server' = server
    BY <1>8 DEF ack_add
  <2>2. ClientOk' /\ ClientDebt' = 0 /\ ClientDebt = client.k
    <3>1. ClientOk' /\ ClientDebt' = 0
      BY <1>1, <2>1 DEF Openers
    <3>2. ClientDebt = client.k
      BY <2>1 DEF Client, ClientDebt, Owes
    <3> QED BY <3>1, <3>2
  <2> DEFINE e == (rx_fd.read + client.k) % W
  <2>3. e \in 0..(W - 1) /\ e - (rx_fd.read + client.k) \in {-W, 0}
    BY FdNumbers, CounterMoves
  <2>4. rx_fd' = [rx_fd EXCEPT !.read = e]
    BY <1>8 DEF ack_add
  <2> HIDE DEF e
  <2>5. FdTypes' /\ Gap' = Gap + (e - rx_fd.read)
    BY <1>0, <2>3, <2>4, FdMoves
  <2> DEFINE n == e - rx_fd.read
             d == e - (rx_fd.read + client.k)
  <2>6. n \in Int /\ d \in {-W, 0, W} /\ ClientDebt' = ClientDebt + (d - n)
    BY <2>2, <2>3, FdNumbers
  <2> QED BY <2>1, <2>2, <2>5, <2>6, ClientPays
<1>9. CASE undo_sub
  <2>1. Client("undo_sub") /\ Go(client, <<>>) /\ server' = server
    BY <1>9 DEF undo_sub
  <2>2. ClientOk' /\ ClientDebt' = 1 /\ ClientDebt = 0
    <3>1. ClientOk' /\ ClientDebt' = 1
      BY <1>1, <2>1
    <3>2. ClientDebt = 0
      BY <2>1 DEF Client, ClientDebt, Owes
    <3> QED BY <3>1, <3>2
  <2> DEFINE e == (rx_fd.read - 1) % W
  <2>3. e \in 0..(W - 1) /\ e - (rx_fd.read - 1) \in {0, W}
    BY <1>0, FdNumbers, CounterMoves
  <2>4. rx_fd' = [rx_fd EXCEPT !.read = e]
    BY <1>9 DEF undo_sub
  <2> HIDE DEF e
  <2>5. FdTypes' /\ Gap' = Gap + (e - rx_fd.read)
    BY <1>0, <2>3, <2>4, FdMoves
  <2> DEFINE n == e - rx_fd.read
             d == e - (rx_fd.read - 1)
  <2>6. n \in Int /\ d \in {-W, 0, W} /\ ClientDebt' = ClientDebt + (d - n)
    BY <2>2, <2>3, FdNumbers
  <2> QED BY <2>1, <2>2, <2>5, <2>6, ClientPays
<1>10. CASE undo_write
  <2>1. Client("undo_write") /\ Go(client, <<>>) /\ server' = server
    BY <1>10 DEF undo_write
  <2>2. ClientOk' /\ ClientDebt' = 0 /\ ClientDebt = 1
    <3>1. ClientOk' /\ ClientDebt' = 0
      BY <1>1, <2>1 DEF Openers
    <3>2. ClientDebt = 1
      BY <2>1 DEF Client, ClientDebt, Owes
    <3> QED BY <3>1, <3>2
  <2>3. CASE rx_fd.val < EventfdMax
    <3> DEFINE e == rx_fd.val + 1
    <3>1. e \in 0..EventfdMax /\ e - rx_fd.val = 1
      BY <2>3, FdNumbers DEF EventfdMax
    <3>2. rx_fd' = [rx_fd EXCEPT !.val = e]
      BY <1>10, <2>3 DEF undo_write
    <3> HIDE DEF e
    <3>3. FdTypes' /\ Gap' = Gap + 1
      BY <1>0, <3>1, <3>2, FdMoves
    <3>4. ClientDebt' = ClientDebt + (0 - 1)
      BY <2>2
    <3> QED BY <1>0, <2>1, <2>2, <3>3, <3>4, ClientPays
  <2>4. CASE ~(rx_fd.val < EventfdMax)
    <3> DEFINE e == (rx_fd.read + 1) % W
    <3>1. e \in 0..(W - 1) /\ e - (rx_fd.read + 1) \in {-W, 0}
      BY <1>0, FdNumbers, CounterMoves
    <3>2. rx_fd' = [rx_fd EXCEPT !.read = e]
      BY <1>10, <2>4 DEF undo_write
    <3> HIDE DEF e
    <3>3. FdTypes' /\ Gap' = Gap + (e - rx_fd.read)
      BY <1>0, <3>1, <3>2, FdMoves
    <3> DEFINE n == e - rx_fd.read
               d == e - (rx_fd.read + 1)
    <3>4. n \in Int /\ d \in {-W, 0, W} /\ ClientDebt' = ClientDebt + (d - n)
      BY <2>2, <3>1, FdNumbers
    <3> QED BY <2>1, <2>2, <3>3, <3>4, ClientPays
  <2> QED BY <2>3, <2>4
<1> QED BY <1>2, <1>3, <1>4, <1>5, <1>6, <1>7, <1>8, <1>9, <1>10

\* The lists that the server goes on with.
LEMMA ServerLists ==
    /\ {"ack", "receive", "transmit", "notify", "unblock", "unblock_read"} \subseteq Plain
    /\ \A s \in {<<>>, <<"receive">>, <<"transmit">>, <<"notify">>, <<"unblock">>,
                 <<"unblock_read">>, <<"receive", "transmit">>, <<"notify", "transmit">>,
                 <<"notify", "unblock">>, <<"notify", "receive">>, <<"unblock", "transmit">>,
                 <<"ack", "receive", "transmit">>, <<"notify_add", "notify_write">>} :
          s \in Seq(Steps) /\ Behind(s)
<1>1. {"ack", "receive", "transmit", "notify", "unblock", "unblock_read"} \subseteq Plain
  BY DEF Plain, Steps, Openers, Later
<1>2. <<>> \in Seq(Steps) /\ Behind(<<>>)
  BY DEF Behind, Follows
<1>3. \A x \in {"receive", "transmit", "notify", "unblock", "unblock_read"} :
         <<x>> \in Seq(Steps) /\ Behind(<<x>>)
  BY <1>1, PlainList
<1>4. /\ <<"receive", "transmit">> \in Seq(Steps) /\ Behind(<<"receive", "transmit">>)
      /\ <<"notify", "transmit">> \in Seq(Steps) /\ Behind(<<"notify", "transmit">>)
      /\ <<"notify", "unblock">> \in Seq(Steps) /\ Behind(<<"notify", "unblock">>)
      /\ <<"notify", "receive">> \in Seq(Steps) /\ Behind(<<"notify", "receive">>)
      /\ <<"unblock", "transmit">> \in Seq(Steps) /\ Behind(<<"unblock", "transmit">>)
  BY <1>1, PlainLists
<1>5. <<"ack", "receive", "transmit">> \in Seq(Steps) /\ Behind(<<"ack", "receive", "transmit">>)
  BY <1>1, PlainLists
<1>6. <<"notify_add", "notify_write">> \in Seq(Steps) /\ Behind(<<"notify_add", "notify_write">>)
  <2>1. "notify_add" \in Openers /\ Second("notify_add") = "notify_write"
    BY DEF Openers, Second
  <2> QED BY <2>1, TwoSteps
<1> QED BY <1>1, <1>2, <1>3, <1>4, <1>5, <1>6

\* A step of the server, other than an opener, that goes on with a list that owes nothing.
LEMMA ServerContinues ==
    ASSUME ServerOk, server.todo # <<>>, Head(server.todo) \notin Openers,
           NEW st \in Seq(Steps), Behind(st), NEW k, Do(st, k)
    PROVE  ServerOk' /\ ServerDebt' = 0
<1>1. st # <<>> => Head(st) # "unblock_sub"
  BY DEF Behind, Later
<1>2. /\ ServerOk' /\ (st # <<>> => ServerDebt' = ServerOwes(st, k))
      /\ (st = <<>> => ServerDebt' = 0)
  BY <1>1, ServerGoes DEF Behind
<1>3. ServerOwes(st, k) = 0
  BY BehindOwesNothing
<1> QED BY <1>2, <1>3

\* A plain step of the server keeps the balance.
LEMMA ServerPlain ==
    ASSUME FdInv, NEW x \in Plain, Server(x), NEW st \in Seq(Steps), Behind(st), NEW k, Do(st, k),
           rx_fd' = rx_fd, client' = client
    PROVE  FdInv'
<1>1. ServerOk /\ server.todo # <<>> /\ Head(server.todo) \notin Openers /\ ServerDebt = 0
  BY DEF FdInv, Server, Plain, ServerDebt, ServerOwes, Later
<1>2. ServerOk' /\ ServerDebt' = 0
  BY <1>1, ServerContinues
<1> QED BY <1>1, <1>2, ServerKeeps

\* A handler begins.
LEMMA ServerBegins ==
    ASSUME FdInv, NEW st \in Seq(Steps), Behind(st), Handle(st), rx_fd' = rx_fd, client' = client
    PROVE  FdInv'
<1>1. ServerOk' /\ ServerDebt' = ServerDebt
  BY ServerHandles DEF FdInv
<1> QED BY <1>1, ServerKeeps

\* The server's events.
LEMMA ServerEvents ==
    ASSUME FdInv,
           \/ handle_io \/ do_lwip_recv \/ do_lwip_recv_eof \/ do_lwip_sent \/ do_lwip_poll
           \/ do_lwip_connected \/ do_lwip_error
    PROVE  FdInv'
<1>1. rx_fd' = rx_fd /\ client' = client
  BY DEF handle_io, do_lwip_recv, do_lwip_recv_eof, do_lwip_sent, do_lwip_poll,
         do_lwip_connected, do_lwip_error
<1> DEFINE Lists == {<<>>, <<"receive">>, <<"transmit">>, <<"notify">>, <<"unblock">>,
                     <<"receive", "transmit">>, <<"notify", "transmit">>, <<"notify", "unblock">>,
                     <<"ack", "receive", "transmit">>}
<1>2. \A s \in Lists : s \in Seq(Steps) /\ Behind(s)
  BY ServerLists
<1>3. \E st \in Lists : Handle(st)
  <2>1. CASE handle_io
    BY <2>1 DEF handle_io
  <2>2. CASE do_lwip_recv
    BY <2>2 DEF do_lwip_recv
  <2>3. CASE do_lwip_recv_eof
    BY <2>3 DEF do_lwip_recv_eof
  <2>4. CASE do_lwip_sent
    BY <2>4 DEF do_lwip_sent
  <2>5. CASE do_lwip_poll
    BY <2>5 DEF do_lwip_poll
  <2>6. CASE do_lwip_connected
    BY <2>6 DEF do_lwip_connected
  <2>7. CASE do_lwip_error
    BY <2>7 DEF do_lwip_error
  <2> QED BY <2>1, <2>2, <2>3, <2>4, <2>5, <2>6, <2>7
<1>4. PICK st \in Lists : Handle(st)
  BY <1>3
<1> HIDE DEF Lists
<1> QED BY <1>1, <1>2, <1>4, ServerBegins

\* The server's steps around the rings.
LEMMA ServerRingSteps ==
    ASSUME FdInv, server_ack \/ receive \/ transmit PROVE FdInv'
<1>1. rx_fd' = rx_fd /\ client' = client
  BY DEF server_ack, receive, transmit
<1>2. CASE server_ack
  <2>1. CASE Server("ack") /\ Do(<<"ack_add">>, tx_fd.val)
    <3> DEFINE st == <<"ack_add">>
    <3>1. st \in Seq(Steps) /\ st # <<>> /\ Head(st) = "ack_add" /\ Follows(st)
      <4>1. "ack_add" \in Steps /\ "ack_add" \notin Openers
        BY DEF Steps, Openers, Later
      <4> QED BY <4>1, OneStep
    <3>2. Do(st, tx_fd.val)
      BY <2>1
    <3> HIDE DEF st
    <3>3. server.todo # <<>> /\ Head(server.todo) \notin Openers /\ ServerDebt = 0
      BY <2>1 DEF Server, Openers, ServerDebt, ServerOwes
    <3>4. ServerOk' /\ ServerDebt' = ServerOwes(st, tx_fd.val)
      BY <3>1, <3>2, <3>3, ServerGoes DEF FdInv
    <3>5. ServerOwes(st, tx_fd.val) = 0
      BY <3>1 DEF ServerOwes
    <3> QED BY <1>1, <3>3, <3>4, <3>5, ServerKeeps
  <2>2. CASE Server("ack_add") /\ Do(<<>>, 0)
    <3>1. server.todo # <<>> /\ Head(server.todo) \notin Openers /\ ServerDebt = 0
      BY <2>2 DEF Server, Openers, ServerDebt, ServerOwes
    <3>2. ServerOk' /\ ServerDebt' = 0
      BY <2>2, <3>1, ServerContinues, ServerLists DEF FdInv
    <3> QED BY <1>1, <3>1, <3>2, ServerKeeps
  <2> QED BY <1>2, <2>1, <2>2 DEF server_ack
<1>3. CASE receive
  <2>1. PICK st \in {<<"notify", "receive">>, <<>>} : Do(st, 0)
    BY <1>3 DEF receive
  <2>2. Server("receive")
    BY <1>3 DEF receive
  <2> QED BY <1>1, <2>1, <2>2, ServerLists, ServerPlain
<1>4. CASE transmit
  <2>1. PICK st \in {<<"unblock", "transmit">>, <<>>} : Do(st, 0)
    BY <1>4 DEF transmit
  <2>2. Server("transmit")
    BY <1>4 DEF transmit
  <2> QED BY <1>1, <2>1, <2>2, ServerLists, ServerPlain
<1> QED BY <1>2, <1>3, <1>4

\* The server's steps on the eventfd and on its own counter.
LEMMA ServerFdSteps ==
    ASSUME FdInv, server_notify \/ unblock PROVE FdInv'
<1>0. /\ ServerOk /\ FdTypes /\ 1 \in 0..(W - 1) /\ 0 \in {-W, 0, W} /\ client' = client
      /\ <<>> \in Seq(Steps) /\ Behind(<<>>) /\ Follows(<<>>)
  BY WidthLarge, ServerLists DEF FdInv, server_notify, unblock, Behind
<1>1. ASSUME NEW x, Server(x), x \notin Openers, Do(<<>>, 0)
      PROVE  ServerOk' /\ ServerDebt' = 0
  BY <1>0, <1>1, ServerContinues DEF Server
<1>2. CASE Server("notify") /\ server_notify
  <2>1. PICK st \in {<<"notify_add", "notify_write">>, <<>>} : Do(st, 0)
    BY <1>2 DEF server_notify, Server
  <2>2. rx_fd' = rx_fd
    BY <1>2 DEF server_notify, Server
  <2> QED BY <1>0, <1>2, <2>1, <2>2, ServerLists, ServerPlain
<1>3. CASE Server("notify_add") /\ server_notify
  <2>1. Do(<<>>, 0) /\ rx_fd' = [rx_fd EXCEPT !.write = (rx_fd.write + 1) % W]
    BY <1>3 DEF server_notify, Server
  <2>2. ServerDebt = 0
    BY <1>3 DEF Server, ServerDebt, ServerOwes
  <2>3. ServerOk' /\ ServerDebt' = 1
    <3>1. server.todo # <<>> /\ Head(server.todo) = "notify_add"
      BY <1>3 DEF Server
    <3> QED BY <1>0, <2>1, <3>1, ServerGoes
  <2> DEFINE e == (rx_fd.write + 1) % W
  <2>4. e \in 0..(W - 1) /\ e - (rx_fd.write + 1) \in {-W, 0}
    BY <1>0, FdNumbers, CounterMoves
  <2> HIDE DEF e
  <2>5. rx_fd' = [rx_fd EXCEPT !.write = e]
    BY <2>1 DEF e
  <2>6. FdTypes' /\ Gap' = Gap - (e - rx_fd.write)
    BY <1>0, <2>4, <2>5, FdMoves
  <2> DEFINE n == rx_fd.write - e
             d == (rx_fd.write + 1) - e
  <2>7. n \in Int /\ d \in {-W, 0, W} /\ ServerDebt' = ServerDebt + (d - n) /\ Gap' = Gap + n
    BY <2>2, <2>3, <2>4, <2>6, FdNumbers
  <2> QED BY <1>0, <2>3, <2>6, <2>7, ServerPays
<1>4. CASE Server("notify_write") /\ server_notify
  <2>1. ServerDebt = 1
    BY <1>4 DEF Server, ServerDebt, ServerOwes
  <2>2. CASE rx_fd.val + 1 <= EventfdMax
    <3> DEFINE e == rx_fd.val + 1
    <3>1. Do(<<>>, 0) /\ rx_fd' = [rx_fd EXCEPT !.val = e]
      BY <1>4, <2>2 DEF server_notify, Server
    <3>2. e \in 0..EventfdMax /\ e - rx_fd.val = 1
      BY <2>2, FdNumbers DEF EventfdMax
    <3> HIDE DEF e
    <3>3. FdTypes' /\ Gap' = Gap + 1
      BY <1>0, <3>1, <3>2, FdMoves
    <3>4. ServerOk' /\ ServerDebt' = 0
      BY <1>1, <1>4, <3>1 DEF Openers
    <3>5. ServerDebt' = ServerDebt + (0 - 1)
      BY <2>1, <3>4
    <3> QED BY <1>0, <3>3, <3>4, <3>5, ServerPays
  <2>3. CASE ~(rx_fd.val + 1 <= EventfdMax)
    <3> DEFINE st == <<"notify_undo">>
    <3>1. st \in Seq(Steps) /\ st # <<>> /\ Head(st) = "notify_undo" /\ Follows(st)
      <4>1. "notify_undo" \in Steps /\ "notify_undo" \notin Openers
        BY DEF Steps, Openers, Later
      <4> QED BY <4>1, OneStep
    <3>2. Do(st, 0) /\ rx_fd' = rx_fd
      BY <1>4, <2>3 DEF server_notify, Server
    <3> HIDE DEF st
    <3>3. server.todo # <<>> /\ Head(server.todo) \notin Openers
      BY <1>4 DEF Server, Openers
    <3>4. ServerOk' /\ ServerDebt' = ServerOwes(st, 0)
      BY <1>0, <3>1, <3>2, <3>3, ServerGoes
    <3>5. ServerOwes(st, 0) = 1
      BY <3>1 DEF ServerOwes
    <3> QED BY <1>0, <2>1, <3>2, <3>4, <3>5, ServerKeeps
  <2> QED BY <2>2, <2>3
<1>5. CASE Server("notify_undo") /\ server_notify
  <2>1. Do(<<>>, 0) /\ rx_fd' = [rx_fd EXCEPT !.write = (rx_fd.write - 1) % W]
    BY <1>5 DEF server_notify, Server
  <2>2. ServerDebt = 1
    BY <1>5 DEF Server, ServerDebt, ServerOwes
  <2>3. ServerOk' /\ ServerDebt' = 0
    BY <1>1, <1>5, <2>1 DEF Openers
  <2> DEFINE e == (rx_fd.write - 1) % W
  <2>4. e \in 0..(W - 1) /\ e - (rx_fd.write - 1) \in {0, W}
    BY <1>0, FdNumbers, CounterMoves
  <2> HIDE DEF e
  <2>5. rx_fd' = [rx_fd EXCEPT !.write = e]
    BY <2>1 DEF e
  <2>6. FdTypes' /\ Gap' = Gap - (e - rx_fd.write)
    BY <1>0, <2>4, <2>5, FdMoves
  <2> DEFINE n == rx_fd.write - e
             d == (rx_fd.write - 1) - e
  <2>7. n \in Int /\ d \in {-W, 0, W} /\ ServerDebt' = ServerDebt + (d - n) /\ Gap' = Gap + n
    BY <2>2, <2>3, <2>4, <2>6, FdNumbers
  <2> QED BY <1>0, <2>3, <2>6, <2>7, ServerPays
<1>6. CASE Server("unblock") /\ unblock
  <2>1. PICK st \in {<<"unblock_read">>, <<>>} : Do(st, 0)
    BY <1>6 DEF unblock, Server
  <2>2. rx_fd' = rx_fd
    BY <1>6 DEF unblock, Server
  <2> QED BY <1>0, <1>6, <2>1, <2>2, ServerLists, ServerPlain
<1>7. CASE Server("unblock_read") /\ unblock
  <2>1. CASE rx_fd.val > 0
    <3> DEFINE st == <<"unblock_sub">>
    <3>1. st \in Seq(Steps) /\ st # <<>> /\ Head(st) = "unblock_sub" /\ Follows(st)
      <4>1. "unblock_sub" \in Steps /\ "unblock_sub" \notin Openers
        BY DEF Steps, Openers, Later
      <4> QED BY <4>1, OneStep
    <3>2. Do(st, rx_fd.val) /\ rx_fd' = [rx_fd EXCEPT !.val = 0]
      BY <1>7, <2>1 DEF unblock, Server
    <3> HIDE DEF st
    <3>3. server.todo # <<>> /\ Head(server.todo) \notin Openers /\ ServerDebt = 0
      BY <1>7 DEF Server, Openers, ServerDebt, ServerOwes
    <3>4. 0 \in 0..EventfdMax /\ rx_fd.val \in 0..(W - 1) /\ rx_fd.val \in Int
      BY FdNumbers DEF EventfdMax
    <3>5. ServerOk' /\ ServerDebt' = ServerOwes(st, rx_fd.val)
      BY <1>0, <3>1, <3>2, <3>3, <3>4, ServerGoes
    <3>6. ServerOwes(st, rx_fd.val) = rx_fd.val
      BY <3>1 DEF ServerOwes
    <3>7. FdTypes' /\ Gap' = Gap + (0 - rx_fd.val)
      BY <1>0, <3>2, <3>4, FdMoves
    <3>8. 0 - rx_fd.val \in Int /\ ServerDebt' = ServerDebt + (0 - (0 - rx_fd.val))
      BY <3>3, <3>4, <3>5, <3>6
    <3> QED BY <1>0, <3>5, <3>7, <3>8, ServerPays
  <2>2. CASE ~(rx_fd.val > 0)
    <3>1. Do(<<>>, 0) /\ rx_fd' = rx_fd
      BY <1>7, <2>2 DEF unblock, Server
    <3> QED BY <1>0, <1>7, <3>1, ServerLists, ServerPlain
  <2> QED BY <2>1, <2>2
<1>8. CASE Server("unblock_sub") /\ unblock
  <2>1. Do(<<>>, 0) /\ rx_fd' = [rx_fd EXCEPT !.write = (rx_fd.write - server.k) % W]
    BY <1>8 DEF unblock, Server
  <2>2. ServerDebt = server.k /\ server.k \in 0..(W - 1)
    BY <1>0, <1>8 DEF Server, ServerDebt, ServerOwes, ServerOk
  <2>3. ServerOk' /\ ServerDebt' = 0
    BY <1>1, <1>8, <2>1 DEF Openers
  <2> DEFINE e == (rx_fd.write - server.k) % W
  <2>4. e \in 0..(W - 1) /\ e - (rx_fd.write - server.k) \in {0, W}
    BY <2>2, FdNumbers, CounterMoves
  <2> HIDE DEF e
  <2>5. rx_fd' = [rx_fd EXCEPT !.write = e]
    BY <2>1 DEF e
  <2>6. FdTypes' /\ Gap' = Gap - (e - rx_fd.write)
    BY <1>0, <2>4, <2>5, FdMoves
  <2> DEFINE n == rx_fd.write - e
             d == (rx_fd.write - server.k) - e
  <2>7. n \in Int /\ d \in {-W, 0, W} /\ ServerDebt' = ServerDebt + (d - n) /\ Gap' = Gap + n
    BY <2>2, <2>3, <2>4, <2>6, FdNumbers
  <2> QED BY <1>0, <2>3, <2>6, <2>7, ServerPays
<1> QED BY <1>2, <1>3, <1>4, <1>5, <1>6, <1>7, <1>8 DEF server_notify, unblock

\* Nothing has moved at first.
LEMMA FdStarts ==
    ASSUME Init PROVE FdInv
<1>1. /\ client = AtRest /\ server = Quiet /\ rx_fd = [read |-> 0, write |-> 0, val |-> 0]
      /\ W \in Nat /\ W > 8
  BY WidthLarge DEF Init
<1>2. FdTypes /\ Gap = 0
  BY <1>1 DEF FdTypes, EventfdMax, Gap
<1>3. <<>> \in Seq(Steps) /\ Follows(<<>>)
  BY ServerLists DEF Behind
<1>4. ClientOk /\ ClientDebt = 0
  BY <1>1, <1>3 DEF ClientOk, AtRest, ClientDebt, Owes
<1>5. ServerOk /\ ServerDebt = 0
  BY <1>1, <1>3 DEF ServerOk, Server, Quiet, ServerDebt, ServerOwes
<1> QED BY <1>2, <1>4, <1>5 DEF FdInv

\* The invariant gives the balance of the counters.
LEMMA FdHolds ==
    ASSUME FdInv PROVE FdBalance
<1>1. Pending = ClientDebt + ServerDebt
  BY DEF Pending, Client, Server, ClientDebt, ServerDebt, Owes, ServerOwes
<1> DEFINE x == rx_fd.write - rx_fd.read
           y == rx_fd.val + Pending
<1>2. ClientDebt \in (-1)..(W - 1) /\ ServerDebt \in 0..(W - 1)
  <2>1. ClientDebt \in (-1)..(W - 1)
    BY DebtRange DEF FdInv, ClientOk, ClientDebt
  <2>2. ServerDebt \in 0..(W - 1)
    BY DebtRange DEF FdInv, ServerOk, ServerDebt, Server
  <2> QED BY <2>1, <2>2
<1>3. x \in (1 - W)..(W - 1) /\ y \in (-1)..(3 * W - 4)
  BY <1>1, <1>2, FdNumbers
<1>4. y - x \in {-W, 0, W, 2 * W, 3 * W}
  BY <1>1, <1>2, FdNumbers DEF FdInv, Gap
<1> HIDE DEF x, y
<1>5. W \in Nat \ {0} /\ W > 8 /\ x \in Int /\ y \in Int
  BY <1>3, WidthLarge
<1>6. /\ x \in 0..(W - 1) => x % W = x
      /\ x \in (-W)..(-1) => x % W = x + W
  BY <1>5, Remainder
<1>7. /\ y \in 0..(W - 1) => y % W = y
      /\ y \in W..(2 * W - 1) => y % W = y - W
      /\ y \in (2 * W)..(3 * W - 1) => y % W = y - 2 * W
      /\ y \in (-W)..(-1) => y % W = y + W
  BY <1>5, Remainder
<1>8. x % W = y % W
  BY <1>3, <1>4, <1>5, <1>6, <1>7
<1> QED BY <1>8 DEF FdBalance, count, x, y

\* The two counters of the client's eventfd (client/stream_channel.cpp,
\* server/stream_channel.cpp) agree with its value, up to what the two processes have begun
\* and not ended, in every interleaving of their steps and for every width of the counters.
THEOREM CountersBalance == MCSpec => []FdBalance
<1>1. MCInit => FdInv
  BY FdStarts DEF MCInit
<1>2. ASSUME FdInv, [MCNext]_all PROVE FdInv'
  <2>1. CASE Next
    BY <1>2, <2>1, ClientRingSteps, ClientCallSteps, ClientFdSteps, ServerEvents,
       ServerRingSteps, ServerFdSteps DEF Next, ClientSteps, ServerSteps
  <2>2. CASE UNCHANGED vars
    BY <1>2, <2>2 DEF vars, FdInv, FdTypes, ClientOk, ServerOk, Server, Gap, ClientDebt, ServerDebt
  <2> QED BY <1>2, <2>1, <2>2 DEF MCNext, all
<1>3. FdInv => FdBalance
  BY FdHolds
<1> QED BY <1>1, <1>2, <1>3, PTL DEF MCSpec
=============================================================================
