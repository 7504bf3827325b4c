------------------------- MODULE PortServiceProofs --------------------------
(***************************************************************************)
(* Proofs about what users of a port rely on: the buffers of captures      *)
(* (CaptureBuffer), for every size and all lengths of packets, and the     *)
(* server of network generators (Firehose), for all plans of its clients.  *)
(***************************************************************************)
EXTENDS MCPortUsers, Integers, Sequences, TLAPS, FiniteSetTheorems, WellFoundedInduction

-----------------------------------------------------------------------------
(* Recursion over numbers.                                                 *)

\* A set of numbers has a least one: the form in which the provers can use
\* induction.
LEMMA LeastOf ==
    ASSUME NEW E, E \subseteq Nat, E # {}
    PROVE  \E x \in E : \A y \in E : x <= y
<1>1. PICK x \in E : \A y \in E : <<y, x>> \notin OpToRel(<, Nat)
  BY NatLessThanWellFounded, WFMin, Zenon
<1>2. \A y \in E : ~(y < x)
  BY <1>1 DEF OpToRel
<1> QED BY <1>2

\* One step of a recursive function: its value at a comes from that at next[a].
Recurs(f, D, done, next, base, g) ==
    f = [a \in D |-> IF a \in done THEN base[a] ELSE g[a][f[next[a]]]]

\* A function whose arguments get smaller by some measure until it is done is
\* defined by its recursion.
LEMMA Recursion ==
    ASSUME NEW D, NEW V, NEW done, NEW next \in [D -> D],
           NEW top \in Nat, NEW m \in [D -> 0..top],
           \A a \in D : a \notin done => m[next[a]] < m[a],
           NEW base \in [D -> V], NEW g \in [D -> [V -> V]]
    PROVE  \E f \in [D -> V] : Recurs(f, D, done, next, base, g)
<1> DEFINE step(f, a) == IF a \in done THEN base[a] ELSE g[a][f[next[a]]]
           good(f, n) == \A a \in D : m[a] < n => f[a] = step(f, a)
           has(n) == \E f \in [D -> V] : good(f, n)
           bad == {n \in Nat : ~has(n)}
<1>1. bad = {}
  <2> SUFFICES ASSUME bad # {} PROVE FALSE
    OBVIOUS
  <2>1. PICK n \in bad : \A y \in bad : n <= y
    <3>1. bad \subseteq Nat
      OBVIOUS
    <3> HIDE DEF bad
    <3> QED BY <3>1, LeastOf
  <2>2. n \in Nat /\ ~has(n)
    OBVIOUS
  <2>3. \A k \in Nat : k < n => has(k)
    <3> SUFFICES ASSUME NEW k \in Nat, k < n, ~has(k) PROVE FALSE
      OBVIOUS
    <3>1. k \in bad
      <4> HIDE DEF has
      <4> QED OBVIOUS
    <3> HIDE DEF bad, has
    <3> QED BY <2>1, <2>2, <3>1
  <2>4. CASE n = 0
    <3>1. base \in [D -> V] /\ good(base, 0)
      <4> HIDE DEF step
      <4> QED OBVIOUS
    <3> HIDE DEF good
    <3> QED BY <2>2, <2>4, <3>1
  <2>5. CASE n # 0
    <3>1. n - 1 \in Nat /\ n - 1 < n
      BY <2>2, <2>5
    <3>2. PICK f \in [D -> V] : good(f, n - 1)
      <4> HIDE DEF good
      <4> QED BY <2>3, <3>1
    <3> DEFINE h == [a \in D |-> IF m[a] < n - 1 THEN f[a] ELSE step(f, a)]
    <3>3. \A a \in D : step(f, a) \in V
      OBVIOUS
    <3>4. h \in [D -> V]
      <4> HIDE DEF step
      <4> QED BY <3>3
    <3>5. \A a \in D : m[a] < n => h[a] = step(f, a)
      <4> HIDE DEF step
      <4> QED BY <3>2
    <3>6. ASSUME NEW a \in D, m[a] < n PROVE step(h, a) = step(f, a)
      <4>1. CASE a \in done
        BY <4>1
      <4>2. CASE a \notin done
        <5>1. next[a] \in D /\ m[next[a]] \in Nat /\ m[a] \in Nat /\ m[next[a]] < m[a]
          BY <4>2
        <5>2. m[next[a]] < n - 1
          <6> HIDE DEF h, bad, has
          <6> QED BY <5>1, <3>6, <2>2
        <5>3. h[next[a]] = f[next[a]]
          BY <5>1, <5>2
        <5> QED BY <4>2, <5>3
      <4> QED BY <4>1, <4>2
    <3>7. good(h, n)
      <4> HIDE DEF step, h
      <4> QED BY <3>5, <3>6
    <3> HIDE DEF good, h
    <3> QED BY <2>2, <3>4, <3>7
  <2> QED BY <2>4, <2>5
<1>2. top + 1 \in Nat /\ \A a \in D : m[a] < top + 1
  OBVIOUS
<1>3. has(top + 1)
  <2> HIDE DEF has
  <2> QED BY <1>1, <1>2
<1>4. PICK f \in [D -> V] : good(f, top + 1)
  BY <1>3
<1>5. \A a \in D : f[a] = step(f, a)
  BY <1>2, <1>4
<1>6. f = [a \in D |-> f[a]]
  OBVIOUS
<1>7. f = [a \in D |-> step(f, a)]
  <2> HIDE DEF step
  <2> QED BY <1>5, <1>6
<1> QED BY <1>7 DEF Recurs

\* Induction up to a number.
LEMMA UpTo ==
    ASSUME NEW n \in Nat, NEW E, 0 \in E, \A k \in 0..n : k # n /\ k \in E => k + 1 \in E
    PROVE  0..n \subseteq E
<1> DEFINE bad == {k \in 0..n : k \notin E}
<1> SUFFICES ASSUME bad # {} PROVE FALSE
  OBVIOUS
<1>1. bad \subseteq Nat
  OBVIOUS
<1>2. PICK k \in bad : \A y \in bad : k <= y
  <2> HIDE DEF bad
  <2> QED BY <1>1, LeastOf
<1>3. k \in 0..n /\ k \notin E /\ k # 0
  OBVIOUS
<1>4. k - 1 \in 0..n /\ k - 1 # n
  BY <1>3
<1>5. k - 1 \in E
  <2>1. k - 1 \notin bad
    <3> HIDE DEF bad
    <3> QED BY <1>2, <1>3
  <2> QED BY <1>4, <2>1
<1> HIDE DEF bad
<1>6. k - 1 + 1 = k
  BY <1>3
<1> QED BY <1>3, <1>4, <1>5, <1>6

-----------------------------------------------------------------------------
(* Buffers of captures: volumes.                                           *)

LEMMA BufferConstants ==
    /\ Size \in Nat \ {0} /\ MaxPackets \in Nat
    /\ Lens \subseteq Nat \ {0}
<1>1. B!CaptureBufferAssumption
  BY PortUsersAssumption
<1> QED BY <1>1, Zenon DEF B!CaptureBufferAssumption

\* V gives the sums of the first of n numbers.
Sums(V, W, n) ==
    /\ V \in [0..n -> Nat] /\ V[0] = 0
    /\ \A i \in 1..n : W[i] \in Nat \ {0} /\ V[i] = V[i - 1] + W[i]

LEMMA VolumeSums ==
    ASSUME NEW W \in Seq(Lens), NEW V,
           V = CHOOSE v : v = [n \in 0..Len(W) |-> IF n = 0 THEN 0 ELSE v[n - 1] + W[n]]
    PROVE  Sums(V, W, Len(W))
<1> DEFINE N == Len(W)
           next == [a \in 0..N |-> IF a = 0 THEN 0 ELSE a - 1]
           m == [a \in 0..N |-> a]
           base == [a \in 0..N |-> 0]
           g == [a \in 0..N |-> [v \in Nat |-> IF a = 0 THEN 0 ELSE v + W[a]]]
           good(f) == f = [a \in 0..N |-> IF a = 0 THEN 0 ELSE f[a - 1] + W[a]]
<1>0. N \in Nat /\ \A i \in 1..N : W[i] \in Nat \ {0}
  <2>1. N \in Nat /\ \A i \in 1..N : W[i] \in Lens
    OBVIOUS
  <2> HIDE DEF N
  <2> QED BY <2>1, BufferConstants
<1>1. next \in [0..N -> 0..N] /\ m \in [0..N -> 0..N] /\ base \in [0..N -> Nat]
  BY <1>0
<1>2. g \in [0..N -> [Nat -> Nat]]
  BY <1>0
<1>3. \A a \in 0..N : a \notin {0} => m[next[a]] < m[a]
  BY <1>0
<1>4. PICK f \in [0..N -> Nat] : Recurs(f, 0..N, {0}, next, base, g)
  <2> HIDE DEF next, m, base, g, N
  <2> QED BY <1>0, <1>1, <1>2, <1>3, Recursion
<1>5. \A a \in 0..N : f[a] = IF a = 0 THEN 0 ELSE f[a - 1] + W[a]
  <2> TAKE a \in 0..N
  <2>1. f[a] = IF a \in {0} THEN base[a] ELSE g[a][f[next[a]]]
    <3> HIDE DEF next, base, g, N
    <3> QED BY <1>4 DEF Recurs
  <2>2. CASE a = 0
    BY <2>1, <2>2
  <2>3. CASE a # 0
    <3>1. a - 1 \in 0..N /\ a \in 1..N
      <4> HIDE DEF N
      <4> QED BY <1>0, <2>3
    <3>2. next[a] = a - 1 /\ f[a - 1] \in Nat
      <4> HIDE DEF N
      <4> QED BY <2>3, <3>1
    <3> HIDE DEF N
    <3> QED BY <1>0, <2>1, <2>3, <3>1, <3>2
  <2> QED BY <2>2, <2>3
<1>6. good(f)
  <2>1. f = [a \in 0..N |-> f[a]]
    OBVIOUS
  <2> HIDE DEF N
  <2> QED BY <1>5, <2>1
<1>7. good(V)
  <2> HIDE DEF N
  <2>1. V = CHOOSE v : good(v)
    BY DEF N
  <2> HIDE DEF good
  <2> QED BY <1>6, <2>1
<1>8. \A a \in 0..N : V[a] = IF a = 0 THEN 0 ELSE V[a - 1] + W[a]
  <2> HIDE DEF N
  <2> QED BY <1>7
<1> HIDE DEF N
<1> DEFINE E == {a \in 0..N : V[a] \in Nat}
<1>9. 0 \in E /\ \A k \in 0..N : k # N /\ k \in E => k + 1 \in E
  <2>1. V[0] = 0
    BY <1>0, <1>8
  <2>2. ASSUME NEW k \in 0..N, k # N, k \in E PROVE k + 1 \in E
    <3>1. k + 1 \in 0..N /\ k + 1 # 0 /\ k + 1 \in 1..N /\ k + 1 - 1 = k
      BY <1>0, <2>2
    <3>2. V[k + 1] = V[k] + W[k + 1]
      BY <1>8, <3>1
    <3> QED BY <1>0, <2>2, <3>1, <3>2
  <2> QED BY <1>0, <2>1, <2>2
<1>10. \A a \in 0..N : V[a] \in Nat
  <2> HIDE DEF E
  <2>1. 0..N \subseteq E
    BY <1>0, <1>9, UpTo
  <2> QED BY <2>1 DEF E
<1>11. V \in [0..N -> Nat]
  <2>1. \E v : v = V /\ DOMAIN v = 0..N /\ v = [a \in 0..N |-> v[a]]
    BY <1>7
  <2> QED BY <1>10, <2>1
<1>12. \A i \in 1..N : V[i] = V[i - 1] + W[i]
  BY <1>0, <1>8
<1>13. V[0] = 0
  BY <1>0, <1>8
<1> QED BY <1>0, <1>11, <1>12, <1>13 DEF Sums, N

\* Sums of numbers that are not zero.
LEMMA SumsRise ==
    ASSUME NEW V, NEW W, NEW n \in Nat, Sums(V, W, n), NEW i \in 0..n, NEW j \in i..n
    PROVE  V[i] \in Nat /\ V[j] \in Nat /\ V[i] + (j - i) <= V[j]
<1> DEFINE E == {k \in 0..n : k >= i => V[i] + (k - i) <= V[k]}
<1>1. 0 \in E
  BY DEF Sums
<1>2. ASSUME NEW k \in 0..n, k # n, k \in E PROVE k + 1 \in E
  <2>1. k + 1 \in 1..n /\ k + 1 - 1 = k
    BY <1>2
  <2>2. V[k + 1] = V[k] + W[k + 1] /\ W[k + 1] \in Nat \ {0}
    BY <2>1 DEF Sums
  <2>3. V[k] \in Nat /\ V[i] \in Nat /\ V[k + 1] \in Nat
    BY <1>2, <2>1 DEF Sums
  <2> QED BY <1>2, <2>1, <2>2, <2>3
<1>3. 0..n \subseteq E
  <2> HIDE DEF E
  <2> QED BY <1>1, <1>2, UpTo
<1>4. j \in 0..n /\ j >= i
  OBVIOUS
<1> QED BY <1>3, <1>4 DEF Sums

\* Sums of the same numbers.
LEMMA SumsSame ==
    ASSUME NEW V, NEW W, NEW U, NEW X, NEW n \in Nat, NEW l \in Nat, n <= l,
           Sums(V, W, n), Sums(U, X, l), \A i \in 1..n : W[i] = X[i]
    PROVE  \A i \in 0..n : V[i] = U[i]
<1> DEFINE E == {k \in 0..n : V[k] = U[k]}
<1>1. 0 \in E
  BY DEF Sums
<1>2. ASSUME NEW k \in 0..n, k # n, k \in E PROVE k + 1 \in E
  <2>1. k + 1 \in 1..n /\ k + 1 \in 1..l /\ k + 1 - 1 = k
    BY <1>2
  <2>2. V[k + 1] = V[k] + W[k + 1]
    BY <2>1 DEF Sums
  <2>3. U[k + 1] = U[k] + X[k + 1]
    BY <2>1 DEF Sums
  <2> QED BY <1>2, <2>1, <2>2, <2>3
<1>3. 0..n \subseteq E
  <2> HIDE DEF E
  <2> QED BY <1>1, <1>2, UpTo
<1> QED BY <1>3
-----------------------------------------------------------------------------
(* Buffers of captures: where the packets are.                             *)

Memory == [0..(Size - 1) -> [id : Nat, len : 0..(Size - 1)]]

\* The cells of the first n packets.
Cells(V, n) == n + V[n]

Packet(W, i) == [id |-> i, len |-> W[i]]

\* The packets after the first a, up to b, are in memory one after the other.
Placed(M, V, W, base, a, b) ==
    \A i \in (a + 1)..b : M[base + Cells(V, i - 1) - Cells(V, a)] = Packet(W, i)

\* The statistics when the first o of n packets are dropped.
Since(V, n, o) == [packets |-> n - o, bytes |-> V[n] - V[o]]

\* A buffer that has not wrapped: all packets, from the start.
Plain(V, W, n, M, write, wrap) ==
    /\ wrap = B!Null
    /\ write = Cells(V, n) /\ write <= Size
    /\ Placed(M, V, W, 0, 0, n)

\* The oldest packets, up to s, are between the write address and the end of those
\* before the wrap; or none of them is left.
Older(V, write, wrap, end, s, o) ==
    \/ /\ write <= wrap /\ end <= Size
       /\ wrap + Cells(V, s) - Cells(V, o) = end
    \/ wrap = 0 /\ o = s

\* A buffer that has wrapped before it wrote the packet s + 1: the packets after s
\* are at the start, and the oldest one is o + 1.
Wrapped(V, W, n, M, write, wrap, end, s, o) ==
    /\ o <= s /\ s < n
    /\ write = Cells(V, n) - Cells(V, s) /\ write <= Size
    /\ wrap \in Nat /\ end \in Nat
    /\ Older(V, write, wrap, end, s, o)
    /\ Placed(M, V, W, 0, s, n)
    /\ Placed(M, V, W, wrap, o, s)

\* A reader has got g packets from o on.
Got(V, r, g, o) ==
    /\ r.got = [i \in 1..g |-> o + i]
    /\ r.offset = V[o + g] - V[o]

\* Where a reader of a plain buffer is, which took e packets for all.
ReadsPlain(V, n, r, calm, e, g) ==
    /\ g <= e /\ (calm => e = n)
    /\ r.wrap = B!Null /\ r.end = Cells(V, e) /\ r.addr = Cells(V, g)
    /\ Got(V, r, g, 0) /\ (r.eof => g = e)

\* Where a reader of a wrapped buffer is.
ReadsWrapped(V, n, r, write, wrap, end, s, o, g) ==
    /\ o + g <= n
    /\ r.wrap = write /\ r.end = end
    /\ Got(V, r, g, o) /\ (r.eof => o + g = n)
    /\ \/ /\ o + g <= s /\ write <= wrap
          /\ wrap + Cells(V, s) - Cells(V, o) = end
          /\ r.addr = wrap + Cells(V, o + g) - Cells(V, o)
       \/ o + g >= s /\ r.addr = Cells(V, o + g) - Cells(V, s)

IsReader(r) == DOMAIN r = {"end", "wrap", "addr", "offset", "eof", "got"}

AllKept(V, W, n) ==
    /\ Plain(V, W, n, mem, m_write_addr, m_wrap_addr)
    /\ m_stats = Since(V, n, 0)
    /\ quiet \/ ~wraps => \E e, g \in 0..n : ReadsPlain(V, n, reader, quiet, e, g)

NewestKept(V, W, n, s, o) ==
    /\ wraps
    /\ Wrapped(V, W, n, mem, m_write_addr, m_wrap_addr, m_wrap_end_addr, s, o)
    /\ m_stats = Since(V, n, o)
    /\ quiet => \E g \in 0..n : ReadsWrapped(V, n, reader, m_write_addr, m_wrap_addr,
                                             m_wrap_end_addr, s, o, g)

\* The inductive invariant.
BInv ==
    /\ wraps \in BOOLEAN /\ quiet \in BOOLEAN /\ written \in Seq(Lens)
    /\ mem \in Memory
    /\ IsReader(reader)
    /\ \/ AllKept(B!volume, written, Len(written))
       \/ \E s, o \in 0..Len(written) : NewestKept(B!volume, written, Len(written), s, o)

-----------------------------------------------------------------------------
(* Buffers of captures: walks over the packets.                            *)

\* The packets after the first a, up to b, end at an address.
Chain(V, W, n, base, a, b, to) ==
    /\ n \in Nat /\ a \in 0..n /\ b \in a..n /\ base \in Nat
    /\ Sums(V, W, n)
    /\ Placed(mem, V, W, base, a, b)
    /\ to = base + Cells(V, b) - Cells(V, a) /\ to <= Size

\* The address of the packet i + 1 of such packets.
Place(V, base, a, i) == base + Cells(V, i) - Cells(V, a)

LEMMA CellsRise ==
    ASSUME NEW V, NEW W, NEW n \in Nat, Sums(V, W, n), NEW i \in 0..n, NEW j \in i..n
    PROVE  /\ Cells(V, i) \in Nat /\ Cells(V, j) \in Nat
           /\ Cells(V, i) + 2 * (j - i) <= Cells(V, j)
           /\ j < n => W[j + 1] \in Nat \ {0} /\ Cells(V, j + 1) = Cells(V, j) + 1 + W[j + 1]
<1>1. V[i] \in Nat /\ V[j] \in Nat /\ V[i] + (j - i) <= V[j]
  BY SumsRise
<1>2. ASSUME j < n PROVE V[j + 1] = V[j] + W[j + 1] /\ W[j + 1] \in Nat \ {0}
  <2>1. j + 1 \in 1..n /\ j + 1 - 1 = j
    BY <1>2
  <2> QED BY <2>1 DEF Sums
<1> QED BY <1>1, <1>2 DEF Cells

\* What is found at the places of the packets.
LEMMA Found ==
    ASSUME NEW V, NEW W, NEW n, NEW base, NEW a, NEW b, NEW to,
           Chain(V, W, n, base, a, b, to), mem \in Memory, NEW i \in a..b
    PROVE  /\ Place(V, base, a, i) \in 0..to /\ Place(V, base, a, i) \in Nat
           /\ to \in Nat /\ to <= Size
           /\ i = a => Place(V, base, a, i) = base
           /\ i = b => Place(V, base, a, i) = to
           /\ i < b => /\ Place(V, base, a, i) < to
                       /\ mem[Place(V, base, a, i)] = Packet(W, i + 1)
                       /\ W[i + 1] \in Nat \ {0}
                       /\ Place(V, base, a, i + 1) = Place(V, base, a, i) + 1 + W[i + 1]
<1>1. n \in Nat /\ a \in 0..n /\ b \in a..n /\ Sums(V, W, n) /\ i \in 0..n /\ b \in i..n
      /\ base \in Nat /\ to = base + Cells(V, b) - Cells(V, a) /\ to <= Size /\ i \in a..n
  BY DEF Chain
<1>2. /\ Cells(V, a) \in Nat /\ Cells(V, i) \in Nat /\ Cells(V, a) + 2 * (i - a) <= Cells(V, i)
      /\ i < n => W[i + 1] \in Nat \ {0} /\ Cells(V, i + 1) = Cells(V, i) + 1 + W[i + 1]
  BY <1>1, CellsRise
<1>3. Cells(V, b) \in Nat /\ Cells(V, i) + 2 * (b - i) <= Cells(V, b)
  BY <1>1, CellsRise
<1>4. ASSUME i < b PROVE mem[Place(V, base, a, i)] = Packet(W, i + 1)
  <2>1. i + 1 \in (a + 1)..b /\ i + 1 - 1 = i
    BY <1>1, <1>4
  <2>2. \A k \in (a + 1)..b : mem[base + Cells(V, k - 1) - Cells(V, a)] = Packet(W, k)
    BY Zenon DEF Chain, Placed
  <2> QED BY <2>1, <2>2 DEF Place
<1>5. Place(V, base, a, i) = base + Cells(V, i) - Cells(V, a)
      /\ Place(V, base, a, i + 1) = base + Cells(V, i + 1) - Cells(V, a)
  BY DEF Place
<1> QED BY <1>1, <1>2, <1>3, <1>4, <1>5

\* One step of count_packets_and_bytes().
Walk(f, to) ==
    f = [x \in 0..(2 * Size) |->
            IF x >= to \/ x >= Size THEN B!NoPackets
            ELSE B!counted(f[x + B!total(mem[x])], mem[x])]

LEMMA WalkDefined ==
    ASSUME mem \in Memory, NEW to \in Int
    PROVE  \E f : Walk(f, to)
<1> DEFINE D == 0..(2 * Size)
           R == [packets : Nat, bytes : Nat]
           done == {x \in D : x >= to \/ x >= Size}
           next == [x \in D |-> IF x < Size THEN x + B!total(mem[x]) ELSE x]
           m == [x \in D |-> 2 * Size - x]
           base == [x \in D |-> B!NoPackets]
           g == [x \in D |-> [v \in R |-> IF x < Size THEN B!counted(v, mem[x]) ELSE v]]
<1>0. Size \in Nat /\ 2 * Size \in Nat
  BY BufferConstants
<1>1. \A x \in D : x < Size => /\ mem[x].len \in 0..(Size - 1)
                               /\ B!total(mem[x]) = 1 + mem[x].len
  BY <1>0 DEF Memory, B!total, B!Hdr
<1>2. next \in [D -> D] /\ m \in [D -> 0..(2 * Size)]
  <2>1. ASSUME NEW x \in D PROVE next[x] \in D
    BY <1>0, <1>1
  <2>2. ASSUME NEW x \in D PROVE 2 * Size - x \in 0..(2 * Size)
    BY <1>0
  <2> QED BY <2>1, <2>2
<1>3. \A x \in D : x \notin done => m[next[x]] < m[x]
  <2> SUFFICES ASSUME NEW x \in D, x \notin done PROVE m[next[x]] < m[x]
    OBVIOUS
  <2>1. x < Size /\ next[x] = x + B!total(mem[x]) /\ next[x] \in D
    BY <1>0, <1>2
  <2>2. m[next[x]] = 2 * Size - next[x] /\ m[x] = 2 * Size - x
    BY <2>1
  <2> HIDE DEF next, m
  <2> QED BY <1>0, <1>1, <2>1, <2>2
<1>4. base \in [D -> R]
  BY DEF B!NoPackets
<1>5. g \in [D -> [R -> R]]
  <2>1. ASSUME NEW x \in D, NEW v \in R, x < Size PROVE B!counted(v, mem[x]) \in R
    BY <1>0, <1>1, <2>1 DEF B!counted
  <2> QED BY <2>1
<1>6. PICK f \in [D -> R] : Recurs(f, D, done, next, base, g)
  <2> HIDE DEF D, R, done, next, m, base, g
  <2> QED BY <1>0, <1>2, <1>3, <1>4, <1>5, Recursion
<1>7. \A x \in D : f[x] = IF x >= to \/ x >= Size THEN B!NoPackets
                         ELSE B!counted(f[x + B!total(mem[x])], mem[x])
  <2> TAKE x \in D
  <2>1. f[x] = IF x \in done THEN base[x] ELSE g[x][f[next[x]]]
    <3> HIDE DEF D, R, done, next, base, g
    <3> QED BY <1>6 DEF Recurs
  <2>2. CASE x \in done
    BY <2>1, <2>2
  <2>3. CASE x \notin done
    <3>1. x < Size /\ ~(x >= to \/ x >= Size)
      BY <1>0, <2>3
    <3>2. next[x] = x + B!total(mem[x]) /\ f[next[x]] \in R
      BY <1>2, <3>1
    <3>3. g[x][f[next[x]]] = B!counted(f[next[x]], mem[x])
      <4> HIDE DEF next, R, D
      <4> QED BY <3>1, <3>2
    <3> QED BY <2>1, <2>3, <3>1, <3>2, <3>3
  <2> QED BY <2>2, <2>3
<1>8. f = [x \in D |-> f[x]]
  OBVIOUS
<1>9. f = [x \in D |-> IF x >= to \/ x >= Size THEN B!NoPackets
                       ELSE B!counted(f[x + B!total(mem[x])], mem[x])]
  <2> HIDE DEF D
  <2> QED BY <1>7, <1>8
<1> QED BY <1>9 DEF Walk

\* The packets of a chain are counted.
LEMMA ChainCounted ==
    ASSUME NEW V, NEW W, NEW n, NEW base, NEW a, NEW b, NEW to,
           Chain(V, W, n, base, a, b, to), mem \in Memory
    PROVE  B!count_packets_and_bytes(base, to) = [packets |-> b - a, bytes |-> V[b] - V[a]]
<1>0. /\ n \in Nat /\ a \in 0..n /\ b \in a..n /\ base \in Nat /\ Sums(V, W, n)
      /\ to \in Nat /\ to <= Size /\ Size \in Nat
  <2>1. n \in Nat /\ a \in 0..n /\ b \in a..n /\ base \in Nat /\ Sums(V, W, n)
    BY DEF Chain
  <2>2. a \in a..b
    BY <2>1
  <2> QED BY <2>1, <2>2, Found, BufferConstants
<1>1. PICK f : f = B!count_packets_and_bytes(base, to) /\ \E w : Walk(w, to) /\ f = w[base]
  <2> DEFINE w == CHOOSE v : Walk(v, to)
  <2>1. Walk(w, to)
    BY <1>0, WalkDefined
  <2>2. B!count_packets_and_bytes(base, to) = w[base]
    BY DEF B!count_packets_and_bytes, Walk
  <2> HIDE DEF w
  <2> QED BY <2>1, <2>2
<1>2. PICK w : Walk(w, to) /\ f = w[base]
  BY <1>1
<1> DEFINE addr(i) == Place(V, base, a, i)
           right(i) == w[addr(i)] = [packets |-> b - i, bytes |-> V[b] - V[i]]
           E == {k \in 0..(b - a) : right(b - k)}
<1>3. \A x \in 0..(2 * Size) : w[x] = IF x >= to \/ x >= Size THEN B!NoPackets
                                     ELSE B!counted(w[x + B!total(mem[x])], mem[x])
  BY <1>2 DEF Walk
<1>4. right(b)
  <2>1. addr(b) = to /\ to \in 0..(2 * Size)
    <3>1. b \in a..b
      BY <1>0
    <3> QED BY <1>0, <3>1, Found
  <2>2. w[to] = B!NoPackets
    BY <1>0, <1>3, <2>1
  <2>3. V[b] \in Nat /\ b \in Nat
    BY <1>0, SumsRise
  <2> QED BY <2>1, <2>2, <2>3 DEF B!NoPackets
<1>5. ASSUME NEW i \in a..b, i # b, right(i + 1) PROVE right(i)
  <2>1. i < b /\ i \in 0..n /\ i \in Nat /\ b \in Nat /\ i + 1 \in 0..n
    BY <1>0, <1>5
  <2>2. /\ addr(i) \in Nat /\ addr(i) < to /\ mem[addr(i)] = Packet(W, i + 1)
        /\ W[i + 1] \in Nat \ {0} /\ addr(i + 1) = addr(i) + 1 + W[i + 1]
    BY <2>1, Found
  <2>3. B!total(mem[addr(i)]) = 1 + W[i + 1] /\ mem[addr(i)].len = W[i + 1]
    <3> HIDE DEF addr
    <3> QED BY <2>2 DEF B!total, B!Hdr, Packet
  <2>4. addr(i) \in 0..(2 * Size) /\ ~(addr(i) >= to \/ addr(i) >= Size)
    <3> HIDE DEF addr
    <3> QED BY <1>0, <2>2
  <2>5. w[addr(i)] = B!counted(w[addr(i) + B!total(mem[addr(i)])], mem[addr(i)])
    <3> HIDE DEF addr
    <3> QED BY <1>3, <2>4
  <2>6. addr(i) + B!total(mem[addr(i)]) = addr(i + 1)
    <3> HIDE DEF addr
    <3> QED BY <2>2, <2>3
  <2>7. w[addr(i)] = B!counted([packets |-> b - (i + 1), bytes |-> V[b] - V[i + 1]], mem[addr(i)])
    <3> HIDE DEF addr
    <3> QED BY <1>5, <2>5, <2>6
  <2>8. w[addr(i)] = [packets |-> b - (i + 1) + 1, bytes |-> V[b] - V[i + 1] + W[i + 1]]
    <3> HIDE DEF addr
    <3> QED BY <2>3, <2>7 DEF B!counted
  <2>9. V[i + 1] = V[i] + W[i + 1] /\ V[i] \in Nat /\ V[b] \in Nat
    <3>1. i + 1 \in 1..n /\ i + 1 - 1 = i /\ b \in 0..n
      BY <1>0, <2>1
    <3>2. V[i] \in Nat /\ V[b] \in Nat
      BY <1>0, <2>1, <3>1 DEF Sums
    <3>3. V[i + 1] = V[i] + W[i + 1]
      BY <1>0, <3>1 DEF Sums
    <3> QED BY <3>2, <3>3
  <2>10. b - (i + 1) + 1 = b - i /\ V[b] - V[i + 1] + W[i + 1] = V[b] - V[i]
    BY <2>1, <2>2, <2>9
  <2> HIDE DEF addr
  <2> QED BY <2>8, <2>10
<1>6. 0 \in E /\ \A k \in 0..(b - a) : k # b - a /\ k \in E => k + 1 \in E
  <2> HIDE DEF right
  <2>1. 0 \in E
    BY <1>0, <1>4
  <2>2. ASSUME NEW k \in 0..(b - a), k # b - a, k \in E PROVE k + 1 \in E
    <3>1. b - (k + 1) \in a..b /\ b - (k + 1) # b /\ b - (k + 1) + 1 = b - k /\ k + 1 \in 0..(b - a)
      BY <1>0, <2>2
    <3>2. right(b - k)
      BY <2>2
    <3>3. right(b - (k + 1))
      BY <1>5, <3>1, <3>2
    <3> QED BY <3>1, <3>3
  <2> QED BY <2>1, <2>2
<1>7. right(a)
  <2>1. b - a \in Nat /\ b - (b - a) = a /\ b - a \in 0..(b - a)
    BY <1>0
  <2>2. 0..(b - a) \subseteq E
    <3> HIDE DEF E
    <3> QED BY <1>6, <2>1, UpTo
  <2>3. b - a \in E
    BY <2>1, <2>2
  <2> HIDE DEF right
  <2> QED BY <2>1, <2>3
<1>8. addr(a) = base
  <2>1. a \in a..b
    BY <1>0
  <2> QED BY <2>1, Found
<1> HIDE DEF addr
<1> QED BY <1>1, <1>2, <1>7, <1>8

\* One step of the search of make_space_if_needed().
Search(f, write, end, required) ==
    f = [x \in 0..(2 * Size) |->
            IF x - write >= required THEN x
            ELSE IF x + B!Hdr > end THEN B!Null
            ELSE f[x + B!total(mem[x])]]

LEMMA SearchDefined ==
    ASSUME mem \in Memory, NEW write \in Int, NEW end \in Int, end <= Size, NEW required \in Int
    PROVE  \E f : Search(f, write, end, required)
<1> DEFINE D == 0..(2 * Size)
           found(x) == x - write >= required
           none(x) == x + B!Hdr > end
           done == {x \in D : found(x) \/ none(x)}
           next == [x \in D |-> IF x < Size THEN x + B!total(mem[x]) ELSE x]
           m == [x \in D |-> 2 * Size - x]
           base == [x \in D |-> IF found(x) THEN x ELSE B!Null]
           g == [x \in D |-> [v \in Int |-> v]]
<1>0. Size \in Nat /\ 2 * Size \in Nat
  BY BufferConstants
<1>1. \A x \in D : x < Size => /\ mem[x].len \in 0..(Size - 1)
                               /\ B!total(mem[x]) = 1 + mem[x].len
  BY <1>0 DEF Memory, B!total, B!Hdr
<1>2. next \in [D -> D] /\ m \in [D -> 0..(2 * Size)]
  <2>1. ASSUME NEW x \in D PROVE next[x] \in D
    BY <1>0, <1>1
  <2>2. ASSUME NEW x \in D PROVE 2 * Size - x \in 0..(2 * Size)
    BY <1>0
  <2> QED BY <2>1, <2>2
<1>3. ASSUME NEW x \in D, x \notin done
      PROVE  ~found(x) /\ ~none(x) /\ next[x] = x + B!total(mem[x]) /\ m[next[x]] < m[x]
  <2>1. ~found(x) /\ ~none(x)
    BY <1>3
  <2>2. x < Size /\ next[x] = x + B!total(mem[x]) /\ next[x] \in D
    BY <1>0, <1>2, <2>1 DEF B!Hdr
  <2>3. m[next[x]] = 2 * Size - next[x] /\ m[x] = 2 * Size - x
    BY <2>2
  <2> HIDE DEF next, m, found, none
  <2> QED BY <1>0, <1>1, <2>1, <2>2, <2>3
<1>4. base \in [D -> Int] /\ g \in [D -> [Int -> Int]]
  BY <1>0 DEF B!Null
<1>5. PICK f \in [D -> Int] : Recurs(f, D, done, next, base, g)
  <2> HIDE DEF D, done, next, m, base, g
  <2> QED BY <1>0, <1>2, <1>3, <1>4, Recursion
<1>6. \A x \in D : f[x] = IF found(x) THEN x ELSE IF none(x) THEN B!Null
                          ELSE f[x + B!total(mem[x])]
  <2> TAKE x \in D
  <2>1. f[x] = IF x \in done THEN base[x] ELSE g[x][f[next[x]]]
    <3> HIDE DEF D, done, next, base, g
    <3> QED BY <1>5 DEF Recurs
  <2>2. CASE x \in done
    <3>1. (found(x) \/ none(x)) /\ base[x] = IF found(x) THEN x ELSE B!Null
      <4> HIDE DEF found, none
      <4> QED BY <2>2
    <3> HIDE DEF found, none, done, base
    <3> QED BY <2>1, <2>2, <3>1
  <2>3. CASE x \notin done
    <3>1. ~found(x) /\ ~none(x) /\ next[x] = x + B!total(mem[x])
      BY <1>3, <2>3
    <3>2. f[next[x]] \in Int
      BY <1>2, <1>5
    <3>3. g[x][f[next[x]]] = f[next[x]]
      <4> HIDE DEF next, D
      <4> QED BY <3>2
    <3> HIDE DEF found, none, done, base, g, next
    <3> QED BY <2>1, <2>3, <3>1, <3>3
  <2> QED BY <2>2, <2>3
<1>7. f = [x \in D |-> f[x]]
  OBVIOUS
<1>8. f = [x \in D |-> IF found(x) THEN x ELSE IF none(x) THEN B!Null
                       ELSE f[x + B!total(mem[x])]]
  <2> HIDE DEF D, found, none
  <2> QED BY <1>6, <1>7
<1> QED BY <1>8 DEF Search

Room(V, base, a, b, to, write, required, j) ==
    \E wrap :
        /\ B!make_space_if_needed(write, base, to, required) =
             [wrap |-> wrap, gone |-> [packets |-> j - a, bytes |-> V[j] - V[a]]]
        /\ \/ wrap = Place(V, base, a, j) /\ wrap - write >= required
           \/ wrap = 0 /\ j = b

\* Room is made by dropping packets up to one of them, or all of them.
LEMMA RoomMade ==
    ASSUME NEW V, NEW W, NEW n, NEW base, NEW a, NEW b, NEW to,
           Chain(V, W, n, base, a, b, to), mem \in Memory,
           NEW write \in Nat, write <= base, NEW required \in Nat \ {0}
    PROVE  \E j \in a..b : Room(V, base, a, b, to, write, required, j)
<1>0. /\ n \in Nat /\ a \in 0..n /\ b \in a..n /\ base \in Nat /\ Sums(V, W, n)
      /\ to \in Nat /\ to <= Size /\ Size \in Nat
  <2>1. n \in Nat /\ a \in 0..n /\ b \in a..n /\ base \in Nat /\ Sums(V, W, n)
    BY DEF Chain
  <2>2. a \in a..b
    BY <2>1
  <2> QED BY <2>1, <2>2, Found, BufferConstants
<1> DEFINE stop == CHOOSE f : Search(f, write, to, required)
<1>1. Search(stop, write, to, required)
  BY <1>0, SearchDefined
<1>2. B!make_space_if_needed(write, base, to, required) =
        IF stop[base] = B!Null
        THEN [wrap |-> 0, gone |-> B!count_packets_and_bytes(base, to)]
        ELSE [wrap |-> stop[base], gone |-> B!count_packets_and_bytes(base, stop[base])]
  <2>1. ~(write > base)
    BY <1>0
  <2> QED BY <2>1 DEF B!make_space_if_needed, Search
<1> HIDE DEF stop
<1> DEFINE addr(i) == Place(V, base, a, i)
           ends(i, j) == \/ stop[addr(i)] = addr(j) /\ addr(j) - write >= required
                         \/ stop[addr(i)] = B!Null /\ j = b
           right(i) == \E j \in i..b : ends(i, j)
           E == {k \in 0..(b - a) : right(b - k)}
<1>3. \A x \in 0..(2 * Size) : stop[x] = IF x - write >= required THEN x
                                         ELSE IF x + B!Hdr > to THEN B!Null
                                         ELSE stop[x + B!total(mem[x])]
  BY <1>1 DEF Search
<1>4. right(b)
  <2>1. addr(b) = to /\ to \in 0..(2 * Size) /\ b \in b..b
    <3>1. b \in a..b
      BY <1>0
    <3> QED BY <1>0, <3>1, Found
  <2>2. to + B!Hdr > to
    BY <1>0 DEF B!Hdr
  <2>3. ends(b, b)
    <3> HIDE DEF addr
    <3> QED BY <1>3, <2>1, <2>2
  <2> HIDE DEF ends
  <2> QED BY <2>1, <2>3
<1>5. ASSUME NEW i \in a..b, i # b, right(i + 1) PROVE right(i)
  <2>1. i < b /\ i \in 0..n /\ i \in Nat /\ b \in Nat /\ i + 1 \in 0..n
    BY <1>0, <1>5
  <2>2. /\ addr(i) \in Nat /\ addr(i) < to /\ mem[addr(i)] = Packet(W, i + 1)
        /\ W[i + 1] \in Nat \ {0} /\ addr(i + 1) = addr(i) + 1 + W[i + 1]
    BY <2>1, Found
  <2>3. B!total(mem[addr(i)]) = 1 + W[i + 1]
    <3> HIDE DEF addr
    <3> QED BY <2>2 DEF B!total, B!Hdr, Packet
  <2>4. addr(i) \in 0..(2 * Size) /\ ~(addr(i) + B!Hdr > to)
    <3> HIDE DEF addr
    <3> QED BY <1>0, <2>2 DEF B!Hdr
  <2>5. addr(i) + B!total(mem[addr(i)]) = addr(i + 1)
    <3> HIDE DEF addr
    <3> QED BY <2>2, <2>3
  <2>6. CASE addr(i) - write >= required
    <3>1. stop[addr(i)] = addr(i) /\ i \in i..b
      <4> HIDE DEF addr
      <4> QED BY <1>3, <2>1, <2>4, <2>6
    <3>2. ends(i, i)
      BY <2>6, <3>1
    <3> HIDE DEF ends
    <3> QED BY <3>1, <3>2
  <2>7. CASE ~(addr(i) - write >= required)
    <3>1. stop[addr(i)] = stop[addr(i + 1)]
      <4> HIDE DEF addr
      <4> QED BY <1>3, <2>4, <2>5, <2>7
    <3>2. PICK j \in (i + 1)..b : ends(i + 1, j)
      BY <1>5
    <3>3. ends(i, j) /\ j \in i..b
      <4> HIDE DEF addr
      <4> QED BY <2>1, <3>1, <3>2
    <3> HIDE DEF ends
    <3> QED BY <3>3
  <2> HIDE DEF addr, right
  <2> QED BY <2>6, <2>7
<1>6. 0 \in E /\ \A k \in 0..(b - a) : k # b - a /\ k \in E => k + 1 \in E
  <2> HIDE DEF right
  <2>1. 0 \in E
    BY <1>0, <1>4
  <2>2. ASSUME NEW k \in 0..(b - a), k # b - a, k \in E PROVE k + 1 \in E
    <3>1. b - (k + 1) \in a..b /\ b - (k + 1) # b /\ b - (k + 1) + 1 = b - k /\ k + 1 \in 0..(b - a)
      BY <1>0, <2>2
    <3>2. right(b - k)
      BY <2>2
    <3>3. right(b - (k + 1))
      BY <1>5, <3>1, <3>2
    <3> QED BY <3>1, <3>3
  <2> QED BY <2>1, <2>2
<1>7. right(a)
  <2>1. b - a \in Nat /\ b - (b - a) = a /\ b - a \in 0..(b - a)
    BY <1>0
  <2>2. 0..(b - a) \subseteq E
    <3> HIDE DEF E
    <3> QED BY <1>6, <2>1, UpTo
  <2>3. b - a \in E
    BY <2>1, <2>2
  <2> HIDE DEF right
  <2> QED BY <2>1, <2>3
<1>8. PICK j \in a..b : ends(a, j)
  BY <1>7
<1>9. addr(a) = base /\ addr(j) \in 0..to
  <2>1. a \in a..b
    BY <1>0
  <2> QED BY <2>1, Found
<1>10. CASE stop[base] = addr(j) /\ addr(j) - write >= required
  <2>1. stop[base] # B!Null
    <3> HIDE DEF addr
    <3> QED BY <1>9, <1>10 DEF B!Null
  <2>2. Chain(V, W, n, base, a, j, addr(j))
    <3>1. j \in a..n /\ \A i \in (a + 1)..j : i \in (a + 1)..b
      BY <1>0
    <3>2. Placed(mem, V, W, base, a, j)
      BY <3>1 DEF Chain, Placed
    <3>3. addr(j) = base + Cells(V, j) - Cells(V, a)
      BY DEF Place
    <3> HIDE DEF addr
    <3> QED BY <1>0, <1>9, <3>1, <3>2, <3>3 DEF Chain
  <2>3. B!count_packets_and_bytes(base, addr(j)) = [packets |-> j - a, bytes |-> V[j] - V[a]]
    <3> HIDE DEF addr
    <3> QED BY <2>2, ChainCounted
  <2> HIDE DEF addr
  <2>4. addr(j) = Place(V, base, a, j)
    BY DEF addr
  <2> QED BY <1>2, <1>10, <2>1, <2>3, <2>4 DEF Room
<1>11. CASE stop[base] = B!Null /\ j = b
  <2>1. B!count_packets_and_bytes(base, to) = [packets |-> j - a, bytes |-> V[j] - V[a]]
    BY <1>11, ChainCounted
  <2> QED BY <1>2, <1>11, <2>1 DEF Room
<1>12. \/ stop[base] = addr(j) /\ addr(j) - write >= required
       \/ stop[base] = B!Null /\ j = b
  <2> HIDE DEF addr
  <2> QED BY <1>8, <1>9
<1> HIDE DEF addr
<1> QED BY <1>10, <1>11, <1>12

-----------------------------------------------------------------------------
(* Buffers of captures: writing.                                           *)

\* The volumes of what is written, and the lengths.
LEMMA Volumes ==
    ASSUME written \in Seq(Lens)
    PROVE  /\ Len(written) \in Nat /\ Sums(B!volume, written, Len(written))
           /\ \A i \in 1..Len(written) : written[i] \in Lens
<1>1. Sums(B!volume, written, Len(written))
  BY VolumeSums DEF B!volume
<1> QED BY <1>1

\* A packet more, and what it does to the sums.
Grows(V, W, n, U, X, len) ==
    /\ n \in Nat /\ Sums(V, W, n) /\ Sums(U, X, n + 1)
    /\ \A i \in 1..n : X[i] = W[i]
    /\ \A i \in 0..n : U[i] = V[i]
    /\ X[n + 1] = len /\ U[n + 1] = V[n] + len

LEMMA GrownBy ==
    ASSUME NEW V, NEW W, NEW n \in Nat, NEW U, NEW X, NEW len,
           Sums(V, W, n), Sums(U, X, n + 1), \A i \in 1..n : W[i] = X[i], X[n + 1] = len
    PROVE  Grows(V, W, n, U, X, len)
<1>1. n + 1 \in Nat /\ n <= n + 1 /\ n + 1 \in 1..(n + 1) /\ n + 1 - 1 = n /\ n \in 0..n
  OBVIOUS
<1>2. \A i \in 0..n : V[i] = U[i]
  BY <1>1, SumsSame
<1>3. U[n + 1] = U[n] + X[n + 1]
  BY <1>1 DEF Sums
<1>4. U[n + 1] = V[n] + len
  BY <1>1, <1>2, <1>3
<1> QED BY <1>2, <1>4 DEF Grows

LEMMA Grown ==
    ASSUME NEW W \in Seq(Lens), NEW len \in Lens, NEW X, X = Append(W, len),
           NEW V, NEW U, Sums(V, W, Len(W)), Sums(U, X, Len(X))
    PROVE  Len(X) = Len(W) + 1 /\ X \in Seq(Lens) /\ Grows(V, W, Len(W), U, X, len)
<1>1. /\ Len(W) \in Nat /\ X \in Seq(Lens) /\ Len(X) = Len(W) + 1
      /\ \A i \in 1..Len(W) : W[i] = X[i]
      /\ X[Len(W) + 1] = len
  OBVIOUS
<1>2. Grows(V, W, Len(W), U, X, len)
  BY <1>1, GrownBy, Zenon
<1> QED BY <1>1, <1>2

\* A packet is stored.
Stores(x, len, n) ==
    /\ x \in Nat /\ len \in Lens /\ x + 1 + len <= Size
    /\ n = Len(written)
    /\ mem' = B!stored(x, B!header(len))

LEMMA Stored ==
    ASSUME mem \in Memory, NEW x, NEW len, NEW n \in Nat, Stores(x, len, n)
    PROVE  /\ mem' \in Memory /\ mem'[x] = [id |-> n + 1, len |-> len]
           /\ \A y \in 0..(Size - 1) : y < x \/ y >= x + 1 + len => mem'[y] = mem[y]
<1> DEFINE h == [id |-> n + 1, len |-> len]
<1>0. Size \in Nat \ {0} /\ len \in Nat \ {0} /\ len <= Size - 1 /\ x \in Nat /\ x + 1 + len <= Size
  BY BufferConstants DEF Stores
<1>1. h \in [id : Nat, len : 0..(Size - 1)] /\ B!Cell \in [id : Nat, len : 0..(Size - 1)]
  BY <1>0 DEF B!Cell
<1>2. B!total(h) = 1 + len /\ h = B!header(len)
  BY DEF B!total, B!Hdr, B!header, Stores
<1>3. mem' = [y \in 0..(Size - 1) |-> IF y = x THEN h
                          ELSE IF y \in x..(x + B!total(h) - 1) THEN B!Cell ELSE mem[y]]
  <2>1. DOMAIN mem = 0..(Size - 1)
    BY DEF Memory
  <2> HIDE DEF h
  <2> QED BY <1>2, <2>1 DEF Stores, B!stored
<1> HIDE DEF h
<1>4. mem' \in Memory
  BY <1>1, <1>3 DEF Memory
<1>5. mem'[x] = h
  BY <1>0, <1>3
<1>6. \A y \in 0..(Size - 1) : y < x \/ y >= x + 1 + len => mem'[y] = mem[y]
  BY <1>0, <1>2, <1>3
<1> QED BY <1>4, <1>5, <1>6 DEF h

\* The cells up to some packets.
LEMMA CellsOf ==
    ASSUME NEW V, NEW W, NEW n \in Nat, Sums(V, W, n), NEW a \in 0..n, NEW b \in a..n
    PROVE  /\ V[a] \in Nat /\ V[b] \in Nat /\ V[n] \in Nat /\ V[a] <= V[b]
           /\ Cells(V, a) \in Nat /\ Cells(V, b) \in Nat /\ Cells(V, n) \in Nat
           /\ Cells(V, a) + 2 * (b - a) <= Cells(V, b) /\ Cells(V, a) <= Cells(V, b)
           /\ Cells(V, b) <= Cells(V, n)
           /\ a < b => Cells(V, a) < Cells(V, b)
<1>1. /\ b \in 0..n /\ n \in b..n /\ a \in Nat /\ b \in Nat /\ b - a \in Nat /\ n - b \in Nat
      /\ b = a + (b - a) /\ n = b + (n - b)
  OBVIOUS
<1>2. V[a] \in Nat /\ V[b] \in Nat /\ V[a] + (b - a) <= V[b]
  BY SumsRise
<1>3. V[n] \in Nat /\ V[b] + (n - b) <= V[n]
  BY <1>1, SumsRise
<1>4. V[a] <= V[b] /\ V[b] <= V[n]
  BY <1>1, <1>2, <1>3
<1> QED BY <1>1, <1>2, <1>3, <1>4 DEF Cells

\* The places of packets.
LEMMA PlaceIn ==
    ASSUME NEW V, NEW W, NEW n \in Nat, Sums(V, W, n), NEW base \in Nat,
           NEW a \in 0..n, NEW b \in a..n, NEW i \in (a + 1)..b
    PROVE  /\ base + Cells(V, i - 1) - Cells(V, a) \in Int
           /\ base + Cells(V, b) - Cells(V, a) \in Int
           /\ base <= base + Cells(V, i - 1) - Cells(V, a)
           /\ base + Cells(V, i - 1) - Cells(V, a) < base + Cells(V, b) - Cells(V, a)
<1>1. i - 1 \in a..n /\ i - 1 \in 0..n /\ b \in (i - 1)..n /\ b - (i - 1) \in Nat \ {0}
      /\ i - 1 - a \in Nat
  OBVIOUS
<1>2. /\ Cells(V, a) \in Nat /\ Cells(V, i - 1) \in Nat
      /\ Cells(V, a) + 2 * (i - 1 - a) <= Cells(V, i - 1)
  BY <1>1, CellsRise
<1>3. Cells(V, b) \in Nat /\ Cells(V, i - 1) + 2 * (b - (i - 1)) <= Cells(V, b)
  BY <1>1, CellsRise
<1> QED BY <1>1, <1>2, <1>3

\* Packets elsewhere stay where they are.
LEMMA PlacedStays ==
    ASSUME mem \in Memory, NEW x, NEW len, NEW V, NEW W, NEW n, NEW U, NEW X,
           Stores(x, len, n), Grows(V, W, n, U, X, len),
           NEW base \in Nat, NEW a \in 0..n, NEW b \in a..n,
           Placed(mem, V, W, base, a, b),
           base + Cells(V, b) - Cells(V, a) <= Size,
           base >= x + 1 + len \/ base + Cells(V, b) - Cells(V, a) <= x
    PROVE  Placed(mem', U, X, base, a, b)
<1> SUFFICES ASSUME NEW i \in (a + 1)..b
             PROVE  mem'[base + Cells(U, i - 1) - Cells(U, a)] = Packet(X, i)
  BY DEF Placed
<1>0. n \in Nat /\ Sums(V, W, n) /\ Size \in Nat /\ x \in Nat /\ len \in Nat
  BY BufferConstants DEF Grows, Stores
<1>1. i \in 1..n /\ i - 1 \in 0..n
  BY <1>0
<1> DEFINE y == base + Cells(V, i - 1) - Cells(V, a)
           z == base + Cells(V, b) - Cells(V, a)
<1>2. y \in Int /\ z \in Int /\ base <= y /\ y < z
  BY <1>0, PlaceIn
<1>3. Cells(U, i - 1) = Cells(V, i - 1) /\ Cells(U, a) = Cells(V, a)
  BY <1>1 DEF Grows, Cells
<1>4. Packet(X, i) = Packet(W, i)
  BY <1>1 DEF Grows, Packet
<1>5. mem[y] = Packet(W, i)
  BY DEF Placed
<1>6. y \in 0..(Size - 1) /\ (y < x \/ y >= x + 1 + len)
  <2>1. z <= Size /\ (base >= x + 1 + len \/ z <= x)
    OBVIOUS
  <2> HIDE DEF y, z
  <2> QED BY <1>0, <1>2, <2>1
<1>7. mem'[y] = mem[y]
  <2> HIDE DEF y
  <2> QED BY <1>0, <1>6, Stored
<1> QED BY <1>3, <1>4, <1>5, <1>7

\* The packet is the last one.
LEMMA PlacedMore ==
    ASSUME mem \in Memory, NEW x, NEW len, NEW V, NEW W, NEW n, NEW U, NEW X,
           Stores(x, len, n), Grows(V, W, n, U, X, len),
           NEW base \in Nat, NEW a \in 0..n,
           Placed(mem, V, W, base, a, n),
           base + Cells(V, n) - Cells(V, a) = x
    PROVE  Placed(mem', U, X, base, a, n + 1)
<1>0. n \in Nat /\ x \in Nat /\ len \in Nat /\ x <= Size /\ n \in a..n
  BY BufferConstants DEF Grows, Stores
<1>1. Placed(mem', U, X, base, a, n)
  <2>1. base + Cells(V, n) - Cells(V, a) <= Size
    BY <1>0
  <2>2. base + Cells(V, n) - Cells(V, a) <= x
    BY <1>0
  <2> QED BY <1>0, <2>1, <2>2, PlacedStays
<1>2. mem'[x] = Packet(X, n + 1)
  BY <1>0, Stored DEF Grows, Packet
<1>3. Cells(U, n) = Cells(V, n) /\ Cells(U, a) = Cells(V, a)
  BY <1>0 DEF Grows, Cells
<1>4. base + Cells(U, n) - Cells(U, a) = x
  BY <1>3
<1> SUFFICES ASSUME NEW i \in (a + 1)..(n + 1)
             PROVE  mem'[base + Cells(U, i - 1) - Cells(U, a)] = Packet(X, i)
  BY DEF Placed
<1>5. CASE i = n + 1
  <2>1. i - 1 = n
    BY <1>0, <1>5
  <2> QED BY <1>2, <1>4, <1>5, <2>1
<1>6. CASE i # n + 1
  <2>1. i \in (a + 1)..n
    BY <1>0, <1>6
  <2> QED BY <1>1, <2>1 DEF Placed
<1> QED BY <1>5, <1>6

\* The packets of a chain from one of them on.
LEMMA PlacedFrom ==
    ASSUME NEW V, NEW W, NEW n \in Nat, Sums(V, W, n), NEW base \in Nat,
           NEW a \in 0..n, NEW b \in a..n, NEW j \in a..b, Placed(mem, V, W, base, a, b)
    PROVE  /\ Place(V, base, a, j) \in Nat
           /\ Place(V, base, a, j) + Cells(V, b) - Cells(V, j) = base + Cells(V, b) - Cells(V, a)
           /\ Placed(mem, V, W, Place(V, base, a, j), j, b)
<1>1. j \in 0..n /\ b \in j..n /\ j \in a..n
  OBVIOUS
<1>2. Cells(V, a) \in Nat /\ Cells(V, j) \in Nat /\ Cells(V, a) <= Cells(V, j)
  BY <1>1, CellsOf
<1>3. Cells(V, b) \in Nat
  BY <1>1, CellsOf
<1>4. ASSUME NEW i \in (j + 1)..b
      PROVE  mem[Place(V, base, a, j) + Cells(V, i - 1) - Cells(V, j)] = Packet(W, i)
  <2>1. i \in (a + 1)..b /\ i - 1 \in 0..n /\ n \in (i - 1)..n
    BY <1>1
  <2>2. mem[base + Cells(V, i - 1) - Cells(V, a)] = Packet(W, i)
    BY <2>1 DEF Placed
  <2>3. Cells(V, i - 1) \in Nat
    BY <2>1, CellsOf
  <2>4. Place(V, base, a, j) + Cells(V, i - 1) - Cells(V, j) = base + Cells(V, i - 1) - Cells(V, a)
    BY <1>2, <2>3 DEF Place
  <2> QED BY <2>2, <2>4
<1>5. Place(V, base, a, j) = base + Cells(V, j) - Cells(V, a)
  BY DEF Place
<1>6. /\ Place(V, base, a, j) \in Nat
      /\ Place(V, base, a, j) + Cells(V, b) - Cells(V, j) = base + Cells(V, b) - Cells(V, a)
  BY <1>2, <1>3, <1>5
<1>7. Placed(mem, V, W, Place(V, base, a, j), j, b)
  BY <1>4 DEF Placed
<1> QED BY <1>6, <1>7

\* What the sums are after a packet more.
LEMMA CellsMore ==
    ASSUME NEW V, NEW W, NEW n, NEW U, NEW X, NEW len, Grows(V, W, n, U, X, len),
           len \in Lens, NEW j \in 0..n
    PROVE  /\ U[j] = V[j] /\ Cells(U, j) = Cells(V, j)
           /\ U[n + 1] = V[n] + len
           /\ Cells(U, n) = Cells(V, n)
           /\ Cells(U, n + 1) = Cells(V, n) + 1 + len
<1>1. n \in Nat /\ Sums(V, W, n) /\ n \in 0..n /\ n \in j..n /\ len \in Nat
  BY BufferConstants DEF Grows
<1>2. U[j] = V[j] /\ U[n] = V[n] /\ U[n + 1] = V[n] + len
  BY <1>1 DEF Grows
<1>3. V[n] \in Nat
  BY <1>1, CellsOf
<1> QED BY <1>1, <1>2, <1>3 DEF Cells

LEMMA HeaderTotal ==
    ASSUME NEW len \in Lens
    PROVE  /\ B!total(B!header(len)) = 1 + len /\ B!header(len).len = len
           /\ len \in Nat \ {0} /\ Size \in Nat
  BY BufferConstants DEF B!total, B!Hdr, B!header

Recount(V, n, o, s, j, len) ==
    B!counted(B!discount(B!discount(Since(V, n, o), [packets |-> s - o, bytes |-> V[s] - V[o]]),
                         [packets |-> j - s, bytes |-> V[j] - V[s]]),
              B!header(len))

\* Statistics of which packets are taken and to which one is added.
LEMMA Recounted ==
    ASSUME NEW n \in Nat, NEW V, NEW o \in 0..n, NEW s \in o..n, NEW j \in s..n,
           V[n] \in Int, V[o] \in Int, V[s] \in Int, V[j] \in Int, NEW len \in Lens,
           NEW U, U[n + 1] = V[n] + len, U[j] = V[j]
    PROVE  Recount(V, n, o, s, j, len) = Since(U, n + 1, j)
<1>1. len \in Int /\ B!header(len).len = len
  BY HeaderTotal
<1>2. n - o - (s - o) - (j - s) + 1 = n + 1 - j
  OBVIOUS
<1>3. V[n] - V[o] - (V[s] - V[o]) - (V[j] - V[s]) + len = U[n + 1] - U[j]
  BY <1>1
<1> QED BY <1>1, <1>2, <1>3 DEF B!counted, B!discount, Since, Recount

\* A write to a buffer that wraps.
Writes(V, W, n, U, X, len) ==
    /\ mem \in Memory /\ len \in Lens /\ n = Len(written)
    /\ Grows(V, W, n, U, X, len)
    /\ B!write_wrap(len)

\* The packet is one that the memory can hold.
LEMMA WritesFit ==
    ASSUME NEW V, NEW W, NEW n, NEW U, NEW X, NEW len, Writes(V, W, n, U, X, len)
    PROVE  B!total(B!header(len)) = 1 + len /\ len \in Nat \ {0} /\ len <= Size - 1 /\ Size \in Nat
<1>1. len \in Lens /\ B!total(B!header(len)) <= Size
  BY Zenon DEF Writes, B!write_wrap
<1>2. B!total(B!header(len)) = 1 + len /\ len \in Nat \ {0} /\ Size \in Nat
  BY <1>1, HeaderTotal
<1> QED BY <1>1, <1>2

\* The write address returns to the start: what had wrapped is lost, and the packets
\* since are the oldest ones.
LEMMA WriteTurns ==
    ASSUME NEW V, NEW W, NEW n, NEW U, NEW X, NEW len, Writes(V, W, n, U, X, len),
           NEW s \in 0..n, NEW o \in 0..s,
           m_stats = Since(V, n, o),
           Placed(mem, V, W, 0, s, n),
           m_write_addr = Cells(V, n) - Cells(V, s),
           m_write_addr <= Size, m_write_addr + 1 + len > Size,
           B!lost_at_wrap = [packets |-> s - o, bytes |-> V[s] - V[o]]
    PROVE  \E j \in 0..n :
             /\ Wrapped(U, X, n + 1, mem', m_write_addr', m_wrap_addr', m_wrap_end_addr', n, j)
             /\ m_stats' = Since(U, n + 1, j)
             /\ mem' \in Memory
<1>1. B!total(B!header(len)) = 1 + len /\ len \in Nat \ {0} /\ len <= Size - 1 /\ Size \in Nat
  BY WritesFit
<1>2. /\ mem \in Memory /\ len \in Lens /\ n = Len(written) /\ Grows(V, W, n, U, X, len)
      /\ n \in Nat /\ Sums(V, W, n) /\ s \in 0..n /\ o \in 0..n /\ s \in o..n /\ n \in s..n
      /\ n \in 0..n
  BY DEF Writes, Grows
<1>3. /\ V[n] \in Nat /\ V[o] \in Nat /\ V[s] \in Nat
      /\ Cells(V, n) \in Nat /\ Cells(V, s) \in Nat /\ Cells(V, s) <= Cells(V, n)
  BY <1>2, CellsOf
<1>4. Chain(V, W, n, 0, s, n, m_write_addr)
  <2>1. m_write_addr = 0 + Cells(V, n) - Cells(V, s)
    BY <1>3
  <2> QED BY <1>2, <2>1 DEF Chain
<1>5. \E j \in s..n : Room(V, 0, s, n, m_write_addr, 0, 1 + len, j)
  <2>1. 1 + len \in Nat \ {0} /\ 0 \in Nat /\ 0 <= 0
    BY <1>1
  <2> QED BY <1>2, <1>4, <2>1, RoomMade
<1>6. PICK j \in s..n : \E wrap :
             /\ B!make_space_if_needed(0, 0, m_write_addr, 1 + len) =
                  [wrap |-> wrap, gone |-> [packets |-> j - s, bytes |-> V[j] - V[s]]]
             /\ \/ wrap = Place(V, 0, s, j) /\ wrap - 0 >= 1 + len
                \/ wrap = 0 /\ j = n
  BY <1>5 DEF Room
<1>61. PICK wrap :
             /\ B!make_space_if_needed(0, 0, m_write_addr, 1 + len) =
                  [wrap |-> wrap, gone |-> [packets |-> j - s, bytes |-> V[j] - V[s]]]
             /\ \/ wrap = Place(V, 0, s, j) /\ wrap - 0 >= 1 + len
                \/ wrap = 0 /\ j = n
  BY <1>6
<1>7. /\ m_wrap_addr' = wrap /\ m_wrap_end_addr' = m_write_addr
      /\ mem' = B!stored(0, B!header(len)) /\ m_write_addr' = 1 + len
      /\ m_stats' = B!counted(B!discount(B!discount(m_stats, B!lost_at_wrap),
                                         [packets |-> j - s, bytes |-> V[j] - V[s]]),
                              B!header(len))
  <2> DEFINE r == [wrap |-> wrap, gone |-> [packets |-> j - s, bytes |-> V[j] - V[s]]]
  <2>1. m_write_addr + B!total(B!header(len)) > Size
    BY <1>1
  <2>2. r.wrap = wrap /\ r.gone = [packets |-> j - s, bytes |-> V[j] - V[s]]
    OBVIOUS
  <2>3. B!make_space_if_needed(0, 0, m_write_addr, B!total(B!header(len))) = r
    BY <1>1, <1>61
  <2>4. /\ m_wrap_addr' = B!make_space_if_needed(0, 0, m_write_addr, B!total(B!header(len))).wrap
        /\ m_wrap_end_addr' = m_write_addr
        /\ mem' = B!stored(0, B!header(len)) /\ m_write_addr' = 0 + B!total(B!header(len))
        /\ m_stats' = B!counted(B!discount(B!discount(m_stats, B!lost_at_wrap),
               B!make_space_if_needed(0, 0, m_write_addr, B!total(B!header(len))).gone), B!header(len))
    BY <2>1, Zenon DEF B!write_wrap, Writes
  <2> HIDE DEF r
  <2> QED BY <1>1, <2>2, <2>3, <2>4
<1>8. Stores(0, len, n)
  BY <1>1, <1>2, <1>7 DEF Stores
<1>9. j \in 0..n /\ j \in Nat /\ n \in j..n
  BY <1>2
<1>10. /\ V[j] \in Nat /\ Cells(V, j) \in Nat /\ Cells(V, s) <= Cells(V, j)
       /\ Cells(V, j) <= Cells(V, n)
  BY <1>2, CellsOf
<1>11. /\ U[j] = V[j] /\ Cells(U, j) = Cells(V, j) /\ U[n + 1] = V[n] + len
       /\ Cells(U, n) = Cells(V, n) /\ Cells(U, n + 1) = Cells(V, n) + 1 + len
  BY <1>2, <1>9, CellsMore
<1>12. m_stats' = Since(U, n + 1, j)
  <2>1. V[n] \in Int /\ V[o] \in Int /\ V[s] \in Int /\ V[j] \in Int
    BY <1>3, <1>10
  <2>2. m_stats' = Recount(V, n, o, s, j, len)
    BY <1>7, Zenon DEF Recount
  <2> QED BY <1>2, <1>11, <2>1, <2>2, Recounted
<1>13. Placed(mem', U, X, 0, n, n + 1)
  <2>1. Placed(mem, V, W, 0, n, n)
    BY <1>2 DEF Placed
  <2>2. 0 + Cells(V, n) - Cells(V, n) = 0
    BY <1>3
  <2> QED BY <1>2, <1>8, <2>1, <2>2, PlacedMore
<1>14. /\ Place(V, 0, s, j) \in Nat
       /\ Place(V, 0, s, j) + Cells(V, n) - Cells(V, j) = 0 + Cells(V, n) - Cells(V, s)
       /\ Placed(mem, V, W, Place(V, 0, s, j), j, n)
  BY <1>2, PlacedFrom
<1>15. CASE wrap = 0 /\ j = n
  <2>1. Placed(mem', U, X, wrap, j, n)
    BY <1>2, <1>15 DEF Placed
  <2>2. Older(U, m_write_addr', m_wrap_addr', m_wrap_end_addr', n, j)
    BY <1>7, <1>15 DEF Older
  <2>3. m_write_addr' = Cells(U, n + 1) - Cells(U, n) /\ m_write_addr' <= Size
        /\ m_wrap_addr' \in Nat /\ m_wrap_end_addr' \in Nat /\ j <= n /\ n < n + 1
    <3>1. m_write_addr' = 1 + len /\ m_wrap_addr' = 0 /\ m_wrap_end_addr' = m_write_addr
      BY <1>7, <1>15
    <3>2. m_write_addr \in Nat
      BY <1>3
    <3>3. m_write_addr' = Cells(U, n + 1) - Cells(U, n) /\ m_write_addr' <= Size
      BY <1>1, <1>3, <1>11, <3>1
    <3>4. j <= n /\ n < n + 1
      BY <1>2
    <3> QED BY <3>1, <3>2, <3>3, <3>4
  <2> QED BY <1>7, <1>8, <1>9, <1>12, <1>13, <2>1, <2>2, <2>3, Stored, <1>2 DEF Wrapped
<1>16. CASE wrap = Place(V, 0, s, j) /\ wrap - 0 >= 1 + len
  <2>1. /\ wrap \in Nat /\ wrap + Cells(V, n) - Cells(V, j) = m_write_addr
        /\ wrap >= 0 + 1 + len
    BY <1>1, <1>3, <1>14, <1>16
  <2>2. Placed(mem', U, X, wrap, j, n)
    <3>1. wrap + Cells(V, n) - Cells(V, j) <= Size
      BY <2>1
    <3> QED BY <1>2, <1>8, <1>9, <1>14, <1>16, <2>1, <3>1, PlacedStays
  <2>3. Older(U, m_write_addr', m_wrap_addr', m_wrap_end_addr', n, j)
    BY <1>1, <1>7, <1>11, <1>16, <2>1 DEF Older
  <2>4. m_write_addr' = Cells(U, n + 1) - Cells(U, n) /\ m_write_addr' <= Size
        /\ m_wrap_addr' \in Nat /\ m_wrap_end_addr' \in Nat /\ j <= n /\ n < n + 1
    <3>1. m_write_addr' = 1 + len /\ m_wrap_addr' = wrap /\ m_wrap_end_addr' = m_write_addr
      BY <1>7
    <3>2. m_write_addr \in Nat
      BY <1>3
    <3>3. m_write_addr' = Cells(U, n + 1) - Cells(U, n) /\ m_write_addr' <= Size
      BY <1>1, <1>3, <1>11, <3>1
    <3>4. j <= n /\ n < n + 1
      BY <1>2
    <3> QED BY <2>1, <3>1, <3>2, <3>3, <3>4
  <2> QED BY <1>7, <1>8, <1>9, <1>12, <1>13, <2>2, <2>3, <2>4, Stored, <1>2 DEF Wrapped
<1> QED BY <1>61, <1>15, <1>16

\* The packet fits behind the write address of a buffer that has wrapped and still
\* has packets before the wrap: as many of these are dropped as it needs.
LEMMA WriteMakesRoom ==
    ASSUME NEW V, NEW W, NEW n, NEW U, NEW X, NEW len, Writes(V, W, n, U, X, len),
           NEW s \in 0..n, NEW o \in 0..s, m_stats = Since(V, n, o),
           Wrapped(V, W, n, mem, m_write_addr, m_wrap_addr, m_wrap_end_addr, s, o),
           m_write_addr <= m_wrap_addr, m_wrap_end_addr <= Size,
           m_wrap_addr + Cells(V, s) - Cells(V, o) = m_wrap_end_addr,
           ~(m_write_addr + 1 + len > Size)
    PROVE  \E j \in 0..n :
             /\ Wrapped(U, X, n + 1, mem', m_write_addr', m_wrap_addr', m_wrap_end_addr', s, j)
             /\ m_stats' = Since(U, n + 1, j)
             /\ mem' \in Memory
<1>1. B!total(B!header(len)) = 1 + len /\ len \in Nat \ {0} /\ len <= Size - 1 /\ Size \in Nat
  BY WritesFit
<1>2. /\ mem \in Memory /\ len \in Lens /\ n = Len(written) /\ Grows(V, W, n, U, X, len)
      /\ n \in Nat /\ Sums(V, W, n) /\ s \in 0..n /\ o \in 0..n /\ s \in o..n /\ n \in s..n
      /\ n \in 0..n
  BY DEF Writes, Grows
<1>3. /\ V[n] \in Nat /\ V[o] \in Nat /\ V[s] \in Nat
      /\ Cells(V, n) \in Nat /\ Cells(V, s) \in Nat /\ Cells(V, o) \in Nat
      /\ Cells(V, o) <= Cells(V, s) /\ Cells(V, s) <= Cells(V, n)
  BY <1>2, CellsOf
<1>4. /\ s < n /\ m_write_addr = Cells(V, n) - Cells(V, s) /\ m_wrap_addr \in Nat
      /\ m_wrap_end_addr \in Nat /\ m_write_addr \in Nat
      /\ Placed(mem, V, W, 0, s, n) /\ Placed(mem, V, W, m_wrap_addr, o, s)
  <2>1. /\ s < n /\ m_write_addr = Cells(V, n) - Cells(V, s) /\ m_wrap_addr \in Nat
        /\ m_wrap_end_addr \in Nat
        /\ Placed(mem, V, W, 0, s, n) /\ Placed(mem, V, W, m_wrap_addr, o, s)
    BY DEF Wrapped
  <2> QED BY <1>3, <2>1
<1>5. Chain(V, W, n, m_wrap_addr, o, s, m_wrap_end_addr)
  BY <1>2, <1>4 DEF Chain
<1>6. \E j \in o..s : Room(V, m_wrap_addr, o, s, m_wrap_end_addr, m_write_addr, 1 + len, j)
  <2>1. 1 + len \in Nat \ {0}
    BY <1>1
  <2> QED BY <1>2, <1>4, <1>5, <2>1, RoomMade
<1>7. PICK j \in o..s : \E wrap :
             /\ B!make_space_if_needed(m_write_addr, m_wrap_addr, m_wrap_end_addr, 1 + len) =
                  [wrap |-> wrap, gone |-> [packets |-> j - o, bytes |-> V[j] - V[o]]]
             /\ \/ wrap = Place(V, m_wrap_addr, o, j) /\ wrap - m_write_addr >= 1 + len
                \/ wrap = 0 /\ j = s
  BY <1>6 DEF Room
<1>8. PICK wrap :
             /\ B!make_space_if_needed(m_write_addr, m_wrap_addr, m_wrap_end_addr, 1 + len) =
                  [wrap |-> wrap, gone |-> [packets |-> j - o, bytes |-> V[j] - V[o]]]
             /\ \/ wrap = Place(V, m_wrap_addr, o, j) /\ wrap - m_write_addr >= 1 + len
                \/ wrap = 0 /\ j = s
  BY <1>7
<1>9. /\ m_wrap_addr' = wrap /\ m_wrap_end_addr' = m_wrap_end_addr
      /\ mem' = B!stored(m_write_addr, B!header(len)) /\ m_write_addr' = m_write_addr + 1 + len
      /\ m_stats' = B!counted(B!discount(B!discount(m_stats, B!NoPackets),
                                         [packets |-> j - o, bytes |-> V[j] - V[o]]),
                              B!header(len))
  <2> DEFINE r == [wrap |-> wrap, gone |-> [packets |-> j - o, bytes |-> V[j] - V[o]]]
  <2>1. ~(m_write_addr + B!total(B!header(len)) > Size)
    <3>1. m_write_addr + B!total(B!header(len)) = m_write_addr + 1 + len
      BY <1>1, <1>4
    <3> QED BY <3>1
  <2>2. r.wrap = wrap /\ r.gone = [packets |-> j - o, bytes |-> V[j] - V[o]]
    OBVIOUS
  <2>3. B!make_space_if_needed(m_write_addr, m_wrap_addr, m_wrap_end_addr,
                               B!total(B!header(len))) = r
    BY <1>1, <1>8
  <2>4. /\ m_wrap_addr' = B!make_space_if_needed(m_write_addr, m_wrap_addr, m_wrap_end_addr,
                                                 B!total(B!header(len))).wrap
        /\ m_wrap_end_addr' = m_wrap_end_addr
        /\ mem' = B!stored(m_write_addr, B!header(len))
        /\ m_write_addr' = m_write_addr + B!total(B!header(len))
        /\ m_stats' = B!counted(B!discount(B!discount(m_stats, B!NoPackets),
               B!make_space_if_needed(m_write_addr, m_wrap_addr, m_wrap_end_addr,
                                      B!total(B!header(len))).gone), B!header(len))
    BY <2>1, Zenon DEF B!write_wrap, Writes
  <2>5. m_write_addr + B!total(B!header(len)) = m_write_addr + 1 + len
    BY <1>1, <1>4
  <2> HIDE DEF r
  <2> QED BY <2>2, <2>3, <2>4, <2>5, Zenon
<1>10. Stores(m_write_addr, len, n)
  <2>1. m_write_addr + 1 + len <= Size
    BY <1>1, <1>4
  <2> QED BY <1>2, <1>4, <1>9, <2>1 DEF Stores
<1>11. j \in 0..n /\ j \in Nat /\ n \in j..n /\ j \in o..n /\ s \in j..n /\ s \in 0..n
  BY <1>2
<1>12. /\ V[j] \in Nat /\ Cells(V, j) \in Nat /\ Cells(V, o) <= Cells(V, j)
       /\ Cells(V, j) <= Cells(V, s)
  <2>1. V[j] \in Nat /\ Cells(V, j) \in Nat /\ Cells(V, o) <= Cells(V, j)
    BY <1>2, <1>11, CellsOf
  <2>2. Cells(V, j) <= Cells(V, s)
    BY <1>2, <1>11, CellsOf
  <2> QED BY <2>1, <2>2
<1>13. /\ U[j] = V[j] /\ Cells(U, j) = Cells(V, j) /\ U[n + 1] = V[n] + len
       /\ Cells(U, n) = Cells(V, n) /\ Cells(U, n + 1) = Cells(V, n) + 1 + len
  BY <1>2, <1>11, CellsMore
<1>14. Cells(U, s) = Cells(V, s)
  BY <1>2, <1>11, CellsMore
<1>15. m_stats' = Since(U, n + 1, j)
  <2>1. V[n] \in Int /\ V[o] \in Int /\ V[j] \in Int /\ o \in 0..n /\ o \in o..n /\ j \in o..n
    BY <1>2, <1>3, <1>11, <1>12
  <2>2. B!NoPackets = [packets |-> o - o, bytes |-> V[o] - V[o]]
    BY <2>1 DEF B!NoPackets
  <2>3. m_stats' = Recount(V, n, o, o, j, len)
    BY <1>9, <2>2, Zenon DEF Recount
  <2> QED BY <1>2, <1>13, <2>1, <2>3, Recounted
<1>16. Placed(mem', U, X, 0, s, n + 1)
  <2>1. 0 + Cells(V, n) - Cells(V, s) = m_write_addr
    BY <1>3, <1>4
  <2> QED BY <1>2, <1>4, <1>10, <2>1, PlacedMore
<1>17. /\ Place(V, m_wrap_addr, o, j) \in Nat
       /\ Place(V, m_wrap_addr, o, j) + Cells(V, s) - Cells(V, j)
            = m_wrap_addr + Cells(V, s) - Cells(V, o)
       /\ Placed(mem, V, W, Place(V, m_wrap_addr, o, j), j, s)
  BY <1>2, <1>4, PlacedFrom
<1>18. /\ m_write_addr' = Cells(U, n + 1) - Cells(U, s) /\ m_write_addr' <= Size
       /\ m_wrap_end_addr' \in Nat /\ j <= s /\ s < n + 1
  <2>1. m_write_addr' = m_write_addr + 1 + len /\ m_wrap_end_addr' = m_wrap_end_addr
    BY <1>9
  <2>2. m_write_addr' = Cells(U, n + 1) - Cells(U, s) /\ m_write_addr' <= Size
    BY <1>1, <1>3, <1>4, <1>13, <1>14, <2>1
  <2>3. j <= s /\ s < n + 1
    BY <1>2, <1>4
  <2> QED BY <1>4, <2>1, <2>2, <2>3
<1>19. CASE wrap = 0 /\ j = s
  <2>1. Placed(mem', U, X, wrap, j, s)
    BY <1>2, <1>19 DEF Placed
  <2>2. Older(U, m_write_addr', m_wrap_addr', m_wrap_end_addr', s, j)
    BY <1>9, <1>19 DEF Older
  <2>3. m_wrap_addr' \in Nat
    BY <1>9, <1>19
  <2> QED BY <1>9, <1>10, <1>11, <1>15, <1>16, <1>18, <2>1, <2>2, <2>3, Stored, <1>2 DEF Wrapped
<1>20. CASE wrap = Place(V, m_wrap_addr, o, j) /\ wrap - m_write_addr >= 1 + len
  <2>1. /\ wrap \in Nat /\ wrap + Cells(V, s) - Cells(V, j) = m_wrap_end_addr
        /\ wrap >= m_write_addr + 1 + len
    BY <1>1, <1>3, <1>4, <1>17, <1>20
  <2>2. Placed(mem', U, X, wrap, j, s)
    <3>1. wrap + Cells(V, s) - Cells(V, j) <= Size
      BY <2>1
    <3> QED BY <1>2, <1>10, <1>11, <1>17, <1>20, <2>1, <3>1, PlacedStays
  <2>3. Older(U, m_write_addr', m_wrap_addr', m_wrap_end_addr', s, j)
    <3>1. m_write_addr' <= m_wrap_addr' /\ m_wrap_end_addr' <= Size
      BY <1>1, <1>4, <1>9, <2>1
    <3>2. m_wrap_addr' + Cells(U, s) - Cells(U, j) = m_wrap_end_addr'
      BY <1>9, <1>13, <1>14, <2>1
    <3> QED BY <3>1, <3>2 DEF Older
  <2>4. m_wrap_addr' \in Nat
    BY <1>9, <2>1
  <2> QED BY <1>9, <1>10, <1>11, <1>15, <1>16, <1>18, <2>2, <2>3, <2>4, Stored, <1>2 DEF Wrapped
<1> QED BY <1>8, <1>19, <1>20

\* No packet before the wrap is in the way: the buffer has not wrapped, or none of
\* them is left.
LEMMA WriteBehind ==
    ASSUME NEW V, NEW W, NEW n, NEW U, NEW X, NEW len, Writes(V, W, n, U, X, len),
           NEW s \in 0..n, NEW o \in 0..n, m_stats = Since(V, n, o), m_write_addr \in Nat,
           m_write_addr = Cells(V, n) - Cells(V, s), Placed(mem, V, W, 0, s, n),
           m_write_addr > m_wrap_addr, ~(m_write_addr + 1 + len > Size)
    PROVE  /\ m_write_addr' = Cells(U, n + 1) - Cells(U, s) /\ m_write_addr' <= Size
           /\ m_wrap_addr' = m_wrap_addr /\ m_wrap_end_addr' = m_wrap_end_addr
           /\ Placed(mem', U, X, 0, s, n + 1)
           /\ m_stats' = Since(U, n + 1, o)
           /\ mem' \in Memory
<1>1. B!total(B!header(len)) = 1 + len /\ len \in Nat \ {0} /\ len <= Size - 1 /\ Size \in Nat
  BY WritesFit
<1>2. /\ mem \in Memory /\ len \in Lens /\ n = Len(written) /\ Grows(V, W, n, U, X, len)
      /\ n \in Nat /\ Sums(V, W, n) /\ n \in s..n /\ n \in o..n /\ n \in 0..n
  BY DEF Writes, Grows
<1>3. V[n] \in Nat /\ V[o] \in Nat
  BY <1>2, CellsOf
<1>4. V[s] \in Nat /\ Cells(V, n) \in Nat /\ Cells(V, s) \in Nat /\ Cells(V, s) <= Cells(V, n)
  BY <1>2, CellsOf
<1>5. m_write_addr + B!total(B!header(len)) = m_write_addr + 1 + len
  BY <1>1
<1>6. B!make_space_if_needed(m_write_addr, m_wrap_addr, m_wrap_end_addr, B!total(B!header(len)))
        = [wrap |-> m_wrap_addr, gone |-> B!NoPackets]
  BY Zenon DEF B!make_space_if_needed
<1>7. /\ m_wrap_addr' = m_wrap_addr /\ m_wrap_end_addr' = m_wrap_end_addr
      /\ mem' = B!stored(m_write_addr, B!header(len)) /\ m_write_addr' = m_write_addr + 1 + len
      /\ m_stats' = B!counted(B!discount(B!discount(m_stats, B!NoPackets), B!NoPackets),
                              B!header(len))
  <2> DEFINE r == [wrap |-> m_wrap_addr, gone |-> B!NoPackets]
  <2>1. ~(m_write_addr + B!total(B!header(len)) > Size)
    BY <1>5
  <2>2. r.wrap = m_wrap_addr /\ r.gone = B!NoPackets
    OBVIOUS
  <2>4. /\ m_wrap_addr' = B!make_space_if_needed(m_write_addr, m_wrap_addr, m_wrap_end_addr,
                                                 B!total(B!header(len))).wrap
        /\ m_wrap_end_addr' = m_wrap_end_addr
        /\ mem' = B!stored(m_write_addr, B!header(len))
        /\ m_write_addr' = m_write_addr + B!total(B!header(len))
        /\ m_stats' = B!counted(B!discount(B!discount(m_stats, B!NoPackets),
               B!make_space_if_needed(m_write_addr, m_wrap_addr, m_wrap_end_addr,
                                      B!total(B!header(len))).gone), B!header(len))
    BY <2>1, Zenon DEF B!write_wrap, Writes
  <2> QED BY <1>5, <1>6, <2>2, <2>4, Zenon
<1>8. Stores(m_write_addr, len, n)
  <2>1. m_write_addr + 1 + len <= Size
    BY <1>1
  <2> QED BY <1>2, <1>7, <2>1 DEF Stores
<1>9. /\ U[o] = V[o] /\ U[n + 1] = V[n] + len
  BY <1>2, CellsMore
<1>10. Cells(U, s) = Cells(V, s) /\ Cells(U, n + 1) = Cells(V, n) + 1 + len
  BY <1>2, CellsMore
<1>11. m_stats' = Since(U, n + 1, o)
  <2>1. V[n] \in Int /\ V[o] \in Int /\ o \in o..n
    BY <1>2, <1>3
  <2>2. B!NoPackets = [packets |-> o - o, bytes |-> V[o] - V[o]]
    BY <2>1 DEF B!NoPackets
  <2>3. m_stats' = Recount(V, n, o, o, o, len)
    BY <1>7, <2>2, Zenon DEF Recount
  <2> QED BY <1>2, <1>9, <2>1, <2>3, Recounted
<1>12. Placed(mem', U, X, 0, s, n + 1)
  <2>1. 0 + Cells(V, n) - Cells(V, s) = m_write_addr
    BY <1>4
  <2> QED BY <1>2, <1>8, <2>1, PlacedMore
<1>13. m_write_addr' = Cells(U, n + 1) - Cells(U, s) /\ m_write_addr' <= Size
  BY <1>1, <1>4, <1>7, <1>10
<1> QED BY <1>2, <1>7, <1>8, <1>11, <1>12, <1>13, Stored

\* A write to a buffer that wraps leaves a buffer that holds the newest packets.
KeepsNewest(U, X, n) ==
    /\ mem' \in Memory
    /\ \/ Plain(U, X, n, mem', m_write_addr', m_wrap_addr') /\ m_stats' = Since(U, n, 0)
       \/ \E s, o \in 0..n :
            /\ Wrapped(U, X, n, mem', m_write_addr', m_wrap_addr', m_wrap_end_addr', s, o)
            /\ m_stats' = Since(U, n, o)

LEMMA WritesPlain ==
    ASSUME NEW V, NEW W, NEW n, NEW U, NEW X, NEW len, Writes(V, W, n, U, X, len),
           Plain(V, W, n, mem, m_write_addr, m_wrap_addr), m_stats = Since(V, n, 0)
    PROVE  KeepsNewest(U, X, n + 1)
<1>1. /\ n \in Nat /\ Sums(V, W, n) /\ 0 \in 0..n /\ n \in 0..n /\ n + 1 \in Nat
      /\ Grows(V, W, n, U, X, len) /\ len \in Lens
  BY DEF Writes, Grows
<1>2. /\ m_wrap_addr = -1 /\ m_write_addr = Cells(V, n) /\ m_write_addr <= Size
      /\ Placed(mem, V, W, 0, 0, n)
  BY DEF Plain, B!Null
<1>3. Cells(V, n) \in Nat /\ Cells(V, 0) = 0 /\ V[0] = 0 /\ len \in Nat /\ Size \in Nat
  <2>1. Cells(V, n) \in Nat
    BY <1>1, CellsOf
  <2>2. V[0] = 0
    BY <1>1 DEF Sums
  <2> QED BY <1>1, <2>1, <2>2, HeaderTotal DEF Cells
<1>4. CASE m_write_addr + 1 + len > Size
  <2>1. B!lost_at_wrap = [packets |-> 0 - 0, bytes |-> V[0] - V[0]]
    <3>1. ~(m_wrap_addr > 0)
      BY <1>2
    <3> QED BY <1>3, <3>1 DEF B!lost_at_wrap, B!NoPackets
  <2>2. m_write_addr = Cells(V, n) - Cells(V, 0)
    BY <1>2, <1>3
  <2>3. 0 \in 0..0
    OBVIOUS
  <2>4. PICK j \in 0..n :
             /\ Wrapped(U, X, n + 1, mem', m_write_addr', m_wrap_addr', m_wrap_end_addr', n, j)
             /\ m_stats' = Since(U, n + 1, j)
             /\ mem' \in Memory
    BY <1>1, <1>2, <1>4, <2>1, <2>2, <2>3, WriteTurns
  <2>5. n \in 0..(n + 1) /\ j \in 0..(n + 1)
    BY <1>1
  <2> QED BY <2>4, <2>5 DEF KeepsNewest
<1>5. CASE ~(m_write_addr + 1 + len > Size)
  <2>1. m_write_addr = Cells(V, n) - Cells(V, 0) /\ m_write_addr \in Nat
    BY <1>2, <1>3
  <2>2. m_write_addr > m_wrap_addr
    BY <1>2, <2>1
  <2>3. /\ m_write_addr' = Cells(U, n + 1) - Cells(U, 0) /\ m_write_addr' <= Size
        /\ m_wrap_addr' = m_wrap_addr
        /\ Placed(mem', U, X, 0, 0, n + 1)
        /\ m_stats' = Since(U, n + 1, 0)
        /\ mem' \in Memory
    BY <1>1, <1>2, <1>5, <2>1, <2>2, WriteBehind
  <2>4. Cells(U, 0) = 0 /\ Cells(U, n + 1) = Cells(V, n) + 1 + len
    BY <1>1, <1>3, CellsMore
  <2>5. m_write_addr' = Cells(U, n + 1)
    BY <1>3, <2>3, <2>4
  <2>6. Plain(U, X, n + 1, mem', m_write_addr', m_wrap_addr')
    BY <1>2, <2>3, <2>5 DEF Plain, B!Null
  <2> QED BY <2>3, <2>6 DEF KeepsNewest
<1> QED BY <1>4, <1>5

LEMMA WritesWrapped ==
    ASSUME NEW V, NEW W, NEW n, NEW U, NEW X, NEW len, Writes(V, W, n, U, X, len),
           NEW s \in 0..n, NEW o \in 0..n, m_stats = Since(V, n, o),
           Wrapped(V, W, n, mem, m_write_addr, m_wrap_addr, m_wrap_end_addr, s, o)
    PROVE  KeepsNewest(U, X, n + 1)
<1>1. /\ n \in Nat /\ Sums(V, W, n) /\ n \in s..n /\ n \in 0..n /\ n + 1 \in Nat
      /\ Grows(V, W, n, U, X, len) /\ len \in Lens /\ mem \in Memory
  BY DEF Writes, Grows
<1>2. /\ o <= s /\ s < n
      /\ m_write_addr = Cells(V, n) - Cells(V, s) /\ m_write_addr <= Size
      /\ m_wrap_addr \in Nat /\ m_wrap_end_addr \in Nat
      /\ Older(V, m_write_addr, m_wrap_addr, m_wrap_end_addr, s, o)
      /\ Placed(mem, V, W, 0, s, n)
      /\ Placed(mem, V, W, m_wrap_addr, o, s)
  BY DEF Wrapped
<1>3. o \in 0..s /\ s \in o..n /\ len \in Nat /\ Size \in Nat
  BY <1>1, <1>2, HeaderTotal
<1>4. Cells(V, n) \in Nat /\ Cells(V, s) \in Nat /\ Cells(V, s) < Cells(V, n)
  BY <1>1, <1>2, CellsOf
<1>5. V[s] \in Nat /\ V[o] \in Nat /\ Cells(V, o) \in Nat
  BY <1>1, <1>3, CellsOf
<1>6. m_write_addr \in Nat /\ m_write_addr > 0
  BY <1>2, <1>4
<1> DEFINE old == /\ m_write_addr <= m_wrap_addr /\ m_wrap_end_addr <= Size
                  /\ m_wrap_addr + Cells(V, s) - Cells(V, o) = m_wrap_end_addr
<1>7. old \/ (m_wrap_addr = 0 /\ o = s)
  BY <1>2 DEF Older
<1>8. CASE m_write_addr + 1 + len > Size
  <2>1. B!lost_at_wrap = [packets |-> s - o, bytes |-> V[s] - V[o]]
    <3>1. CASE old
      <4>1. m_wrap_addr > 0
        BY <1>2, <1>6, <3>1
      <4>2. Chain(V, W, n, m_wrap_addr, o, s, m_wrap_end_addr)
        BY <1>1, <1>2, <1>3, <3>1 DEF Chain
      <4>3. B!count_packets_and_bytes(m_wrap_addr, m_wrap_end_addr)
              = [packets |-> s - o, bytes |-> V[s] - V[o]]
        BY <1>1, <4>2, ChainCounted
      <4> QED BY <4>1, <4>3 DEF B!lost_at_wrap
    <3>2. CASE m_wrap_addr = 0 /\ o = s
      <4>1. s - o = 0 /\ V[s] - V[o] = 0
        BY <1>5, <3>2
      <4> QED BY <3>2, <4>1 DEF B!lost_at_wrap, B!NoPackets
    <3> HIDE DEF old
    <3> QED BY <1>7, <3>1, <3>2
  <2> HIDE DEF old
  <2>2. PICK j \in 0..n :
             /\ Wrapped(U, X, n + 1, mem', m_write_addr', m_wrap_addr', m_wrap_end_addr', n, j)
             /\ m_stats' = Since(U, n + 1, j)
             /\ mem' \in Memory
    BY <1>2, <1>3, <1>8, <2>1, WriteTurns
  <2>3. n \in 0..(n + 1) /\ j \in 0..(n + 1)
    BY <1>1
  <2> QED BY <2>2, <2>3 DEF KeepsNewest
<1>9. CASE ~(m_write_addr + 1 + len > Size) /\ old
  <2>1. PICK j \in 0..n :
             /\ Wrapped(U, X, n + 1, mem', m_write_addr', m_wrap_addr', m_wrap_end_addr', s, j)
             /\ m_stats' = Since(U, n + 1, j)
             /\ mem' \in Memory
    BY <1>3, <1>9, WriteMakesRoom
  <2>2. s \in 0..(n + 1) /\ j \in 0..(n + 1)
    BY <1>1
  <2> HIDE DEF old
  <2> QED BY <2>1, <2>2 DEF KeepsNewest
<1>10. CASE ~(m_write_addr + 1 + len > Size) /\ m_wrap_addr = 0 /\ o = s
  <2> HIDE DEF old
  <2>1. m_write_addr > m_wrap_addr
    BY <1>6, <1>10
  <2>2. /\ m_write_addr' = Cells(U, n + 1) - Cells(U, s) /\ m_write_addr' <= Size
        /\ m_wrap_addr' = m_wrap_addr /\ m_wrap_end_addr' = m_wrap_end_addr
        /\ Placed(mem', U, X, 0, s, n + 1)
        /\ m_stats' = Since(U, n + 1, o)
        /\ mem' \in Memory
    BY <1>2, <1>6, <1>10, <2>1, WriteBehind
  <2>3. Placed(mem', U, X, m_wrap_addr', o, s)
    BY <1>1, <1>10 DEF Placed
  <2>4. Older(U, m_write_addr', m_wrap_addr', m_wrap_end_addr', s, o)
    BY <1>10, <2>2 DEF Older
  <2>5. s < n + 1 /\ s \in 0..(n + 1) /\ o \in 0..(n + 1)
    BY <1>1, <1>2
  <2>6. Wrapped(U, X, n + 1, mem', m_write_addr', m_wrap_addr', m_wrap_end_addr', s, o)
    BY <1>2, <2>2, <2>3, <2>4, <2>5 DEF Wrapped
  <2> QED BY <2>2, <2>5, <2>6 DEF KeepsNewest
<1> HIDE DEF old
<1> QED BY <1>7, <1>8, <1>9, <1>10

\* The volumes before and after a packet is written.
LEMMA WriteGrows ==
    ASSUME written \in Seq(Lens), NEW len \in Lens, written' = Append(written, len)
    PROVE  /\ Grows(B!volume, written, Len(written), B!volume', written', len)
           /\ Len(written') = Len(written) + 1 /\ written' \in Seq(Lens)
<1>1. Sums(B!volume, written, Len(written))
  BY Volumes
<1>2. written' \in Seq(Lens)
  OBVIOUS
<1>3. Sums(B!volume', written', Len(written'))
  BY <1>2, VolumeSums DEF B!volume
<1> QED BY <1>1, <1>2, <1>3, Grown, Zenon

LEMMA WriteWrapKeeps ==
    ASSUME BInv, NEW len \in Lens, B!write_wrap(len)
    PROVE  BInv'
<1>1. /\ written' = Append(written, len) /\ wraps /\ wraps' = wraps /\ quiet' = FALSE
      /\ reader' = reader
  BY DEF B!write_wrap
<1>2. /\ Grows(B!volume, written, Len(written), B!volume', written', len)
      /\ Len(written') = Len(written) + 1 /\ written' \in Seq(Lens)
  BY <1>1, WriteGrows DEF BInv
<1>3. Writes(B!volume, written, Len(written), B!volume', written', len)
  BY <1>2 DEF BInv, Writes
<1>4. KeepsNewest(B!volume', written', Len(written) + 1)
  <2>1. CASE AllKept(B!volume, written, Len(written))
    <3>1. /\ Plain(B!volume, written, Len(written), mem, m_write_addr, m_wrap_addr)
          /\ m_stats = Since(B!volume, Len(written), 0)
      BY <2>1, Zenon DEF AllKept
    <3> QED BY <1>3, <3>1, WritesPlain, Zenon
  <2>2. CASE \E s, o \in 0..Len(written) : NewestKept(B!volume, written, Len(written), s, o)
    <3>1. PICK s \in 0..Len(written), o \in 0..Len(written) :
             NewestKept(B!volume, written, Len(written), s, o)
      BY <2>2
    <3>2. /\ m_stats = Since(B!volume, Len(written), o)
          /\ Wrapped(B!volume, written, Len(written), mem, m_write_addr, m_wrap_addr,
                     m_wrap_end_addr, s, o)
      BY <3>1, Zenon DEF NewestKept
    <3> QED BY <1>3, <3>2, WritesWrapped, Zenon
  <2> QED BY <2>1, <2>2 DEF BInv
<1>5. KeepsNewest(B!volume', written', Len(written'))
  BY <1>2, <1>4
<1>6. /\ mem' \in Memory
      /\ \/ AllKept(B!volume, written, Len(written))'
         \/ (\E s, o \in 0..Len(written) : NewestKept(B!volume, written, Len(written), s, o))'
  BY <1>1, <1>5, Zenon DEF KeepsNewest, AllKept, NewestKept
<1>7. IsReader(reader)'
  BY <1>1 DEF BInv, IsReader
<1> QED BY <1>1, <1>2, <1>6, <1>7 DEF BInv

\* A reader of a plain buffer does not notice that a packet is written.
LEMMA ReaderUndisturbed ==
    ASSUME NEW V, NEW W, NEW n, NEW U, NEW X, NEW len, Grows(V, W, n, U, X, len),
           NEW r, NEW calm, NEW e \in 0..n, NEW g \in 0..n, ReadsPlain(V, n, r, calm, e, g)
    PROVE  ReadsPlain(U, n + 1, r, FALSE, e, g) /\ e \in 0..(n + 1) /\ g \in 0..(n + 1)
<1>1. n \in Nat /\ 0 \in 0..n /\ 0 + g = g
  BY DEF Grows
<1>2. U[e] = V[e] /\ U[g] = V[g] /\ U[0] = V[0]
  BY <1>1 DEF Grows
<1>3. Cells(U, e) = Cells(V, e) /\ Cells(U, g) = Cells(V, g)
  BY <1>2 DEF Cells
<1>4. Got(U, r, g, 0)
  BY <1>1, <1>2 DEF ReadsPlain, Got
<1> QED BY <1>1, <1>3, <1>4 DEF ReadsPlain

LEMMA WriteMemKeeps ==
    ASSUME BInv, NEW len \in Lens, B!write_mem(len)
    PROVE  BInv'
<1> DEFINE V == B!volume
           W == written
           n == Len(written)
<1>1. ~wraps /\ wraps' = wraps /\ reader' = reader /\ m_wrap_addr' = m_wrap_addr
      /\ m_wrap_end_addr' = m_wrap_end_addr
  BY DEF B!write_mem
<1>2. AllKept(V, W, n)
  BY <1>1 DEF BInv, NewestKept
<1>3. CASE UNCHANGED <<mem, m_write_addr, m_stats, written, quiet>>
  <2>1. B!volume' = B!volume
    BY <1>3 DEF B!volume
  <2> QED BY <1>1, <1>3, <2>1 DEF BInv, AllKept, NewestKept
<1>4. CASE /\ m_write_addr + B!total(B!header(len)) <= Size
           /\ mem' = B!stored(m_write_addr, B!header(len))
           /\ m_write_addr' = m_write_addr + B!total(B!header(len))
           /\ m_stats' = B!counted(m_stats, B!header(len))
           /\ written' = Append(written, len)
           /\ quiet' = FALSE
  <2> DEFINE U == B!volume'
             X == written'
  <2>1. Grows(V, W, n, U, X, len) /\ Len(X) = n + 1 /\ X \in Seq(Lens)
    BY <1>4, WriteGrows DEF BInv
  <2>2. /\ Plain(V, W, n, mem, m_write_addr, m_wrap_addr) /\ m_stats = Since(V, n, 0)
        /\ \E e, g \in 0..n : ReadsPlain(V, n, reader, quiet, e, g)
    BY <1>1, <1>2, Zenon DEF AllKept
  <2>3. n = Len(written) /\ mem \in Memory
    BY DEF BInv
  <2>4. PICK e \in 0..n, g \in 0..n : ReadsPlain(V, n, reader, quiet, e, g)
    BY <2>2, Zenon
  <2> HIDE DEF V, W, n, U, X
  <2>5. B!total(B!header(len)) = 1 + len /\ B!header(len).len = len /\ len \in Nat /\ Size \in Nat
    BY HeaderTotal
  <2>6. n \in Nat /\ Sums(V, W, n) /\ 0 \in 0..n /\ n \in 0..n
    BY <2>1 DEF Grows
  <2>7. V[0] = 0 /\ V[n] \in Nat /\ Cells(V, 0) = 0 /\ Cells(V, n) \in Nat
    <3>1. V[0] = 0
      BY <2>6 DEF Sums
    <3> QED BY <2>6, <3>1, CellsOf DEF Cells
  <2>8. /\ m_wrap_addr = B!Null /\ m_write_addr = Cells(V, n) /\ Placed(mem, V, W, 0, 0, n)
    BY <2>2 DEF Plain
  <2>9. Stores(m_write_addr, len, n)
    BY <1>4, <2>3, <2>5, <2>7, <2>8 DEF Stores
  <2>10. Placed(mem', U, X, 0, 0, n + 1)
    <3>1. 0 + Cells(V, n) - Cells(V, 0) = m_write_addr
      BY <2>7, <2>8
    <3> QED BY <2>1, <2>3, <2>6, <2>8, <2>9, <3>1, PlacedMore
  <2>11. U[0] = V[0] /\ U[n + 1] = V[n] + len /\ Cells(U, n + 1) = Cells(V, n) + 1 + len
    BY <2>1, <2>6, CellsMore
  <2>12. Plain(U, X, n + 1, mem', m_write_addr', m_wrap_addr')
    <3>1. m_write_addr' = Cells(U, n + 1) /\ m_write_addr' <= Size
      BY <1>4, <2>5, <2>7, <2>8, <2>11
    <3> QED BY <1>1, <2>8, <2>10, <3>1 DEF Plain
  <2>13. m_stats' = Since(U, n + 1, 0)
    <3>1. n - 0 + 1 = (n + 1) - 0 /\ V[n] - V[0] + len = U[n + 1] - U[0]
      BY <2>5, <2>6, <2>7, <2>11
    <3>2. m_stats.packets = n - 0 /\ m_stats.bytes = V[n] - V[0]
      BY <2>2 DEF Since
    <3>3. m_stats' = [packets |-> m_stats.packets + 1, bytes |-> m_stats.bytes + len]
      BY <1>4, <2>5 DEF B!counted
    <3>4. m_stats' = [packets |-> n - 0 + 1, bytes |-> V[n] - V[0] + len]
      BY <3>2, <3>3, Zenon
    <3>5. Since(U, n + 1, 0) = [packets |-> (n + 1) - 0, bytes |-> U[n + 1] - U[0]]
      BY DEF Since
    <3> QED BY <3>1, <3>4, <3>5
  <2>14. ReadsPlain(U, n + 1, reader, FALSE, e, g) /\ e \in 0..(n + 1) /\ g \in 0..(n + 1)
    BY <2>1, <2>4, ReaderUndisturbed
  <2>15. mem' \in Memory
    BY <2>3, <2>6, <2>9, Stored
  <2>16. ReadsPlain(U, Len(X), reader', quiet', e, g) /\ e \in 0..Len(X) /\ g \in 0..Len(X)
    BY <1>1, <1>4, <2>1, <2>14
  <2>17. Plain(U, X, Len(X), mem', m_write_addr', m_wrap_addr') /\ m_stats' = Since(U, Len(X), 0)
    BY <2>1, <2>12, <2>13
  <2>18. AllKept(B!volume, written, Len(written))'
    BY <2>16, <2>17, Zenon DEF AllKept, U, X
  <2>19. IsReader(reader)' /\ wraps' \in BOOLEAN /\ quiet' \in BOOLEAN
    BY <1>1, <1>4 DEF BInv, IsReader
  <2>20. written' \in Seq(Lens)
    BY <2>1 DEF X
  <2> QED BY <2>15, <2>18, <2>19, <2>20 DEF BInv
<1> QED BY <1>3, <1>4 DEF B!write_mem

-----------------------------------------------------------------------------
(* Buffers of captures: reading.                                           *)

\* A reader turns to an address.
LEMMA ReaderTurns ==
    ASSUME NEW r, IsReader(r), NEW x, NEW q, q = [r EXCEPT !.addr = x]
    PROVE  /\ IsReader(q) /\ q.wrap = r.wrap /\ q.end = r.end /\ q.eof = r.eof
           /\ q.addr = x /\ q.offset = r.offset /\ q.got = r.got
  BY DEF IsReader

\* What a turn of the loop does to a reader.
LEMMA ReaderSteps ==
    ASSUME IsReader(reader), B!read_packets
    PROVE  /\ IsReader(reader') /\ ~reader.eof
           /\ reader'.wrap = reader.wrap /\ reader'.end = reader.end
           /\ UNCHANGED <<wraps, mem, m_write_addr, m_wrap_addr, m_wrap_end_addr, m_full,
                          m_stats, written, quiet>>
           /\ B!at_eof => /\ reader'.eof /\ reader'.addr = reader.addr
                          /\ reader'.offset = reader.offset /\ reader'.got = reader.got
           /\ ~B!at_eof /\ B!at_turn =>
                /\ reader'.addr = 0 /\ reader'.eof = reader.eof
                /\ reader'.offset = reader.offset /\ reader'.got = reader.got
<1> DEFINE limit == IF reader.wrap # B!Null /\ reader.addr < reader.wrap
                    THEN reader.wrap ELSE reader.end
           h == mem[reader.addr]
           r1 == [reader EXCEPT !.eof = TRUE]
           r2 == [reader EXCEPT !.addr = 0]
           r3 == [reader EXCEPT !.addr = @ + B!total(h), !.offset = @ + h.len,
                                !.got = Append(@, h.id)]
<1>1. /\ ~reader.eof
      /\ reader' = IF B!at_eof THEN r1 ELSE IF B!at_turn THEN r2
                   ELSE IF reader.addr + B!total(h) > limit THEN r1 ELSE r3
      /\ UNCHANGED <<wraps, mem, m_write_addr, m_wrap_addr, m_wrap_end_addr, m_full,
                     m_stats, written, quiet>>
  BY Zenon DEF B!read_packets
<1>4. reader' \in {r1, r2, r3}
  <2> HIDE DEF r1, r2, r3, limit, h
  <2> QED BY <1>1
<1> HIDE DEF r1, r2, r3, limit, h
<1>5. /\ IsReader(r1) /\ r1.wrap = reader.wrap /\ r1.end = reader.end /\ r1.eof = TRUE
      /\ r1.addr = reader.addr /\ r1.offset = reader.offset /\ r1.got = reader.got
  BY DEF r1, IsReader
<1>6. /\ IsReader(r2) /\ r2.wrap = reader.wrap /\ r2.end = reader.end /\ r2.eof = reader.eof
      /\ r2.addr = 0 /\ r2.offset = reader.offset /\ r2.got = reader.got
  BY ReaderTurns DEF r2
<1>7. IsReader(r3) /\ r3.wrap = reader.wrap /\ r3.end = reader.end
  BY DEF r3, IsReader
<1> QED BY <1>1, <1>4, <1>5, <1>6, <1>7

\* A packet is read that ends before the limit.
LEMMA ReaderTakes ==
    ASSUME IsReader(reader), B!read_packets, ~B!at_eof, ~B!at_turn,
           NEW W, NEW i, mem[reader.addr] = Packet(W, i), W[i] \in Nat, reader.addr \in Int,
           NEW limit \in Int,
           limit = IF reader.wrap # B!Null /\ reader.addr < reader.wrap
                   THEN reader.wrap ELSE reader.end,
           reader.addr + 1 + W[i] <= limit
    PROVE  /\ reader'.addr = reader.addr + 1 + W[i] /\ reader'.offset = reader.offset + W[i]
           /\ reader'.got = Append(reader.got, i) /\ reader'.eof = reader.eof
<1> DEFINE h == mem[reader.addr]
           r1 == [reader EXCEPT !.eof = TRUE]
           r2 == [reader EXCEPT !.addr = 0]
           r3 == [reader EXCEPT !.addr = @ + B!total(h), !.offset = @ + h.len,
                                !.got = Append(@, h.id)]
<1>1. reader' = IF B!at_eof THEN r1 ELSE IF B!at_turn THEN r2
                ELSE IF reader.addr + B!total(h) > limit THEN r1 ELSE r3
  BY Zenon DEF B!read_packets
<1>2. h.len = W[i] /\ h.id = i /\ B!total(h) = 1 + W[i]
  BY DEF Packet, B!total, B!Hdr
<1>3. reader.addr + B!total(h) = reader.addr + 1 + W[i]
  BY <1>2
<1>4. ~(reader.addr + B!total(h) > limit)
  BY <1>3
<1>5. reader' = r3
  <2> HIDE DEF h, r1, r2, r3
  <2> QED BY <1>1, <1>4
<1>6. /\ r3.addr = reader.addr + B!total(h) /\ r3.offset = reader.offset + h.len
      /\ r3.got = Append(reader.got, h.id) /\ r3.eof = reader.eof
  <2> HIDE DEF h
  <2> QED BY DEF IsReader
<1> HIDE DEF h, r3
<1> QED BY <1>2, <1>3, <1>5, <1>6

\* The packets that a reader has got, and one more.
LEMMA GotMore ==
    ASSUME NEW V, NEW W, NEW n \in Nat, Sums(V, W, n), NEW r, NEW q, NEW o \in 0..n, NEW g \in 0..n,
           o + g < n, Got(V, r, g, o), q.got = Append(r.got, o + g + 1),
           q.offset = r.offset + W[o + g + 1]
    PROVE  Got(V, q, g + 1, o)
<1>1. /\ o + g \in 0..n /\ o + g + 1 \in 1..n /\ o + g + 1 - 1 = o + g /\ o + (g + 1) = o + g + 1
      /\ o + g \in o..n
  OBVIOUS
<1>2. V[o + g + 1] = V[o + g] + W[o + g + 1] /\ W[o + g + 1] \in Nat
  BY <1>1 DEF Sums
<1>3. V[o + g] \in Nat /\ V[o] \in Nat
  BY <1>1 DEF Sums
<1>4. q.offset = V[o + (g + 1)] - V[o]
  <2>1. r.offset = V[o + g] - V[o]
    BY DEF Got
  <2> QED BY <1>1, <1>2, <1>3, <2>1
<1>5. Append([i \in 1..g |-> o + i], o + g + 1) = [i \in 1..(g + 1) |-> o + i]
  <2> DEFINE t == [i \in 1..g |-> o + i]
             u == [i \in 1..(g + 1) |-> o + i]
  <2>1. t \in Seq(Nat) /\ Len(t) = g /\ u \in Seq(Nat) /\ Len(u) = g + 1
    OBVIOUS
  <2>2. \A i \in 1..g : t[i] = o + i /\ u[i] = o + i
    OBVIOUS
  <2>3. u[g + 1] = o + g + 1
    OBVIOUS
  <2> HIDE DEF t, u
  <2>4. Append(t, o + g + 1) \in Seq(Nat) /\ Len(Append(t, o + g + 1)) = g + 1
        /\ Append(t, o + g + 1)[g + 1] = o + g + 1
        /\ \A i \in 1..g : Append(t, o + g + 1)[i] = t[i]
    BY <2>1
  <2>5. \A i \in 1..(g + 1) : i \in 1..g \/ i = g + 1
    OBVIOUS
  <2> DEFINE a == Append(t, o + g + 1)
  <2>6. a \in Seq(Nat) /\ Len(a) = g + 1 /\ \A i \in 1..(g + 1) : a[i] = u[i]
    BY <2>2, <2>3, <2>4, <2>5
  <2> HIDE DEF a
  <2>7. a = u
    BY <2>1, <2>6
  <2> QED BY <2>7 DEF a, t, u
<1>6. q.got = [i \in 1..(g + 1) |-> o + i]
  BY <1>5 DEF Got
<1> QED BY <1>4, <1>6 DEF Got

\* A reader of a plain buffer goes on.
LEMMA ReadPlain ==
    ASSUME NEW V, NEW W, NEW n \in Nat, Sums(V, W, n),
           Plain(V, W, n, mem, m_write_addr, m_wrap_addr),
           IsReader(reader), B!read_packets,
           NEW calm, NEW e \in 0..n, NEW g \in 0..n, ReadsPlain(V, n, reader, calm, e, g)
    PROVE  \E k \in 0..n : ReadsPlain(V, n, reader', calm, e, k)
<1>1. /\ g <= e /\ (calm => e = n)
      /\ reader.wrap = -1 /\ reader.end = Cells(V, e) /\ reader.addr = Cells(V, g)
      /\ Got(V, reader, g, 0)
  BY DEF ReadsPlain, B!Null
<1>2. /\ IsReader(reader') /\ ~reader.eof
      /\ reader'.wrap = reader.wrap /\ reader'.end = reader.end
  BY ReaderSteps
<1>3. e \in g..n /\ 0 \in 0..n /\ 0 + g = g
  BY <1>1
<1>4. /\ Cells(V, g) \in Nat /\ Cells(V, e) \in Nat
      /\ Cells(V, g) + 2 * (e - g) <= Cells(V, e)
  BY <1>3, CellsOf
<1>5. ~B!at_turn
  BY <1>1 DEF B!at_turn, B!Null
<1>6. B!at_eof <=> ~(Cells(V, g) + 1 <= Cells(V, e))
  <2>1. reader.addr # reader.wrap
    BY <1>1, <1>4
  <2> QED BY <1>1, <2>1 DEF B!at_eof, B!Null, B!hdr_before, B!Hdr
<1>7. CASE g = e
  <2>1. B!at_eof
    BY <1>4, <1>6, <1>7
  <2>2. reader'.eof /\ reader'.addr = reader.addr /\ reader'.offset = reader.offset
        /\ reader'.got = reader.got
    BY <2>1, ReaderSteps
  <2>3. Got(V, reader', g, 0)
    BY <1>1, <2>2 DEF Got
  <2> QED BY <1>1, <1>2, <1>7, <2>2, <2>3 DEF ReadsPlain, B!Null
<1>8. CASE g # e
  <2>1. g < e /\ g < n /\ g + 1 \in 1..n /\ g + 1 \in 0..n /\ g + 1 - 1 = g /\ e \in (g + 1)..n
        /\ n \in g..n /\ 0 + g + 1 = g + 1
    BY <1>3, <1>8
  <2>2. W[g + 1] \in Nat \ {0} /\ Cells(V, g + 1) = Cells(V, g) + 1 + W[g + 1]
    <3>1. g \in g..n
      BY <1>3
    <3> QED BY <2>1, <3>1, CellsRise
  <2>3. Cells(V, g + 1) <= Cells(V, e)
    BY <2>1, CellsOf
  <2>4. ~B!at_eof
    BY <1>4, <1>6, <2>2, <2>3
  <2>5. mem[reader.addr] = Packet(W, g + 1)
    <3>1. mem[0 + Cells(V, g + 1 - 1) - Cells(V, 0)] = Packet(W, g + 1)
      BY <2>1 DEF Plain, Placed
    <3>2. V[0] = 0
      BY DEF Sums
    <3>3. 0 + Cells(V, g + 1 - 1) - Cells(V, 0) = reader.addr
      BY <1>1, <1>4, <2>1, <3>2 DEF Cells
    <3> QED BY <3>1, <3>3
  <2>6. reader.end = IF reader.wrap # B!Null /\ reader.addr < reader.wrap
                     THEN reader.wrap ELSE reader.end
    BY <1>1 DEF B!Null
  <2>7. reader.addr \in Int /\ reader.end \in Int /\ reader.addr + 1 + W[g + 1] <= reader.end
    BY <1>1, <1>4, <2>2, <2>3
  <2>8. /\ reader'.addr = reader.addr + 1 + W[g + 1] /\ reader'.offset = reader.offset + W[g + 1]
        /\ reader'.got = Append(reader.got, g + 1) /\ reader'.eof = reader.eof
    BY <1>5, <2>2, <2>4, <2>5, <2>6, <2>7, ReaderTakes
  <2>9. Got(V, reader', g + 1, 0)
    <3>1. 0 + g < n /\ reader'.got = Append(reader.got, 0 + g + 1)
          /\ reader'.offset = reader.offset + W[0 + g + 1]
      BY <2>1, <2>8
    <3> QED BY <1>1, <1>3, <3>1, GotMore
  <2>10. ReadsPlain(V, n, reader', calm, e, g + 1)
    <3>1. g + 1 <= e /\ reader'.addr = Cells(V, g + 1)
      BY <1>1, <2>1, <2>2, <2>8
    <3> QED BY <1>1, <1>2, <2>8, <2>9, <3>1 DEF ReadsPlain, B!Null
  <2> QED BY <2>1, <2>10
<1> QED BY <1>7, <1>8

\* A reader of a wrapped buffer goes on: through the packets before the wrap, to the
\* start, and through those since.
LEMMA ReadWrapped ==
    ASSUME NEW V, NEW W, NEW n \in Nat, Sums(V, W, n), NEW s \in 0..n, NEW o \in 0..n,
           Wrapped(V, W, n, mem, m_write_addr, m_wrap_addr, m_wrap_end_addr, s, o),
           IsReader(reader), B!read_packets, NEW g \in 0..n,
           ReadsWrapped(V, n, reader, m_write_addr, m_wrap_addr, m_wrap_end_addr, s, o, g)
    PROVE  \E k \in 0..n : ReadsWrapped(V, n, reader', m_write_addr, m_wrap_addr,
                                        m_wrap_end_addr, s, o, k)
<1> DEFINE write == m_write_addr
           wrap == m_wrap_addr
           end == m_wrap_end_addr
<1>1. /\ o + g <= n /\ reader.wrap = write /\ reader.end = end /\ Got(V, reader, g, o)
      /\ \/ /\ o + g <= s /\ write <= wrap
            /\ wrap + Cells(V, s) - Cells(V, o) = end
            /\ reader.addr = wrap + Cells(V, o + g) - Cells(V, o)
         \/ o + g >= s /\ reader.addr = Cells(V, o + g) - Cells(V, s)
  BY DEF ReadsWrapped
<1>2. /\ IsReader(reader') /\ ~reader.eof
      /\ reader'.wrap = reader.wrap /\ reader'.end = reader.end
  BY ReaderSteps
<1>3. /\ o <= s /\ s < n /\ write = Cells(V, n) - Cells(V, s)
      /\ wrap \in Nat /\ end \in Nat
      /\ Placed(mem, V, W, 0, s, n) /\ Placed(mem, V, W, wrap, o, s)
  BY DEF Wrapped
<1> DEFINE c == o + g
<1>4. /\ c \in Nat /\ c \in 0..n /\ c \in o..n /\ s \in o..n /\ n \in s..n /\ n \in c..n /\ n \in o..n
      /\ o \in Nat /\ s \in Nat
  BY <1>1, <1>3
<1>5. /\ Cells(V, o) \in Nat /\ Cells(V, c) \in Nat /\ Cells(V, n) \in Nat
      /\ Cells(V, o) <= Cells(V, c) /\ Cells(V, c) <= Cells(V, n)
      /\ o < c => Cells(V, o) < Cells(V, c)
  <2> HIDE DEF c
  <2> QED BY <1>4, CellsOf
<1>6. Cells(V, s) \in Nat /\ Cells(V, s) < Cells(V, n)
  BY <1>3, <1>4, CellsOf
<1>7. V[o] \in Nat /\ V[n] \in Nat /\ V[o] + (n - o) <= V[n]
  BY <1>4, SumsRise
<1>8. write \in Nat /\ write # B!Null /\ write > 0
  BY <1>3, <1>5, <1>6 DEF B!Null
<1>9. reader.offset = V[c] - V[o]
  BY <1>1 DEF Got
<1>10. ASSUME c < n
       PROVE  /\ c + 1 \in 0..n /\ c + 1 \in 1..n /\ c + 1 - 1 = c /\ o + (g + 1) = c + 1
              /\ g + 1 \in 0..n
              /\ W[c + 1] \in Nat \ {0} /\ Cells(V, c + 1) = Cells(V, c) + 1 + W[c + 1]
              /\ Cells(V, c + 1) <= Cells(V, n)
              /\ c < s => Cells(V, c + 1) <= Cells(V, s)
  <2>1. c + 1 \in 0..n /\ c + 1 \in 1..n /\ c + 1 - 1 = c /\ o + (g + 1) = c + 1
        /\ g + 1 \in 0..n /\ n \in (c + 1)..n /\ c \in c..n /\ (c < s => s \in (c + 1)..n)
    BY <1>4, <1>10
  <2> HIDE DEF c
  <2>2. W[c + 1] \in Nat \ {0} /\ Cells(V, c + 1) = Cells(V, c) + 1 + W[c + 1]
    BY <1>4, <1>10, <2>1, CellsRise
  <2>3. Cells(V, c + 1) <= Cells(V, n)
    BY <2>1, CellsOf
  <2>4. c < s => Cells(V, c + 1) <= Cells(V, s)
    BY <2>1, CellsOf
  <2> QED BY <2>1, <2>2, <2>3, <2>4
<1>11. ASSUME c < n, reader'.got = Append(reader.got, c + 1), reader'.eof = reader.eof,
              reader'.offset = reader.offset + W[c + 1]
       PROVE  Got(V, reader', g + 1, o) /\ o + (g + 1) <= n /\ ~reader'.eof
  <2>1. /\ o + g < n /\ reader'.got = Append(reader.got, o + g + 1)
        /\ reader'.offset = reader.offset + W[o + g + 1]
    BY <1>11
  <2>2. Got(V, reader', g + 1, o)
    BY <1>1, <2>1, GotMore, Zenon
  <2>3. o + (g + 1) <= n
    BY <1>4, <1>11
  <2> QED BY <1>2, <1>11, <2>2, <2>3
<1>12. CASE /\ c <= s /\ write <= wrap
            /\ wrap + Cells(V, s) - Cells(V, o) = end
            /\ reader.addr = wrap + Cells(V, c) - Cells(V, o)
  <2>1. reader.addr \in Nat /\ reader.addr >= wrap /\ ~(reader.addr < reader.wrap)
    <3> HIDE DEF c
    <3> QED BY <1>1, <1>3, <1>5, <1>8, <1>12
  <2>2. ~B!at_eof
    <3>1. ASSUME reader.addr = reader.wrap PROVE reader.offset = 0
      <4>1. Cells(V, c) <= Cells(V, o)
        <5> HIDE DEF c
        <5> QED BY <1>1, <1>3, <1>5, <1>8, <1>12, <3>1
      <4>2. ~(o < c)
        <5> HIDE DEF c
        <5> QED BY <1>5, <4>1
      <4>3. c = o
        <5> HIDE DEF c
        <5> QED BY <1>4, <4>2
      <4> HIDE DEF c
      <4> QED BY <1>7, <1>9, <4>3
    <3> QED BY <1>1, <1>8, <2>1, <3>1 DEF B!at_eof
  <2>3. CASE c = s
    <3>1. reader.addr = reader.end
      <4> HIDE DEF c
      <4> QED BY <1>1, <1>12, <2>3
    <3>2. B!at_turn
      <4>1. reader.addr >= reader.wrap
        BY <1>1, <1>8, <2>1
      <4>2. ~(reader.addr + 1 <= reader.end)
        BY <2>1, <3>1
      <4> QED BY <1>1, <1>8, <4>1, <4>2 DEF B!at_turn, B!hdr_before, B!Hdr
    <3>3. /\ reader'.addr = 0 /\ reader'.eof = reader.eof
          /\ reader'.offset = reader.offset /\ reader'.got = reader.got
      BY <2>2, <3>2, ReaderSteps
    <3>4. Got(V, reader', g, o)
      BY <1>1, <3>3 DEF Got
    <3>5. o + g >= s /\ reader'.addr = Cells(V, o + g) - Cells(V, s)
      BY <1>4, <1>6, <2>3, <3>3
    <3> QED BY <1>1, <1>2, <3>3, <3>4, <3>5 DEF ReadsWrapped
  <2>4. CASE c # s
    <3>1. c < s /\ c < n
      <4> HIDE DEF c
      <4> QED BY <1>3, <1>4, <1>12, <2>4
    <3>2. mem[reader.addr] = Packet(W, c + 1)
      <4>1. c + 1 \in (o + 1)..s /\ c + 1 - 1 = c
        BY <1>3, <1>4, <3>1
      <4> HIDE DEF c
      <4>2. mem[wrap + Cells(V, (c + 1) - 1) - Cells(V, o)] = Packet(W, c + 1)
        BY <1>3, <4>1, Zenon DEF Placed
      <4>3. (c + 1) - 1 = c
        BY <1>4
      <4> QED BY <1>12, <4>2, <4>3, Zenon
    <3>3. reader.addr + 1 + W[c + 1] <= reader.end /\ reader.addr + 1 <= reader.end
          /\ reader.end \in Int /\ W[c + 1] \in Nat
      <4>1. /\ W[c + 1] \in Nat \ {0} /\ Cells(V, c + 1) = Cells(V, c) + 1 + W[c + 1]
            /\ Cells(V, c + 1) <= Cells(V, s)
        BY <1>10, <3>1
      <4> HIDE DEF c
      <4> QED BY <1>1, <1>3, <1>5, <1>6, <1>12, <2>1, <4>1
    <3>4. ~B!at_turn
      BY <3>3 DEF B!at_turn, B!hdr_before, B!Hdr
    <3>5. reader.end = IF reader.wrap # B!Null /\ reader.addr < reader.wrap
                       THEN reader.wrap ELSE reader.end
      BY <2>1
    <3>6. /\ reader'.addr = reader.addr + 1 + W[c + 1]
          /\ reader'.offset = reader.offset + W[c + 1]
          /\ reader'.got = Append(reader.got, c + 1) /\ reader'.eof = reader.eof
      <4> HIDE DEF c
      <4> QED BY <2>1, <2>2, <3>2, <3>3, <3>4, <3>5, ReaderTakes
    <3>7. Got(V, reader', g + 1, o) /\ o + (g + 1) <= n /\ ~reader'.eof
      BY <1>11, <3>1, <3>6
    <3>8. /\ o + (g + 1) = c + 1 /\ g + 1 \in 0..n
          /\ Cells(V, c + 1) = Cells(V, c) + 1 + W[c + 1] /\ W[c + 1] \in Nat
      BY <1>10, <3>1
    <3>9. o + (g + 1) <= s
      BY <1>4, <3>1, <3>8
    <3>10. reader'.addr = wrap + Cells(V, o + (g + 1)) - Cells(V, o)
      <4> HIDE DEF c
      <4> QED BY <1>3, <1>5, <1>12, <3>6, <3>8
    <3>11. ReadsWrapped(V, n, reader', write, wrap, end, s, o, g + 1)
      BY <1>1, <1>2, <1>12, <3>7, <3>9, <3>10 DEF ReadsWrapped
    <3> QED BY <3>8, <3>11
  <2> QED BY <2>3, <2>4
<1>13. CASE c >= s /\ reader.addr = Cells(V, c) - Cells(V, s)
  <2>1. Cells(V, s) <= Cells(V, c)
    <3>1. c \in s..n
      BY <1>4, <1>13
    <3> HIDE DEF c
    <3> QED BY <3>1, CellsOf
  <2>2. reader.addr \in Nat
    <3> HIDE DEF c
    <3> QED BY <1>5, <1>6, <1>13, <2>1
  <2>3. CASE c = n
    <3>1. reader.addr = reader.wrap
      <4> HIDE DEF c
      <4> QED BY <1>1, <1>3, <1>13, <2>3
    <3>2. reader.offset # 0
      <4>1. n - o > 0
        BY <1>3, <1>4
      <4> HIDE DEF c
      <4> QED BY <1>4, <1>7, <1>9, <2>3, <4>1
    <3>3. B!at_eof
      BY <3>1, <3>2 DEF B!at_eof
    <3>4. /\ reader'.eof /\ reader'.addr = reader.addr
          /\ reader'.offset = reader.offset /\ reader'.got = reader.got
      BY <3>3, ReaderSteps
    <3>5. Got(V, reader', g, o)
      BY <1>1, <3>4 DEF Got
    <3> QED BY <1>1, <1>2, <1>13, <2>3, <3>4, <3>5 DEF ReadsWrapped
  <2>4. CASE c # n
    <3>1. c < n
      <4> HIDE DEF c
      <4> QED BY <1>4, <2>4
    <3>2. mem[reader.addr] = Packet(W, c + 1)
      <4>1. c + 1 \in (s + 1)..n /\ c + 1 - 1 = c
        BY <1>3, <1>4, <1>13, <3>1
      <4> HIDE DEF c
      <4>2. mem[0 + Cells(V, (c + 1) - 1) - Cells(V, s)] = Packet(W, c + 1)
        BY <1>3, <4>1, Zenon DEF Placed
      <4>3. (c + 1) - 1 = c
        BY <1>4
      <4>4. 0 + Cells(V, (c + 1) - 1) - Cells(V, s) = reader.addr
        BY <1>5, <1>6, <1>13, <4>3
      <4> QED BY <4>2, <4>4
    <3>3. reader.addr + 1 + W[c + 1] <= reader.wrap /\ reader.addr + 1 <= reader.wrap
          /\ reader.wrap \in Int /\ W[c + 1] \in Nat /\ reader.addr < reader.wrap
      <4>1. /\ W[c + 1] \in Nat \ {0} /\ Cells(V, c + 1) = Cells(V, c) + 1 + W[c + 1]
            /\ Cells(V, c + 1) <= Cells(V, n)
        BY <1>10, <3>1
      <4> HIDE DEF c
      <4> QED BY <1>1, <1>3, <1>5, <1>6, <1>13, <2>2, <4>1
    <3>4. ~B!at_turn /\ ~B!at_eof
      <4>1. ~(reader.addr >= reader.wrap) /\ reader.addr # reader.wrap
        BY <2>2, <3>3
      <4> QED BY <1>1, <1>8, <3>3, <4>1 DEF B!at_turn, B!at_eof, B!hdr_before, B!Hdr
    <3>5. reader.wrap = IF reader.wrap # B!Null /\ reader.addr < reader.wrap
                        THEN reader.wrap ELSE reader.end
      BY <1>1, <1>8, <3>3
    <3>6. /\ reader'.addr = reader.addr + 1 + W[c + 1]
          /\ reader'.offset = reader.offset + W[c + 1]
          /\ reader'.got = Append(reader.got, c + 1) /\ reader'.eof = reader.eof
      <4> HIDE DEF c
      <4> QED BY <2>2, <3>2, <3>3, <3>4, <3>5, ReaderTakes
    <3>7. Got(V, reader', g + 1, o) /\ o + (g + 1) <= n /\ ~reader'.eof
      BY <1>11, <3>1, <3>6
    <3>8. /\ o + (g + 1) = c + 1 /\ g + 1 \in 0..n
          /\ Cells(V, c + 1) = Cells(V, c) + 1 + W[c + 1] /\ W[c + 1] \in Nat
      BY <1>10, <3>1
    <3>9. o + (g + 1) >= s
      BY <1>4, <1>13, <3>8
    <3>10. reader'.addr = Cells(V, o + (g + 1)) - Cells(V, s)
      <4> HIDE DEF c
      <4> QED BY <1>5, <1>6, <1>13, <3>6, <3>8
    <3>11. ReadsWrapped(V, n, reader', write, wrap, end, s, o, g + 1)
      BY <1>1, <1>2, <3>7, <3>9, <3>10 DEF ReadsWrapped
    <3> QED BY <3>8, <3>11
  <2> QED BY <2>3, <2>4
<1> QED BY <1>1, <1>12, <1>13

\* A reader starts with nothing read.
LEMMA ReaderStarts ==
    ASSUME NEW V, NEW W, NEW n \in Nat, Sums(V, W, n), NEW r, r = B!start_reader
    PROVE  /\ IsReader(r)
           /\ Plain(V, W, n, mem, m_write_addr, m_wrap_addr)
                => ReadsPlain(V, n, r, TRUE, n, 0)
           /\ \A s, o \in 0..n :
                Wrapped(V, W, n, mem, m_write_addr, m_wrap_addr, m_wrap_end_addr, s, o)
                  => ReadsWrapped(V, n, r, m_write_addr, m_wrap_addr, m_wrap_end_addr, s, o, 0)
<1>1. /\ r.end = IF m_wrap_addr = B!Null THEN m_write_addr ELSE m_wrap_end_addr
      /\ r.wrap = IF m_wrap_addr = B!Null THEN B!Null ELSE m_write_addr
      /\ r.addr = IF m_wrap_addr = B!Null THEN 0 ELSE m_wrap_addr
      /\ r.offset = 0 /\ r.eof = FALSE /\ r.got = <<>>
  BY DEF B!start_reader
<1>2. IsReader(r)
  BY <1>1 DEF B!start_reader, IsReader
<1>3. ASSUME NEW o \in 0..n PROVE Got(V, r, 0, o)
  <2>1. V[o] \in Nat /\ o + 0 = o
    BY DEF Sums
  <2>2. [i \in 1..0 |-> o + i] = <<>>
    OBVIOUS
  <2> QED BY <1>1, <2>1, <2>2 DEF Got
<1>4. ASSUME Plain(V, W, n, mem, m_write_addr, m_wrap_addr)
      PROVE  ReadsPlain(V, n, r, TRUE, n, 0)
  <2>1. Cells(V, 0) = 0
    BY DEF Sums, Cells
  <2>2. 0 \in 0..n /\ 0 <= n
    OBVIOUS
  <2> QED BY <1>1, <1>3, <1>4, <2>1, <2>2 DEF Plain, ReadsPlain
<1>5. ASSUME NEW s \in 0..n, NEW o \in 0..n,
             Wrapped(V, W, n, mem, m_write_addr, m_wrap_addr, m_wrap_end_addr, s, o)
      PROVE  ReadsWrapped(V, n, r, m_write_addr, m_wrap_addr, m_wrap_end_addr, s, o, 0)
  <2>1. m_wrap_addr \in Nat /\ o <= s /\ m_wrap_addr # B!Null
        /\ Older(V, m_write_addr, m_wrap_addr, m_wrap_end_addr, s, o)
    BY <1>5 DEF Wrapped, B!Null
  <2>2. o + 0 = o /\ Cells(V, o) \in Nat /\ o <= n
    BY CellsOf
  <2>3. /\ r.end = m_wrap_end_addr /\ r.wrap = m_write_addr /\ r.addr = m_wrap_addr
    BY <1>1, <2>1
  <2>4. \/ /\ o + 0 <= s /\ m_write_addr <= m_wrap_addr
           /\ m_wrap_addr + Cells(V, s) - Cells(V, o) = m_wrap_end_addr
           /\ r.addr = m_wrap_addr + Cells(V, o + 0) - Cells(V, o)
        \/ o + 0 >= s /\ r.addr = Cells(V, o + 0) - Cells(V, s)
    <3>1. CASE /\ m_write_addr <= m_wrap_addr /\ m_wrap_end_addr <= Size
               /\ m_wrap_addr + Cells(V, s) - Cells(V, o) = m_wrap_end_addr
      BY <2>1, <2>2, <2>3, <3>1
    <3>2. CASE m_wrap_addr = 0 /\ o = s
      BY <2>2, <2>3, <3>2
    <3> QED BY <2>1, <3>1, <3>2 DEF Older
  <2> QED BY <1>1, <1>3, <2>2, <2>3, <2>4 DEF ReadsWrapped
<1> QED BY <1>2, <1>4, <1>5

LEMMA RewindKeeps ==
    ASSUME BInv, B!rewind
    PROVE  BInv'
<1>1. reader' = B!start_reader /\ quiet' = TRUE
      /\ UNCHANGED <<wraps, mem, m_write_addr, m_wrap_addr, m_wrap_end_addr, m_full,
                     m_stats, written>>
  BY DEF B!rewind
<1>2. B!volume' = B!volume
  BY <1>1 DEF B!volume
<1> DEFINE V == B!volume
           W == written
           n == Len(written)
<1>3. n \in Nat /\ Sums(V, W, n)
  BY Volumes DEF BInv
<1>4. AllKept(V, W, n) \/ \E s, o \in 0..n : NewestKept(V, W, n, s, o)
  BY DEF BInv
<1>5. V = B!volume' /\ W = written' /\ n = Len(written')
  BY <1>1, <1>2
<1> HIDE DEF V, W, n
<1>6. /\ IsReader(reader')
      /\ Plain(V, W, n, mem, m_write_addr, m_wrap_addr) => ReadsPlain(V, n, reader', TRUE, n, 0)
      /\ \A s, o \in 0..n :
           Wrapped(V, W, n, mem, m_write_addr, m_wrap_addr, m_wrap_end_addr, s, o)
             => ReadsWrapped(V, n, reader', m_write_addr, m_wrap_addr, m_wrap_end_addr, s, o, 0)
  BY <1>1, <1>3, ReaderStarts
<1>7. 0 \in 0..n /\ n \in 0..n
  BY <1>3
<1>8. CASE AllKept(V, W, n)
  <2>1. /\ Plain(V, W, n, mem', m_write_addr', m_wrap_addr') /\ m_stats' = Since(V, n, 0)
        /\ ReadsPlain(V, n, reader', quiet', n, 0)
    BY <1>1, <1>6, <1>8 DEF AllKept
  <2>2. AllKept(B!volume, written, Len(written))'
    BY <1>5, <1>7, <2>1, Zenon DEF AllKept
  <2> QED BY <1>1, <1>6, <2>2 DEF BInv
<1>9. CASE \E s, o \in 0..n : NewestKept(V, W, n, s, o)
  <2>1. PICK s \in 0..n, o \in 0..n : NewestKept(V, W, n, s, o)
    BY <1>9
  <2>2. /\ Wrapped(V, W, n, mem', m_write_addr', m_wrap_addr', m_wrap_end_addr', s, o)
        /\ m_stats' = Since(V, n, o) /\ wraps'
        /\ ReadsWrapped(V, n, reader', m_write_addr', m_wrap_addr', m_wrap_end_addr', s, o, 0)
    BY <1>1, <1>6, <2>1 DEF NewestKept
  <2>3. NewestKept(B!volume, written, Len(written), s, o)'
    BY <1>5, <1>7, <2>2, Zenon DEF NewestKept
  <2>4. s \in 0..Len(written') /\ o \in 0..Len(written')
    BY <1>5
  <2>5. (\E i, j \in 0..Len(written) : NewestKept(B!volume, written, Len(written), i, j))'
    BY <2>3, <2>4, Zenon
  <2> QED BY <1>1, <1>6, <2>5 DEF BInv
<1> QED BY <1>4, <1>8, <1>9

LEMMA ReadKeeps ==
    ASSUME BInv, B!read_packets
    PROVE  BInv'
<1>1. /\ IsReader(reader')
      /\ UNCHANGED <<wraps, mem, m_write_addr, m_wrap_addr, m_wrap_end_addr, m_full,
                     m_stats, written, quiet>>
  BY ReaderSteps DEF BInv
<1>2. B!volume' = B!volume
  BY <1>1 DEF B!volume
<1> DEFINE V == B!volume
           W == written
           n == Len(written)
<1>3. n \in Nat /\ Sums(V, W, n)
  BY Volumes DEF BInv
<1>4. AllKept(V, W, n) \/ \E s, o \in 0..n : NewestKept(V, W, n, s, o)
  BY DEF BInv
<1>5. V = B!volume' /\ W = written' /\ n = Len(written')
  BY <1>1, <1>2
<1>6. IsReader(reader)
  BY DEF BInv
<1> HIDE DEF V, W, n
<1>7. CASE AllKept(V, W, n)
  <2>1. /\ Plain(V, W, n, mem, m_write_addr, m_wrap_addr) /\ m_stats = Since(V, n, 0)
        /\ (quiet \/ ~wraps => \E e, g \in 0..n : ReadsPlain(V, n, reader, quiet, e, g))
    BY <1>7, Zenon DEF AllKept
  <2>2. ASSUME quiet \/ ~wraps PROVE \E e, g \in 0..n : ReadsPlain(V, n, reader', quiet, e, g)
    <3>1. PICK e \in 0..n, g \in 0..n : ReadsPlain(V, n, reader, quiet, e, g)
      BY <2>1, <2>2, Zenon
    <3>2. \E k \in 0..n : ReadsPlain(V, n, reader', quiet, e, k)
      BY <1>3, <1>6, <2>1, <3>1, ReadPlain, Zenon
    <3> QED BY <3>2
  <2>4. /\ Plain(V, W, n, mem', m_write_addr', m_wrap_addr') /\ m_stats' = Since(V, n, 0)
        /\ (quiet' \/ ~wraps' => \E e, g \in 0..n : ReadsPlain(V, n, reader', quiet', e, g))
    BY <1>1, <2>1, <2>2
  <2>5. AllKept(B!volume, written, Len(written))'
    BY <1>5, <2>4, Zenon DEF AllKept
  <2> QED BY <1>1, <2>5 DEF BInv
<1>8. CASE \E s, o \in 0..n : NewestKept(V, W, n, s, o)
  <2>1. PICK s \in 0..n, o \in 0..n : NewestKept(V, W, n, s, o)
    BY <1>8
  <2>2. /\ Wrapped(V, W, n, mem, m_write_addr, m_wrap_addr, m_wrap_end_addr, s, o)
        /\ m_stats = Since(V, n, o) /\ wraps
        /\ quiet => \E g \in 0..n : ReadsWrapped(V, n, reader, m_write_addr, m_wrap_addr,
                                                 m_wrap_end_addr, s, o, g)
    BY <2>1, Zenon DEF NewestKept
  <2>3. ASSUME quiet
        PROVE  \E g \in 0..n : ReadsWrapped(V, n, reader', m_write_addr, m_wrap_addr,
                                            m_wrap_end_addr, s, o, g)
    <3>1. PICK g \in 0..n : ReadsWrapped(V, n, reader, m_write_addr, m_wrap_addr,
                                         m_wrap_end_addr, s, o, g)
      BY <2>2, <2>3, Zenon
    <3> QED BY <1>3, <1>6, <2>2, <3>1, ReadWrapped, Zenon
  <2>4. /\ Wrapped(V, W, n, mem', m_write_addr', m_wrap_addr', m_wrap_end_addr', s, o)
        /\ m_stats' = Since(V, n, o) /\ wraps'
        /\ quiet' => \E g \in 0..n : ReadsWrapped(V, n, reader', m_write_addr', m_wrap_addr',
                                                  m_wrap_end_addr', s, o, g)
    BY <1>1, <2>2, <2>3
  <2>5. NewestKept(B!volume, written, Len(written), s, o)'
    BY <1>5, <2>4, Zenon DEF NewestKept
  <2>6. s \in 0..Len(written') /\ o \in 0..Len(written')
    BY <1>5
  <2>7. (\E i, j \in 0..Len(written) : NewestKept(B!volume, written, Len(written), i, j))'
    BY <2>5, <2>6, Zenon
  <2> QED BY <1>1, <2>7 DEF BInv
<1> QED BY <1>4, <1>7, <1>8

-----------------------------------------------------------------------------
(* Buffers of captures: the theorem.                                       *)

LEMMA BufferStarts ==
    ASSUME B!Init
    PROVE  BInv
<1>1. /\ wraps \in BOOLEAN /\ mem = [a \in 0..(Size - 1) |-> B!Cell]
      /\ m_write_addr = 0 /\ m_wrap_addr = B!Null
      /\ m_stats = B!NoPackets /\ written = <<>> /\ reader = B!start_reader /\ quiet = TRUE
  BY DEF B!Init
<1>2. mem \in Memory
  BY <1>1, BufferConstants DEF Memory, B!Cell
<1>3. written \in Seq(Lens) /\ Len(written) = 0
  BY <1>1
<1>4. Sums(B!volume, written, 0)
  BY <1>3, Volumes
<1> DEFINE V == B!volume
           W == written
<1>5. Sums(V, W, 0)
  BY <1>4
<1> HIDE DEF V, W
<1>6. V[0] = 0 /\ Cells(V, 0) = 0
  BY <1>5 DEF Sums, Cells
<1>7. Plain(V, W, 0, mem, m_write_addr, m_wrap_addr)
  BY <1>1, <1>6, BufferConstants DEF Plain, Placed
<1>8. m_stats = Since(V, 0, 0)
  BY <1>1, <1>6 DEF Since, B!NoPackets
<1>9. IsReader(reader) /\ ReadsPlain(V, 0, reader, TRUE, 0, 0)
  BY <1>1, <1>5, <1>7, ReaderStarts
<1>10. 0 \in 0..0
  OBVIOUS
<1>11. ReadsPlain(V, 0, reader, quiet, 0, 0)
  BY <1>1, <1>9
<1>12. AllKept(V, W, 0)
  BY <1>7, <1>8, <1>10, <1>11, Zenon DEF AllKept
<1>13. AllKept(B!volume, written, Len(written))
  BY <1>3, <1>12 DEF V, W
<1> QED BY <1>1, <1>2, <1>3, <1>9, <1>13 DEF BInv

LEMMA BufferKeeps ==
    ASSUME BInv, [B!Next]_B!vars
    PROVE  BInv'
<1>1. ASSUME UNCHANGED <<wraps, mem, m_write_addr, m_wrap_addr, m_wrap_end_addr, m_stats, written,
                         reader, quiet>>
      PROVE  BInv'
  <2>1. B!volume' = B!volume
    BY <1>1 DEF B!volume
  <2> QED BY <1>1, <2>1 DEF BInv, AllKept, NewestKept
<1>2. CASE UNCHANGED B!vars
  <2>1. UNCHANGED <<wraps, mem, m_write_addr, m_wrap_addr, m_wrap_end_addr, m_stats, written,
                    reader, quiet>>
    BY <1>2 DEF B!vars
  <2> QED BY <1>1, <2>1
<1>3. CASE B!write_packets
  <2>1. PICK len \in Lens : B!write_mem(len) \/ B!write_wrap(len) \/ B!write_too_large(len)
    BY <1>3 DEF B!write_packets
  <2>2. CASE B!write_too_large(len)
    BY <1>1, <2>2 DEF B!write_too_large
  <2> QED BY <2>1, <2>2, WriteMemKeeps, WriteWrapKeeps
<1> QED BY <1>2, <1>3, RewindKeeps, ReadKeeps DEF B!Next, B!ended

\* Where a reader is gives what it has got.
LEMMA BufferReads ==
    ASSUME BInv
    PROVE  B!ReadsNewest /\ B!LiveReadsOrdered
<1> DEFINE V == B!volume
           W == written
           n == Len(written)
<1>1. n \in Nat /\ Sums(V, W, n)
  BY Volumes DEF BInv
<1>2. AllKept(V, W, n) \/ \E s, o \in 0..n : NewestKept(V, W, n, s, o)
  BY DEF BInv
<1>3. ASSUME NEW o \in 0..n, NEW g \in 0..n, m_stats = Since(V, n, o), Got(V, reader, g, o),
             o + g <= n, reader.eof => o + g = n
      PROVE  /\ \A i \in DOMAIN reader.got : i <= m_stats.packets /\ reader.got[i] = B!newest[i]
             /\ reader.eof => reader.got = B!newest
             /\ m_stats.bytes = V[n] - V[n - m_stats.packets]
  <2>1. m_stats.packets = n - o /\ m_stats.bytes = V[n] - V[o]
    BY <1>3 DEF Since
  <2>2. B!newest = [i \in 1..m_stats.packets |-> n - m_stats.packets + i]
    BY DEF B!newest
  <2> HIDE DEF V, W, n
  <2>3. n - (n - o) = o
    BY <1>1
  <2>4. B!newest = [i \in 1..(n - o) |-> o + i]
    BY <2>1, <2>2, <2>3
  <2>5. reader.got = [i \in 1..g |-> o + i]
    BY <1>3 DEF Got
  <2>6. \A i \in 1..g : i <= n - o /\ i \in 1..(n - o)
    BY <1>1, <1>3
  <2>7. reader.eof => g = n - o
    BY <1>1, <1>3
  <2>8. \A i \in DOMAIN reader.got : i <= m_stats.packets /\ reader.got[i] = B!newest[i]
    BY <2>1, <2>4, <2>5, <2>6
  <2>9. reader.eof => reader.got = B!newest
    BY <2>4, <2>5, <2>7
  <2> QED BY <2>1, <2>3, <2>8, <2>9
<1>4. CASE AllKept(V, W, n)
  <2>1. /\ m_stats = Since(V, n, 0)
        /\ (quiet \/ ~wraps => \E e, g \in 0..n : ReadsPlain(V, n, reader, quiet, e, g))
    BY <1>4, Zenon DEF AllKept
  <2>2. m_stats.packets = n
    BY <1>1, <2>1 DEF Since
  <2>3. ASSUME quiet \/ ~wraps
        PROVE  \E e, g \in 0..n : /\ g <= e /\ (quiet => e = n) /\ (reader.eof => g = e)
                                  /\ Got(V, reader, g, 0)
    BY <2>1, <2>3 DEF ReadsPlain
  <2>4. B!ReadsNewest
    <3> SUFFICES ASSUME quiet PROVE /\ \A i \in DOMAIN reader.got : i <= m_stats.packets /\ reader.got[i] = B!newest[i]
                                    /\ reader.eof => reader.got = B!newest
                                    /\ m_stats.bytes = V[n] - V[n - m_stats.packets]
                                    /\ ~wraps => m_stats.packets = n
      BY Zenon DEF B!ReadsNewest
    <3>1. PICK g \in 0..n : (reader.eof => g = n) /\ Got(V, reader, g, 0)
      BY <2>3
    <3> HIDE DEF V, W, n
    <3>2. 0 \in 0..n /\ 0 + g <= n /\ (reader.eof => 0 + g = n)
      BY <1>1, <3>1
    <3> QED BY <1>3, <2>1, <2>2, <3>1, <3>2
  <2>5. B!LiveReadsOrdered
    <3> SUFFICES ASSUME ~wraps PROVE reader.got = [i \in DOMAIN reader.got |-> i]
      BY Zenon DEF B!LiveReadsOrdered
    <3>1. PICK g \in 0..n : Got(V, reader, g, 0)
      BY <2>3
    <3>2. reader.got = [i \in 1..g |-> 0 + i]
      BY <3>1 DEF Got
    <3> HIDE DEF V, W, n
    <3>3. [i \in 1..g |-> 0 + i] = [i \in 1..g |-> i]
      OBVIOUS
    <3> QED BY <3>2, <3>3
  <2> QED BY <2>4, <2>5
<1>5. CASE \E s, o \in 0..n : NewestKept(V, W, n, s, o)
  <2>1. PICK s \in 0..n, o \in 0..n : NewestKept(V, W, n, s, o)
    BY <1>5
  <2>2. /\ m_stats = Since(V, n, o) /\ wraps
        /\ quiet => \E g \in 0..n : ReadsWrapped(V, n, reader, m_write_addr, m_wrap_addr,
                                                 m_wrap_end_addr, s, o, g)
    BY <2>1, Zenon DEF NewestKept
  <2>3. B!ReadsNewest
    <3> SUFFICES ASSUME quiet PROVE /\ \A i \in DOMAIN reader.got : i <= m_stats.packets /\ reader.got[i] = B!newest[i]
                                    /\ reader.eof => reader.got = B!newest
                                    /\ m_stats.bytes = V[n] - V[n - m_stats.packets]
      BY <2>2, Zenon DEF B!ReadsNewest
    <3>1. PICK g \in 0..n : ReadsWrapped(V, n, reader, m_write_addr, m_wrap_addr,
                                         m_wrap_end_addr, s, o, g)
      BY <2>2
    <3>2. o + g <= n /\ Got(V, reader, g, o) /\ (reader.eof => o + g = n)
      BY <3>1 DEF ReadsWrapped
    <3> HIDE DEF V, W, n
    <3> QED BY <1>3, <2>2, <3>2
  <2> QED BY <2>2, <2>3 DEF B!LiveReadsOrdered
<1> QED BY <1>2, <1>4, <1>5

\* Transfers of a capture, capture_buffer.cpp: for every size of a buffer and all
\* lengths of packets, a reader that is not disturbed gets exactly the packets that
\* the buffer keeps, the newest ones, in the order in which they were written, and
\* the statistics are those of these packets; a reader of a buffer that does not wrap
\* gets its packets in order even while the worker writes.  A buffer that wraps does
\* so up to the first packet that is larger than the buffer, where B!ended begins.
THEOREM BuffersSound == B!Spec => []BuffersRead
<1>1. B!Init => BInv
  BY BufferStarts
<1>2. BInv /\ [B!Next]_B!vars => BInv'
  BY BufferKeeps
<1>3. BInv => BuffersRead
  BY BufferReads DEF BuffersRead
<1> QED BY <1>1, <1>2, <1>3, PTL DEF B!Spec

-----------------------------------------------------------------------------
(* The server of network generators: its event loop.                       *)

LEMMA ServerConstants ==
    /\ IsFiniteSet(ServerFds) /\ ServerFds \subseteq Nat \ {0}
    /\ RequestSize \in Nat \ {0} /\ RecvBuffer \in Nat \ {0} /\ SendRoom \in Nat \ {0}
    /\ Length.GET \in Nat \ {0} /\ Length.PUT \in Nat \ {0}
    /\ RequestSize < RecvBuffer
    /\ \A p \in Plans : p \in Seq({"GET", "PUT"})
<1>1. F!FirehoseAssumption
  BY PortUsersAssumption
<1>2. IsFiniteSet(ServerFds)
  BY <1>1, Zenon DEF F!FirehoseAssumption, F!IsFiniteSet, IsFiniteSet
<1> QED BY <1>1, <1>2 DEF F!FirehoseAssumption

LEMMA ServerCardinality == ASSUME NEW s PROVE F!Cardinality(s) = Cardinality(s)
  BY DEF F!Cardinality, Cardinality

\* The worker's own sockets.
Own == {F!CTRL, F!ACCEPT}

LEMMA OwnSockets ==
    Own = {0, -1} /\ F!CTRL = 0 /\ F!ACCEPT = -1 /\ Own \intersect ServerFds = {}
  BY ServerConstants DEF Own, F!CTRL, F!ACCEPT

IsLoop(l) ==
    DOMAIN l = {"running", "edge", "events", "update_list", "remove_list", "epoll", "fresh",
                "nb_epoll_events"}

\* A loop that handles what epoll reported in b.  Only what was handled is on a list,
\* so nothing can get on the list of updates twice; the worker's own sockets are never
\* removed.
Sound(l, b) ==
    /\ IsLoop(l) /\ l.edge = TRUE
    /\ DOMAIN l.events \subseteq ServerFds \union Own
    /\ DOMAIN b \subseteq DOMAIN l.events
    /\ DOMAIN l.update_list \subseteq DOMAIN l.events \ DOMAIN b
    /\ \A x \in DOMAIN l.update_list : l.update_list[x] = 1
    /\ l.remove_list \subseteq DOMAIN l.events \ (DOMAIN b \union Own)
    /\ DOMAIN l.epoll \subseteq DOMAIN l.events
    /\ l.nb_epoll_events = Cardinality(DOMAIN l.epoll)
    /\ \A x \in Own \intersect DOMAIN b : b[x] \subseteq {"EPOLLIN"}

\* The worker's sockets are events, and the one of new connections is watched or
\* will be.
Listens(l) ==
    /\ Own \subseteq DOMAIN l.events
    /\ l.events[F!ACCEPT] = F!accept_callbacks
    /\ F!ACCEPT \in DOMAIN l.epoll \union DOMAIN l.update_list
    /\ F!ACCEPT \in DOMAIN l.epoll => "EPOLLIN" \in l.epoll[F!ACCEPT]

\* New connections will be reported, or are.
Noticed(l, b) == F!ACCEPT \in l.fresh \union DOMAIN l.update_list \union DOMAIN b

\* What holds of a loop where the worker is.
Phase(l, b, pc, x) ==
    /\ pc \in {"start", "top", "turn", "wait", "handle", "read", "ended"}
    /\ pc = "start" => DOMAIN l.events = {}
    /\ pc = "ended" => l.events = << >>
    /\ pc \notin {"start", "ended"} => Listens(l)
    /\ pc \notin {"handle", "read"} => DOMAIN b = {} /\ l.remove_list = {}
    /\ pc = "wait" => DOMAIN l.update_list = {}
    /\ pc = "read" => x \in DOMAIN b /\ x \in ServerFds

\* What is left of a batch after the event of x.
Rest(r, b, x) == DOMAIN r = DOMAIN b \ {x} /\ \A y \in DOMAIN r : r[y] = b[y]

New(new, l) == new \intersect DOMAIN l.events = {} /\ new \subseteq ServerFds \union Own

\* Descriptors that are new are added.
LEMMA LoopAdds ==
    ASSUME NEW l, NEW b, Sound(l, b), NEW new, New(new, l), NEW c, NEW k, k = F!op_event_loop_add_fds(l, new, c)
    PROVE  /\ Sound(k, b) /\ DOMAIN k.events = DOMAIN l.events \union new
           /\ \A x \in new : k.events[x] = c
           /\ \A x \in DOMAIN l.events : k.events[x] = l.events[x]
           /\ DOMAIN k.update_list = DOMAIN l.update_list \union new
           /\ k.remove_list = l.remove_list /\ k.epoll = l.epoll /\ k.fresh = l.fresh
           /\ k.running = l.running
<1> DEFINE events == F!override([x \in new |-> c], l.events)
           updates == F!(+)(l.update_list, F!SetToBag(new))
<1>1. /\ IsLoop(k) /\ k.edge = l.edge /\ k.events = events /\ k.update_list = updates
      /\ k.remove_list = l.remove_list /\ k.epoll = l.epoll /\ k.fresh = l.fresh
      /\ k.nb_epoll_events = l.nb_epoll_events /\ k.running = l.running
  <2> HIDE DEF events, updates
  <2>1. k = [l EXCEPT !.events = events, !.update_list = updates]
    BY DEF F!op_event_loop_add_fds, events, updates
  <2> QED BY <2>1 DEF Sound, IsLoop
<1>2. /\ DOMAIN events = DOMAIN l.events \union new
      /\ \A x \in new : events[x] = c
      /\ \A x \in DOMAIN l.events : events[x] = l.events[x]
  BY DEF F!override, New
<1>3. /\ DOMAIN updates = DOMAIN l.update_list \union new
      /\ \A x \in DOMAIN updates : updates[x] = 1
  BY DEF F!(+), F!SetToBag, Sound, New
<1> HIDE DEF events, updates
<1>4. DOMAIN b \intersect new = {}
  BY DEF Sound, New
<1> QED BY <1>1, <1>2, <1>3, <1>4 DEF Sound, New

\* A callback changes the callbacks of its own event.
LEMMA LoopUpdates ==
    ASSUME NEW l, NEW b, Sound(l, b), NEW x \in DOMAIN b, NEW c, NEW r,
           Rest(r, b, x),
           NEW k, k = F!op_event_loop_update_fd(l, x, c)
    PROVE  /\ Sound(k, r) /\ DOMAIN k.events = DOMAIN l.events
           /\ \A y \in DOMAIN l.events : y # x => k.events[y] = l.events[y]
           /\ DOMAIN k.update_list = DOMAIN l.update_list \union {x}
           /\ k.remove_list = l.remove_list /\ k.epoll = l.epoll /\ k.fresh = l.fresh
<1> DEFINE events == [l.events EXCEPT ![x] = c]
           updates == F!(+)(l.update_list, F!SetToBag({x}))
<1>1. /\ IsLoop(k) /\ k.edge = l.edge /\ k.events = events /\ k.update_list = updates
      /\ k.remove_list = l.remove_list /\ k.epoll = l.epoll /\ k.fresh = l.fresh
      /\ k.nb_epoll_events = l.nb_epoll_events
  <2>1. k = [l EXCEPT !.events = events, !.update_list = updates]
    <3>1. x \in DOMAIN l.events
      BY DEF Sound
    <3> QED BY <3>1 DEF F!op_event_loop_update_fd, Sound, IsLoop
  <2> HIDE DEF events, updates
  <2> QED BY <2>1 DEF Sound, IsLoop
<1>2. /\ DOMAIN events = DOMAIN l.events
      /\ \A y \in DOMAIN l.events : y # x => events[y] = l.events[y]
  OBVIOUS
<1>3. /\ DOMAIN updates = DOMAIN l.update_list \union {x}
      /\ \A y \in DOMAIN updates : updates[y] = 1
  BY DEF F!(+), F!SetToBag, Sound
<1> HIDE DEF events, updates
<1> QED BY <1>1, <1>2, <1>3 DEF Sound, Rest

\* It may also leave the loop alone, or end its run.
LEMMA LoopExits ==
    ASSUME NEW l, NEW b, Sound(l, b), NEW x, NEW r,
           Rest(r, b, x),
           NEW k, k = l \/ k = F!op_event_loop_exit(l)
    PROVE  /\ Sound(k, r) /\ k.events = l.events /\ k.update_list = l.update_list
           /\ k.remove_list = l.remove_list /\ k.epoll = l.epoll /\ k.fresh = l.fresh
<1>1. /\ IsLoop(k) /\ k.edge = l.edge /\ k.events = l.events /\ k.update_list = l.update_list
      /\ k.remove_list = l.remove_list /\ k.epoll = l.epoll /\ k.fresh = l.fresh
      /\ k.nb_epoll_events = l.nb_epoll_events
  BY DEF Sound, IsLoop, F!op_event_loop_exit
<1> QED BY <1>1 DEF Sound, Rest

\* An error, or a descriptor that hangs up, puts the event on the list of removals.
LEMMA LoopHandles ==
    ASSUME NEW l, NEW b, Sound(l, b), NEW x \in DOMAIN l.events, x \notin DOMAIN b,
           NEW events, NEW error, x \in Own => ~error /\ events \subseteq {"EPOLLIN"},
           NEW k, k = F!handled(l, x, events, error)
    PROVE  /\ Sound(k, b) /\ k.events = l.events /\ k.update_list = l.update_list
           /\ k.epoll = l.epoll /\ k.fresh = l.fresh
<1>1. x \in Own => k = l
  <2> SUFFICES ASSUME x \in Own PROVE k = l
    OBVIOUS
  <2>1. ~F!hangup(events)
    BY DEF F!hangup, F!Always
  <2> QED BY <2>1 DEF F!handled
<1>2. CASE k = l
  BY <1>2
<1>3. CASE k = F!insert_removal(l, x) /\ x \notin Own
  <2>1. /\ IsLoop(k) /\ k.edge = l.edge /\ k.events = l.events /\ k.update_list = l.update_list
        /\ k.remove_list = l.remove_list \union {x} /\ k.epoll = l.epoll /\ k.fresh = l.fresh
        /\ k.nb_epoll_events = l.nb_epoll_events
    BY <1>3 DEF Sound, IsLoop, F!insert_removal
  <2> QED BY <1>3, <2>1 DEF Sound
<1> QED BY <1>1, <1>2, <1>3 DEF F!handled

\* An edge.
LEMMA LoopWakes ==
    ASSUME NEW l, NEW b, Sound(l, b), NEW x, NEW k, k = F!wakeup(l, x)
    PROVE  /\ Sound(k, b) /\ k.events = l.events /\ k.update_list = l.update_list
           /\ k.remove_list = l.remove_list /\ k.epoll = l.epoll
           /\ k.fresh = IF x \in DOMAIN l.epoll THEN l.fresh \union {x} ELSE l.fresh
<1>1. /\ IsLoop(k) /\ k.edge = l.edge /\ k.events = l.events /\ k.update_list = l.update_list
      /\ k.remove_list = l.remove_list /\ k.epoll = l.epoll
      /\ k.nb_epoll_events = l.nb_epoll_events
      /\ k.fresh = IF x \in DOMAIN l.epoll THEN l.fresh \union {x} ELSE l.fresh
  BY DEF Sound, IsLoop, F!wakeup
<1> QED BY <1>1 DEF Sound

\* A run begins.
LEMMA LoopRuns ==
    ASSUME NEW l, NEW b, Sound(l, b), NEW k, k = [l EXCEPT !.running = TRUE]
    PROVE  /\ Sound(k, b) /\ k.events = l.events /\ k.update_list = l.update_list
           /\ k.remove_list = l.remove_list /\ k.epoll = l.epoll /\ k.fresh = l.fresh
<1>1. /\ IsLoop(k) /\ k.edge = l.edge /\ k.events = l.events /\ k.update_list = l.update_list
      /\ k.remove_list = l.remove_list /\ k.epoll = l.epoll /\ k.fresh = l.fresh
      /\ k.nb_epoll_events = l.nb_epoll_events
  BY DEF Sound, IsLoop
<1> QED BY <1>1 DEF Sound

LEMMA DescriptorsFinite == IsFiniteSet(ServerFds \union Own)
<1>1. Own = {F!CTRL} \union {F!ACCEPT}
  BY DEF Own
<1>2. IsFiniteSet({F!CTRL}) /\ IsFiniteSet({F!ACCEPT})
  BY FS_Singleton
<1>3. IsFiniteSet(Own)
  BY <1>1, <1>2, FS_Union
<1> QED BY <1>3, ServerConstants, FS_Union

\* epoll is told of the updates.
LEMMA LoopTurns ==
    ASSUME NEW l, NEW b, Sound(l, b), NEW k, k = F!_do_event_updates(l)
    PROVE  /\ Sound(k, b) /\ k.events = l.events /\ DOMAIN k.update_list = {}
           /\ k.remove_list = l.remove_list
           /\ k.fresh = l.fresh \union DOMAIN l.update_list
           /\ DOMAIN k.epoll = DOMAIN l.epoll \union DOMAIN l.update_list
           /\ \A x \in DOMAIN l.update_list : k.epoll[x] = F!events_mask(l.events[x])
           /\ \A x \in DOMAIN l.epoll \ DOMAIN l.update_list : k.epoll[x] = l.epoll[x]
<1> DEFINE new == DOMAIN l.update_list \ DOMAIN l.epoll
           epoll == F!override([x \in DOMAIN l.update_list |-> F!events_mask(l.events[x])], l.epoll)
           count == l.nb_epoll_events + F!Cardinality(new)
<1>1. /\ DOMAIN epoll = DOMAIN l.epoll \union new
      /\ DOMAIN epoll = DOMAIN l.epoll \union DOMAIN l.update_list
      /\ \A x \in DOMAIN l.update_list : epoll[x] = F!events_mask(l.events[x])
      /\ \A x \in DOMAIN l.epoll \ DOMAIN l.update_list : epoll[x] = l.epoll[x]
  BY DEF F!override
<1>2. count = Cardinality(DOMAIN epoll)
  <2>0. IsFiniteSet(DOMAIN l.events)
    BY DescriptorsFinite, FS_Subset DEF Sound
  <2>1. IsFiniteSet(DOMAIN l.epoll) /\ IsFiniteSet(new) /\ DOMAIN l.epoll \intersect new = {}
    BY <2>0, FS_Subset DEF Sound
  <2>2. Cardinality(DOMAIN l.epoll \union new) = Cardinality(DOMAIN l.epoll) + Cardinality(new)
    <3>1. Cardinality(DOMAIN l.epoll \union new)
            = Cardinality(DOMAIN l.epoll) + Cardinality(new)
              - Cardinality(DOMAIN l.epoll \intersect new)
      BY <2>1, FS_Union
    <3>2. Cardinality(DOMAIN l.epoll) \in Nat /\ Cardinality(new) \in Nat
      BY <2>1, FS_CardinalityType
    <3>3. Cardinality(DOMAIN l.epoll \intersect new) = 0
      BY <2>1, FS_EmptySet
    <3> QED BY <3>1, <3>2, <3>3
  <2> QED BY <1>1, <2>2, ServerCardinality DEF Sound
<1>3. DOMAIN F!EmptyBag = {}
  BY DEF F!EmptyBag, F!SetToBag
<1>4. /\ IsLoop(k) /\ k.edge = l.edge /\ k.events = l.events /\ k.update_list = F!EmptyBag
      /\ k.remove_list = l.remove_list /\ k.epoll = epoll
      /\ k.fresh = l.fresh \union DOMAIN l.update_list /\ k.nb_epoll_events = count
  <2>1. k = [l EXCEPT !.update_list = F!EmptyBag, !.epoll = epoll,
                      !.fresh = l.fresh \union DOMAIN l.update_list, !.nb_epoll_events = count]
    BY DEF F!_do_event_updates, Sound, IsLoop
  <2> HIDE DEF epoll, count, new
  <2> QED BY <2>1 DEF Sound, IsLoop
<1> HIDE DEF epoll, count
<1>5. DOMAIN epoll \subseteq DOMAIN l.events
  BY <1>1 DEF Sound
<1> HIDE DEF new
<1> QED BY <1>1, <1>2, <1>3, <1>4, <1>5 DEF Sound

\* epoll reports some of the events.
LEMMA LoopWaits ==
    ASSUME NEW l, NEW b, Sound(l, b), DOMAIN l.update_list = {}, l.remove_list = {},
           NEW rd, \A x \in Own \intersect DOMAIN l.epoll : rd[x] \subseteq {"EPOLLIN"},
           NEW r, r = F!epoll_wait(l, rd), NEW k, k = F!waited(l)
    PROVE  /\ Sound(k, r) /\ k.events = l.events /\ k.update_list = l.update_list
           /\ k.remove_list = {} /\ k.epoll = l.epoll
           /\ Listens(l) /\ F!ACCEPT \in l.fresh /\ rd[F!ACCEPT] = {"EPOLLIN"}
                => F!ACCEPT \in DOMAIN r
<1>1. /\ IsLoop(k) /\ k.edge = l.edge /\ k.events = l.events /\ k.update_list = l.update_list
      /\ k.remove_list = l.remove_list /\ k.epoll = l.epoll
      /\ k.nb_epoll_events = l.nb_epoll_events
  BY DEF Sound, IsLoop, F!waited
<1> DEFINE report(x) == rd[x] \intersect (l.epoll[x] \union F!Always
                            \union IF l.edge THEN {"EPOLLRDHUP"} ELSE {})
           reported == {x \in DOMAIN l.epoll : report(x) # {} /\ (l.edge => x \in l.fresh)}
<1>2. DOMAIN r = reported /\ \A x \in reported : r[x] = report(x)
  BY DEF F!epoll_wait
<1>3. DOMAIN r \subseteq DOMAIN l.epoll
  BY <1>2
<1>4. \A x \in Own \intersect DOMAIN r : r[x] \subseteq {"EPOLLIN"}
  BY <1>2
<1>5. ASSUME Listens(l), F!ACCEPT \in l.fresh, rd[F!ACCEPT] = {"EPOLLIN"}
      PROVE  F!ACCEPT \in DOMAIN r
  <2>1. F!ACCEPT \in DOMAIN l.epoll /\ "EPOLLIN" \in l.epoll[F!ACCEPT]
    BY <1>5 DEF Listens
  <2>2. "EPOLLIN" \in report(F!ACCEPT)
    BY <1>5, <2>1
  <2> HIDE DEF report
  <2> QED BY <1>2, <1>5, <2>1, <2>2
<1> HIDE DEF reported
<1>6. Sound(k, r)
  BY <1>1, <1>3, <1>4 DEF Sound
<1> QED BY <1>1, <1>5, <1>6

\* A loop whose events may be removed.
Removable(l) ==
    /\ IsLoop(l) /\ l.edge = TRUE /\ l.remove_list \subseteq DOMAIN l.events
    /\ DOMAIN l.events \subseteq ServerFds \union Own
    /\ DOMAIN l.update_list \subseteq DOMAIN l.events
    /\ \A x \in DOMAIN l.update_list : l.update_list[x] = 1
    /\ DOMAIN l.epoll \subseteq DOMAIN l.events
    /\ l.nb_epoll_events = Cardinality(DOMAIN l.epoll)

Removed(k, l, b) ==
    /\ Sound(k, b) /\ k.remove_list = {}
    /\ k.events = F!Restrict(l.events, DOMAIN l.events \ l.remove_list)
    /\ DOMAIN k.update_list = DOMAIN l.update_list \ l.remove_list
    /\ DOMAIN k.epoll = DOMAIN l.epoll \ l.remove_list
    /\ \A x \in DOMAIN k.epoll : k.epoll[x] = l.epoll[x]
    /\ k.fresh = l.fresh \ l.remove_list

\* Events are removed.
LEMMA LoopRemoves ==
    ASSUME NEW l, NEW b, DOMAIN b = {}, Removable(l), NEW k, k = F!_do_event_removals(l)
    PROVE  Removed(k, l, b)
<1> USE DEF Removable, Removed
<1> DEFINE gone == l.remove_list
           epoll == F!Restrict(l.epoll, DOMAIN l.epoll \ gone)
           updates == F!Restrict(l.update_list, DOMAIN l.update_list \ gone)
           events == F!Restrict(l.events, DOMAIN l.events \ gone)
           count == l.nb_epoll_events - F!Cardinality(gone \intersect DOMAIN l.epoll)
<1>1. /\ IsLoop(k) /\ k.edge = l.edge /\ k.events = events /\ k.update_list = updates
      /\ k.remove_list = {} /\ k.epoll = epoll
      /\ k.fresh = l.fresh \ gone /\ k.nb_epoll_events = count
  <2>1. k = [l EXCEPT !.remove_list = {}, !.nb_epoll_events = count, !.epoll = epoll,
                      !.fresh = l.fresh \ gone, !.update_list = updates, !.events = events]
    BY DEF F!_do_event_removals, IsLoop
  <2> HIDE DEF epoll, updates, events, count
  <2> QED BY <2>1 DEF IsLoop
<1>2. /\ DOMAIN epoll = DOMAIN l.epoll \ gone
      /\ \A x \in DOMAIN epoll : epoll[x] = l.epoll[x]
      /\ DOMAIN updates = DOMAIN l.update_list \ gone
      /\ \A x \in DOMAIN updates : updates[x] = 1
      /\ DOMAIN events = DOMAIN l.events \ gone
  BY DEF F!Restrict
<1>3. count = Cardinality(DOMAIN epoll)
  <2> DEFINE e == DOMAIN l.epoll
  <2>1. IsFiniteSet(e)
    BY DescriptorsFinite, FS_Subset
  <2>2. IsFiniteSet(e \intersect gone) /\ IsFiniteSet(e \ gone)
    BY <2>1, FS_Subset
  <2>3. Cardinality(e \ gone) = Cardinality(e) - Cardinality(e \intersect gone)
    BY <2>1, FS_Difference
  <2>4. gone \intersect e = e \intersect gone
    OBVIOUS
  <2> QED BY <1>2, <2>3, <2>4, ServerCardinality
<1>4. DOMAIN k.events = DOMAIN l.events \ gone
  BY <1>1, <1>2
<1>5. DOMAIN k.update_list \subseteq DOMAIN k.events /\ DOMAIN k.epoll \subseteq DOMAIN k.events
  <2> HIDE DEF epoll, updates, events, count
  <2> QED BY <1>1, <1>2, <1>4
<1> HIDE DEF epoll, updates, count
<1>6. Sound(k, b)
  <2> HIDE DEF events
  <2> QED BY <1>1, <1>2, <1>3, <1>4, <1>5 DEF Sound
<1> QED BY <1>1, <1>2, <1>6

LEMMA LoopPurges ==
    ASSUME NEW l, NEW b, Sound(l, b), DOMAIN b = {}, NEW k, k = F!op_event_loop_purge(l)
    PROVE  Sound(k, b) /\ k.remove_list = {} /\ DOMAIN k.events = {} /\ k.events = << >>
<1> DEFINE j == [l EXCEPT !.remove_list = DOMAIN l.events]
<1>1. /\ IsLoop(j) /\ j.edge = l.edge /\ j.events = l.events /\ j.update_list = l.update_list
      /\ j.remove_list = DOMAIN l.events /\ j.epoll = l.epoll
      /\ j.nb_epoll_events = l.nb_epoll_events
  BY DEF Sound, IsLoop
<1>2. k = F!_do_event_removals(j)
  BY DEF F!op_event_loop_purge
<1> HIDE DEF j
<1>3. /\ Sound(k, b) /\ k.remove_list = {}
      /\ k.events = F!Restrict(l.events, DOMAIN l.events \ DOMAIN l.events)
  <2>1. Removable(j)
    BY <1>1 DEF Sound, Removable
  <2>2. /\ Sound(k, b) /\ k.remove_list = {}
        /\ k.events = F!Restrict(j.events, DOMAIN j.events \ j.remove_list)
    <3>1. Removed(k, j, b)
      BY <1>2, <2>1, LoopRemoves, Zenon
    <3> QED BY <3>1 DEF Removed
  <2> QED BY <1>1, <2>2
<1>4. DOMAIN l.events \ DOMAIN l.events = {}
  OBVIOUS
<1>5. F!Restrict(l.events, {}) = << >> /\ DOMAIN F!Restrict(l.events, {}) = {}
  BY DEF F!Restrict
<1>6. DOMAIN k.events = {}
  BY <1>3, <1>4, <1>5, Zenon
<1> QED BY <1>3, <1>4, <1>5, <1>6

-----------------------------------------------------------------------------
(* The server of network generators: its threads.                          *)

Unit == ({"GET", "PUT"} \X (1..RequestSize)) \union {F!Data}

ClientStates == {"new", "backlog", "open", "closed"}

Clients == [ServerFds -> [state : ClientStates, plan : Seq({"GET", "PUT"}),
                          unsent : Seq(Unit), want : Int]]

\* How a server stops.  A worker is not told to before the acceptor has ended, and when
\* it is, it has the last connections or is about to get them: the message to stop
\* never makes it miss one.
Stopping(sv, ac, sent, ct, run, b, pc) ==
    /\ sv # "up" => ~ac
    /\ ct \/ ~run \/ F!CTRL \in DOMAIN b => sv \in {"joining", "gone"}
    /\ sv = "gone" => pc = "ended"
    /\ pc = "ended" => sent = << >> /\ ~ac
    /\ (~run /\ pc # "start") \/ F!CTRL \in DOMAIN b =>
         ~ac /\ (sent = << >> \/ F!ACCEPT \in DOMAIN b)

\* Descriptors that were accepted are connections of the worker or on the way to it.
Opened(opened, E, sent, cl) ==
    /\ opened = E \union F!Range(sent) /\ E \intersect F!Range(sent) = {}
    /\ \A x \in opened : cl[x].state \notin {"new", "backlog"}

\* The invariant of the server's threads.
WorkerInv ==
    /\ server \in {"up", "acceptor stopped", "joining", "gone"}
    /\ acceptor \in BOOLEAN /\ ctrl \in BOOLEAN /\ m_running \in BOOLEAN
    /\ accepting \in Seq(ServerFds) /\ client \in Clients
    /\ Sound(wloop, wbatch) /\ Phase(wloop, wbatch, wat.pc, wat.fd)
    /\ DOMAIN conns = DOMAIN wloop.events \ Own
    /\ Stopping(server, acceptor, accepting, ctrl, m_running, wbatch, wat.pc)
    /\ wat.pc \notin {"start", "ended"} /\ accepting # << >> => Noticed(wloop, wbatch)
    /\ Opened(accepted, DOMAIN conns, accepting, client)

LEMMA SentDescriptors ==
    ASSUME NEW s \in Seq(ServerFds)
    PROVE  /\ F!Range(s) \subseteq ServerFds
           /\ F!Range(<< >>) = {}
           /\ \A x \in ServerFds : Append(s, x) \in Seq(ServerFds)
                                   /\ F!Range(Append(s, x)) = F!Range(s) \union {x}
                                   /\ Append(s, x) # << >>
<1>1. F!Range(s) \subseteq ServerFds /\ F!Range(<< >>) = {}
  BY DEF F!Range
<1>2. ASSUME NEW x \in ServerFds
      PROVE  /\ Append(s, x) \in Seq(ServerFds) /\ Append(s, x) # << >>
             /\ F!Range(Append(s, x)) = F!Range(s) \union {x}
  <2>1. /\ Append(s, x) \in Seq(ServerFds) /\ Append(s, x) # << >>
        /\ DOMAIN Append(s, x) = DOMAIN s \union {Len(s) + 1}
        /\ \A i \in DOMAIN s : Append(s, x)[i] = s[i]
        /\ Append(s, x)[Len(s) + 1] = x
    OBVIOUS
  <2> QED BY <2>1 DEF F!Range
<1> QED BY <1>1, <1>2

\* The worker's own sockets have no errors.
Quiet(x, events, error) == x \in Own => ~error /\ events \subseteq {"EPOLLIN"}

\* An event has been handled.
LEMMA EventHandled ==
    ASSUME NEW b, NEW x \in DOMAIN b, NEW l, NEW r, NEW error, NEW of,
           Rest(r, b, x), Sound(l, r), Listens(l), x \in DOMAIN l.events,
           Quiet(x, b[x], error), NEW k, k = F!handled(l, x, b[x], error)
    PROVE  /\ Sound(k, r) /\ Phase(k, r, "handle", of) /\ k.events = l.events
           /\ k.update_list = l.update_list /\ k.fresh = l.fresh
<1> DEFINE events == b[x]
<1>1. k = F!handled(l, x, events, error) /\ (x \in Own => ~error /\ events \subseteq {"EPOLLIN"})
  BY DEF Quiet
<1>2. x \notin DOMAIN r
  BY DEF Rest
<1> HIDE DEF events
<1>3. /\ Sound(k, r) /\ k.events = l.events /\ k.update_list = l.update_list
      /\ k.epoll = l.epoll /\ k.fresh = l.fresh
  BY <1>1, <1>2, LoopHandles
<1>4. Phase(k, r, "handle", of)
  BY <1>3 DEF Phase, Listens
<1> QED BY <1>3, <1>4

LEMMA Rests ==
    ASSUME NEW b, NEW x, NEW r, r = F!Restrict(b, DOMAIN b \ {x})
    PROVE  Rest(r, b, x) /\ DOMAIN r = DOMAIN b \ {x}
  BY DEF F!Restrict, Rest

LEMMA WorkerAt ==
    ASSUME NEW pc PROVE F!At(pc).pc = pc
  BY DEF F!At

\* The event of a connection has been handled.
LEMMA ConnectionHandled ==
    ASSUME WorkerInv, NEW x \in ServerFds, x \in DOMAIN wbatch, wat.pc \in {"handle", "read"},
           NEW l, NEW c, l = wloop \/ l = F!op_event_loop_update_fd(wloop, x, c),
           NEW error, F!finish(x, l, error),
           UNCHANGED <<server, acceptor, accepting, ctrl, m_running, accepted, client>>,
           DOMAIN conns' = DOMAIN conns
    PROVE  WorkerInv'
<1>0. Sound(wloop, wbatch) /\ Phase(wloop, wbatch, wat.pc, wat.fd)
  BY DEF WorkerInv
<1>1. /\ wloop' = F!handled(l, x, wbatch[x], error)
      /\ wbatch' = F!Restrict(wbatch, DOMAIN wbatch \ {x})
      /\ wat' = F!At("handle")
  BY Zenon DEF F!finish
<1>2. Rest(wbatch', wbatch, x) /\ DOMAIN wbatch' = DOMAIN wbatch \ {x}
  BY <1>1, Rests
<1>3. x \notin Own /\ x # F!ACCEPT /\ x # F!CTRL /\ Quiet(x, wbatch[x], error)
  BY OwnSockets DEF Own, Quiet
<1>4. /\ Sound(l, wbatch') /\ DOMAIN l.events = DOMAIN wloop.events
      /\ \A y \in DOMAIN wloop.events : y # x => l.events[y] = wloop.events[y]
      /\ DOMAIN wloop.update_list \subseteq DOMAIN l.update_list
      /\ l.epoll = wloop.epoll /\ l.fresh = wloop.fresh
  <2>1. CASE l = wloop
    <3>1. Sound(l, wbatch')
      BY <1>0, <1>2, <2>1, LoopExits
    <3> QED BY <2>1, <3>1
  <2>2. CASE l = F!op_event_loop_update_fd(wloop, x, c)
    <3>1. /\ Sound(l, wbatch') /\ DOMAIN l.events = DOMAIN wloop.events
          /\ \A y \in DOMAIN wloop.events : y # x => l.events[y] = wloop.events[y]
          /\ DOMAIN l.update_list = DOMAIN wloop.update_list \union {x}
          /\ l.epoll = wloop.epoll /\ l.fresh = wloop.fresh
      BY <1>0, <1>2, <2>2, LoopUpdates
    <3> QED BY <3>1
  <2> QED BY <2>1, <2>2
<1>5. Listens(wloop)
  BY <1>0 DEF Phase
<1>6. Listens(l)
  BY <1>3, <1>4, <1>5 DEF Listens, Own
<1>7. x \in DOMAIN l.events
  BY <1>0, <1>4 DEF Sound
<1>8. /\ Sound(wloop', wbatch') /\ Phase(wloop', wbatch', "handle", wat'.fd)
      /\ wloop'.events = l.events /\ wloop'.update_list = l.update_list
      /\ wloop'.fresh = l.fresh
  BY <1>0, <1>1, <1>2, <1>3, <1>4, <1>6, <1>7, EventHandled
<1>9. wat'.pc = "handle"
  BY <1>1, WorkerAt, Zenon
<1>10. DOMAIN conns' = DOMAIN wloop'.events \ Own
  BY <1>4, <1>8 DEF WorkerInv
<1>11. Stopping(server, acceptor, accepting, ctrl, m_running, wbatch', "handle")
  BY <1>2, <1>3 DEF Stopping, WorkerInv
<1>12. accepting # << >> => Noticed(wloop', wbatch')
  BY <1>2, <1>3, <1>4, <1>8 DEF Noticed, WorkerInv
<1>13. Opened(accepted, DOMAIN conns', accepting, client)
  BY DEF WorkerInv
<1> QED BY <1>8, <1>9, <1>10, <1>11, <1>12, <1>13 DEF WorkerInv

\* New connections.
LEMMA WorkerAccepts ==
    ASSUME WorkerInv, wat.pc = "handle", F!ACCEPT \in DOMAIN wbatch, F!do_accept
    PROVE  WorkerInv'
<1>0. Sound(wloop, wbatch) /\ Phase(wloop, wbatch, wat.pc, wat.fd)
  BY DEF WorkerInv
<1> DEFINE x == F!ACCEPT
           new == F!Range(accepting)
           l == F!added(wloop, new)
<1>1. /\ wloop' = F!handled(l, x, wbatch[x], FALSE)
      /\ wbatch' = F!Restrict(wbatch, DOMAIN wbatch \ {x})
      /\ wat' = F!At("handle")
      /\ conns' = F!override([y \in new |-> F!new_connection], conns)
      /\ accepting' = << >>
      /\ UNCHANGED <<server, acceptor, ctrl, m_running, accepted, up, down, client>>
  BY Zenon DEF F!do_accept, F!finish, F!networkVars
<1>2. Rest(wbatch', wbatch, x) /\ DOMAIN wbatch' = DOMAIN wbatch \ {x}
  BY <1>1, Rests
<1>3. x \in Own /\ Quiet(x, wbatch[x], FALSE)
  BY <1>0 DEF Own, Sound, Quiet
<1>4. new \subseteq ServerFds /\ new \intersect DOMAIN wloop.events = {}
  <2>1. new \subseteq ServerFds
    BY SentDescriptors, Zenon DEF WorkerInv
  <2> HIDE DEF new
  <2>2. new \intersect DOMAIN conns = {}
    BY DEF Opened, new, WorkerInv
  <2> QED BY <2>1, <2>2, OwnSockets DEF WorkerInv
<1>5. Sound(wloop, wbatch')
  BY <1>0, <1>2, LoopExits
<1> HIDE DEF new
<1>6. /\ Sound(l, wbatch') /\ DOMAIN l.events = DOMAIN wloop.events \union new
      /\ \A y \in DOMAIN wloop.events : l.events[y] = wloop.events[y]
      /\ DOMAIN l.update_list = DOMAIN wloop.update_list \union new
      /\ l.epoll = wloop.epoll
  <2>1. l = F!op_event_loop_add_fds(wloop, new, F!tcp_connection_reading_state)
    BY DEF F!added
  <2> HIDE DEF l
  <2> DEFINE c == F!tcp_connection_reading_state
  <2> HIDE DEF l, c
  <2>3. l = F!op_event_loop_add_fds(wloop, new, c)
    BY <2>1 DEF c
  <2>4. New(new, wloop)
    BY <1>4 DEF New
  <2> QED BY <1>5, <2>3, <2>4, LoopAdds
<1> HIDE DEF l
<1>7. Listens(wloop)
  BY <1>0 DEF Phase
<1>8. Listens(l)
  BY <1>6, <1>7 DEF Listens, Own
<1>9. x \in DOMAIN l.events
  BY <1>3, <1>8 DEF Listens
<1> HIDE DEF x
<1>10. /\ Sound(wloop', wbatch') /\ Phase(wloop', wbatch', "handle", wat'.fd)
       /\ wloop'.events = l.events
  <2> DEFINE error == FALSE
  <2>1. x \in DOMAIN wbatch
    BY DEF x
  <2>2. Quiet(x, wbatch[x], error) /\ wloop' = F!handled(l, x, wbatch[x], error)
    BY <1>1, <1>3
  <2> HIDE DEF error
  <2> QED BY <1>2, <1>6, <1>8, <1>9, <2>1, <2>2, EventHandled
<1>11. wat'.pc = "handle"
  BY <1>1, WorkerAt, Zenon
<1>12. DOMAIN conns' = DOMAIN conns \union new
  BY <1>1 DEF F!override
<1>13. DOMAIN conns' = DOMAIN wloop'.events \ Own
  BY <1>4, <1>6, <1>10, <1>12, OwnSockets DEF WorkerInv
<1>14. Stopping(server, acceptor, << >>, ctrl, m_running, wbatch', "handle")
  BY <1>2 DEF Stopping, WorkerInv
<1>15. F!Range(<< >>) = {} /\ << >> \in Seq(ServerFds)
  BY DEF F!Range
<1>16. Opened(accepted, DOMAIN conns', << >>, client)
  BY <1>12, <1>15 DEF Opened, new, WorkerInv
<1> QED BY <1>1, <1>10, <1>11, <1>13, <1>14, <1>15, <1>16 DEF WorkerInv

\* The worker is told to stop.
LEMMA WorkerToldToStop ==
    ASSUME WorkerInv, wat.pc = "handle", F!CTRL \in DOMAIN wbatch, F!do_control
    PROVE  WorkerInv'
<1>0. Sound(wloop, wbatch) /\ Phase(wloop, wbatch, wat.pc, wat.fd)
  BY DEF WorkerInv
<1> DEFINE x == F!CTRL
           l == F!op_event_loop_exit(wloop)
<1>1. /\ wloop' = F!handled(l, x, wbatch[x], FALSE)
      /\ wbatch' = F!Restrict(wbatch, DOMAIN wbatch \ {x})
      /\ wat' = F!At("handle") /\ m_running' = FALSE /\ ctrl' = FALSE
      /\ UNCHANGED <<server, acceptor, accepting, conns, accepted, up, down, client>>
  BY Zenon DEF F!do_control, F!finish, F!networkVars
<1>2. Rest(wbatch', wbatch, x) /\ DOMAIN wbatch' = DOMAIN wbatch \ {x}
  BY <1>1, Rests
<1>3. x \in Own /\ x # F!ACCEPT /\ Quiet(x, wbatch[x], FALSE)
  BY <1>0, OwnSockets DEF Own, Sound, Quiet
<1>4. /\ Sound(l, wbatch') /\ l.events = wloop.events /\ l.update_list = wloop.update_list
      /\ l.epoll = wloop.epoll /\ l.fresh = wloop.fresh
  <2>1. l = F!op_event_loop_exit(wloop)
    OBVIOUS
  <2> HIDE DEF l
  <2> QED BY <1>0, <1>2, <2>1, LoopExits
<1> HIDE DEF l
<1>5. Listens(wloop)
  BY <1>0 DEF Phase
<1>6. Listens(l)
  BY <1>4, <1>5 DEF Listens, Own
<1>7. x \in DOMAIN l.events
  BY <1>3, <1>6 DEF Listens
<1> HIDE DEF x
<1>8. /\ Sound(wloop', wbatch') /\ Phase(wloop', wbatch', "handle", wat'.fd)
      /\ wloop'.events = l.events /\ wloop'.update_list = l.update_list
      /\ wloop'.fresh = l.fresh
  <2> DEFINE error == FALSE
  <2>1. x \in DOMAIN wbatch
    BY DEF x
  <2>2. Quiet(x, wbatch[x], error) /\ wloop' = F!handled(l, x, wbatch[x], error)
    BY <1>1, <1>3
  <2> HIDE DEF error
  <2> QED BY <1>2, <1>4, <1>6, <1>7, <2>1, <2>2, EventHandled
<1>9. wat'.pc = "handle"
  BY <1>1, WorkerAt, Zenon
<1>10. server \in {"joining", "gone"}
  BY DEF Stopping, WorkerInv
<1>11. Stopping(server, acceptor, accepting, FALSE, FALSE, wbatch', "handle")
  BY <1>2, <1>3, <1>10 DEF Stopping, WorkerInv
<1>12. accepting # << >> => Noticed(wloop', wbatch')
  BY <1>2, <1>3, <1>4, <1>8 DEF Noticed, WorkerInv
<1> QED BY <1>1, <1>4, <1>8, <1>9, <1>11, <1>12 DEF WorkerInv

\* A connection is served.
LEMMA SendsLoop ==
    ASSUME NEW x, NEW c
    PROVE  LET r == F!do_write(x, c)
           IN  \/ r.loop = wloop
               \/ r.loop = F!op_event_loop_update_fd(wloop, x, F!tcp_connection_reading_state)
               \/ r.loop = F!op_event_loop_update_fd(wloop, x, F!tcp_connection_writing_state)
<1> DEFINE reading == F!op_event_loop_update_fd(wloop, x, F!tcp_connection_reading_state)
           writing == F!op_event_loop_update_fd(wloop, x, F!tcp_connection_writing_state)
<1>1. \E cn, sent, l, error :
          /\ F!do_write(x, c) = [conn |-> cn, sent |-> sent, loop |-> l, error |-> error]
          /\ l = wloop \/ l = reading \/ l = writing
  <2> HIDE DEF reading, writing
  <2>1. F!do_write(x, c) = F!send(x, c, reading)
    BY DEF F!do_write, reading
  <2> QED BY <2>1 DEF F!send, writing
<1> HIDE DEF reading, writing
<1>2. F!do_write(x, c).loop \in {wloop, reading, writing}
  BY <1>1
<1> QED BY <1>2 DEF reading, writing

LEMMA WorkerWrites ==
    ASSUME WorkerInv, NEW x \in ServerFds, x \in DOMAIN wbatch, wat.pc \in {"handle", "read"},
           NEW c, F!write(x, c),
           UNCHANGED <<server, acceptor, accepting, ctrl, m_running, accepted, client>>
    PROVE  WorkerInv'
<1>1. PICK r : r = F!do_write(x, c)
  OBVIOUS
<1>2. /\ conns' = [conns EXCEPT ![x] = r.conn]
      /\ F!finish(x, r.loop, r.error)
  BY <1>1, Zenon DEF F!write
<1>3. DOMAIN conns' = DOMAIN conns
  BY <1>2
<1>4. PICK s : r.loop = wloop \/ r.loop = F!op_event_loop_update_fd(wloop, x, s)
  BY <1>1, SendsLoop, Zenon
<1> DEFINE l == r.loop
           error == r.error
<1>5. F!finish(x, l, error) /\ (l = wloop \/ l = F!op_event_loop_update_fd(wloop, x, s))
  BY <1>2, <1>4, Zenon
<1> HIDE DEF l, error
<1> QED BY <1>3, <1>5, ConnectionHandled, Zenon

\* A connection that is handled without any change to the loop.
LEMMA WorkerPasses ==
    ASSUME WorkerInv, NEW x \in ServerFds, x \in DOMAIN wbatch, wat.pc \in {"handle", "read"},
           NEW error, F!finish(x, wloop, error), DOMAIN conns' = DOMAIN conns,
           UNCHANGED <<server, acceptor, accepting, ctrl, m_running, accepted, client>>
    PROVE  WorkerInv'
<1>1. PICK l : l = wloop
  OBVIOUS
<1>2. F!finish(x, l, error)
  BY <1>1, Zenon
<1>3. PICK c : c = 0
  OBVIOUS
<1> QED BY <1>1, <1>2, ConnectionHandled, Zenon

LEMMA WorkerHandles ==
    ASSUME WorkerInv, NEW x \in ServerFds \union Own, F!handle(x)
    PROVE  WorkerInv'
<1>1. wat.pc = "handle" /\ x \in DOMAIN wbatch
  BY Zenon DEF F!handle
<1>2. CASE x = F!CTRL /\ F!do_control
  BY <1>1, <1>2, WorkerToldToStop
<1>3. CASE x = F!ACCEPT /\ F!do_accept
  BY <1>1, <1>3, WorkerAccepts
<1>4. CASE /\ x \in ServerFds
           /\ \/ F!do_read(x)
              \/ F!write(x, conns[x])
              \/ F!finish(x, wloop, FALSE) /\ UNCHANGED <<conns, down>>
           /\ UNCHANGED <<F!serverVars, m_running, accepted, up, client>>
  <2>1. UNCHANGED <<server, acceptor, accepting, ctrl, m_running, accepted, client>>
    BY <1>4 DEF F!serverVars
  <2>2. CASE F!write(x, conns[x])
    BY <1>1, <1>4, <2>1, <2>2, WorkerWrites
  <2>3. CASE F!finish(x, wloop, FALSE) /\ UNCHANGED <<conns, down>>
    BY <1>1, <1>4, <2>1, <2>3, WorkerPasses
  <2>4. CASE F!do_read(x)
    <3>1. conns' = conns
      BY <2>4 DEF F!do_read
    <3>2. CASE F!finish(x, wloop, FALSE)
      BY <1>1, <1>4, <2>1, <3>1, <3>2, WorkerPasses
    <3>3. CASE wat' = [pc |-> "read", fd |-> x] /\ UNCHANGED <<wloop, wbatch>>
      <4>1. wat'.pc = "read" /\ wat'.fd = x
        BY <3>3
      <4>2. Phase(wloop, wbatch, "read", x)
        BY <1>1, <1>4 DEF WorkerInv, Phase
      <4>3. Stopping(server, acceptor, accepting, ctrl, m_running, wbatch, "read")
        BY <1>1 DEF WorkerInv, Stopping
      <4> QED BY <1>1, <2>1, <3>1, <3>3, <4>1, <4>2, <4>3 DEF WorkerInv
    <3> QED BY <2>4, <3>2, <3>3, Zenon DEF F!do_read
  <2> QED BY <1>4, <2>2, <2>3, <2>4
<1> QED BY <1>2, <1>3, <1>4, Zenon DEF F!handle

\* The worker reads.
LEMMA WorkerReads ==
    ASSUME WorkerInv, NEW x \in ServerFds, F!recv(x)
    PROVE  WorkerInv'
<1>1. wat = [pc |-> "read", fd |-> x] /\ UNCHANGED <<F!serverVars, m_running, accepted, client>>
  BY Zenon DEF F!recv
<1>2. wat.pc = "read" /\ wat.fd = x
  BY <1>1
<1>3. x \in DOMAIN wbatch
  BY <1>2 DEF WorkerInv, Phase
<1>4. UNCHANGED <<server, acceptor, accepting, ctrl, m_running, accepted, client>>
  BY <1>1 DEF F!serverVars
<1>5. \/ \E error : F!finish(x, wloop, error) /\ \E c : conns' = [conns EXCEPT ![x] = c]
      \/ UNCHANGED <<wloop, wbatch, wat, down>> /\ \E c : conns' = [conns EXCEPT ![x] = c]
      \/ \E c : F!write(x, c)
  BY Zenon DEF F!recv
<1>6. CASE \E c : F!write(x, c)
  BY <1>2, <1>3, <1>4, <1>6, WorkerWrites
<1>7. CASE \E error : F!finish(x, wloop, error) /\ \E c : conns' = [conns EXCEPT ![x] = c]
  <2>1. DOMAIN conns' = DOMAIN conns
    BY <1>7
  <2> QED BY <1>2, <1>3, <1>4, <1>7, <2>1, WorkerPasses
<1>8. CASE UNCHANGED <<wloop, wbatch, wat, down>> /\ \E c : conns' = [conns EXCEPT ![x] = c]
  <2>1. DOMAIN conns' = DOMAIN conns
    BY <1>8
  <2> QED BY <1>4, <1>8, <2>1 DEF WorkerInv
<1> QED BY <1>5, <1>6, <1>7, <1>8

\* The worker starts.
LEMMA WorkerStarts ==
    ASSUME WorkerInv, F!start
    PROVE  WorkerInv'
<1>0. /\ wat.pc = "start" /\ Sound(wloop, wbatch) /\ DOMAIN wloop.events = {} /\ DOMAIN wbatch = {}
      /\ wloop.remove_list = {}
  <2>1. wat.pc = "start"
    BY Zenon DEF F!start
  <2> QED BY <2>1 DEF WorkerInv, Phase
<1>1. /\ m_running' = ~ctrl /\ ctrl' = FALSE /\ accepting' = << >> /\ wat' = F!At("top")
      /\ conns' = [y \in F!Range(accepting) |-> F!new_connection]
      /\ UNCHANGED <<server, acceptor, wbatch, accepted, up, down, client>>
  BY Zenon DEF F!start, F!networkVars
<1>2. PICK new : new = F!Range(accepting)
  OBVIOUS
<1>3. PICK j : j = F!op_event_loop_add_fds(wloop, {F!CTRL}, F!ctrl_callbacks)
  OBVIOUS
<1>4. PICK k : k = F!op_event_loop_add_fds(j, {F!ACCEPT}, F!accept_callbacks)
  OBVIOUS
<1>5. wloop' = F!op_event_loop_add_fds(k, new, F!tcp_connection_reading_state)
  BY <1>2, <1>3, <1>4, Zenon DEF F!start, F!added, F!op_event_loop_add_fd
<1>6. /\ Sound(j, wbatch) /\ DOMAIN j.events = {F!CTRL} /\ j.remove_list = {}
      /\ j.epoll = wloop.epoll
  <2>1. New({F!CTRL}, wloop)
    BY <1>0 DEF New, Own
  <2>2. /\ Sound(j, wbatch) /\ DOMAIN j.events = DOMAIN wloop.events \union {F!CTRL}
        /\ j.remove_list = wloop.remove_list /\ j.epoll = wloop.epoll
    <3>1. PICK own : own = {F!CTRL}
      OBVIOUS
    <3>2. New(own, wloop) /\ j = F!op_event_loop_add_fds(wloop, own, F!ctrl_callbacks)
      BY <1>3, <2>1, <3>1
    <3>3. /\ Sound(j, wbatch) /\ DOMAIN j.events = DOMAIN wloop.events \union own
          /\ j.remove_list = wloop.remove_list /\ j.epoll = wloop.epoll
      <4>1. Sound(wloop, wbatch)
        BY <1>0
      <4> QED BY <3>2, <4>1, LoopAdds
    <3> QED BY <3>1, <3>3
  <2> QED BY <1>0, <2>2
<1>7. /\ Sound(k, wbatch) /\ DOMAIN k.events = Own /\ k.remove_list = {}
      /\ F!ACCEPT \in DOMAIN k.update_list /\ k.events[F!ACCEPT] = F!accept_callbacks
      /\ k.epoll = wloop.epoll
  <2>1. New({F!ACCEPT}, j)
    BY <1>6, OwnSockets DEF New, Own
  <2>2. /\ Sound(k, wbatch) /\ DOMAIN k.events = DOMAIN j.events \union {F!ACCEPT}
        /\ k.remove_list = j.remove_list /\ k.epoll = j.epoll
        /\ DOMAIN k.update_list = DOMAIN j.update_list \union {F!ACCEPT}
        /\ \A y \in {F!ACCEPT} : k.events[y] = F!accept_callbacks
    <3>1. PICK own : own = {F!ACCEPT}
      OBVIOUS
    <3>2. New(own, j) /\ k = F!op_event_loop_add_fds(j, own, F!accept_callbacks)
      BY <1>4, <2>1, <3>1
    <3>3. /\ Sound(k, wbatch) /\ DOMAIN k.events = DOMAIN j.events \union own
          /\ k.remove_list = j.remove_list /\ k.epoll = j.epoll
          /\ DOMAIN k.update_list = DOMAIN j.update_list \union own
          /\ \A y \in own : k.events[y] = F!accept_callbacks
      BY <1>6, <3>2, LoopAdds
    <3> QED BY <3>1, <3>3
  <2> QED BY <1>6, <2>2 DEF Own
<1>8. /\ Sound(wloop', wbatch) /\ DOMAIN wloop'.events = Own \union new /\ wloop'.remove_list = {}
      /\ F!ACCEPT \in DOMAIN wloop'.update_list /\ wloop'.events[F!ACCEPT] = F!accept_callbacks
      /\ wloop'.epoll = wloop.epoll
  <2>1. New(new, k)
    <3>1. new \subseteq ServerFds
      BY <1>2, SentDescriptors, Zenon DEF WorkerInv
    <3> QED BY <1>7, <3>1, OwnSockets DEF New
  <2>2. /\ Sound(wloop', wbatch) /\ DOMAIN wloop'.events = DOMAIN k.events \union new
        /\ wloop'.remove_list = k.remove_list /\ wloop'.epoll = k.epoll
        /\ DOMAIN wloop'.update_list = DOMAIN k.update_list \union new
        /\ \A y \in DOMAIN k.events : wloop'.events[y] = k.events[y]
    BY <1>5, <1>7, <2>1, LoopAdds
  <2> QED BY <1>7, <2>2 DEF Own
<1>9. wat'.pc = "top"
  BY <1>1, WorkerAt, Zenon
<1>10. F!ACCEPT \notin DOMAIN wloop.epoll
  BY <1>0 DEF Sound
<1>11. Phase(wloop', wbatch, "top", wat'.fd)
  BY <1>0, <1>8, <1>10 DEF Phase, Listens
<1>12. DOMAIN conns' = new /\ new \subseteq ServerFds
  <2>1. new \subseteq ServerFds
    BY <1>2, SentDescriptors, Zenon DEF WorkerInv
  <2> QED BY <1>1, <1>2, <2>1
<1>13. DOMAIN conns' = DOMAIN wloop'.events \ Own
  BY <1>8, <1>12, OwnSockets
<1>14. Stopping(server, acceptor, << >>, FALSE, ~ctrl, wbatch, "top")
  BY <1>0 DEF Stopping, WorkerInv
<1>15. F!Range(<< >>) = {} /\ << >> \in Seq(ServerFds)
  BY DEF F!Range
<1>16. DOMAIN conns = {}
  BY <1>0 DEF WorkerInv
<1>17. Opened(accepted, DOMAIN conns', << >>, client)
  BY <1>2, <1>12, <1>15, <1>16 DEF Opened, WorkerInv
<1> QED BY <1>1, <1>8, <1>9, <1>11, <1>13, <1>14, <1>15, <1>17 DEF WorkerInv

\* The worker runs its loop, or ends.
LEMMA WorkerRuns ==
    ASSUME WorkerInv, F!run
    PROVE  WorkerInv'
<1>0. /\ wat.pc = "top" /\ Sound(wloop, wbatch) /\ DOMAIN wbatch = {} /\ wloop.remove_list = {}
      /\ Listens(wloop)
  <2>1. wat.pc = "top"
    BY Zenon DEF F!run
  <2> QED BY <2>1 DEF WorkerInv, Phase
<1>1. UNCHANGED <<server, acceptor, accepting, ctrl, m_running, wbatch, up, down, client>>
  BY Zenon DEF F!run, F!serverVars
<1>2. CASE m_running
  <2>1. /\ wloop' = [wloop EXCEPT !.running = TRUE] /\ wat' = F!At("turn")
        /\ UNCHANGED <<conns, accepted>>
    BY <1>2, Zenon DEF F!run
  <2>2. /\ Sound(wloop', wbatch) /\ wloop'.events = wloop.events
        /\ wloop'.update_list = wloop.update_list
        /\ wloop'.remove_list = wloop.remove_list /\ wloop'.epoll = wloop.epoll
        /\ wloop'.fresh = wloop.fresh
    <3>1. Sound(wloop, wbatch)
      BY <1>0
    <3> QED BY <2>1, <3>1, LoopRuns
  <2>3. wat'.pc = "turn"
    BY <2>1, WorkerAt, Zenon
  <2>4. Phase(wloop', wbatch, "turn", wat'.fd)
    BY <1>0, <2>2 DEF Phase, Listens
  <2>5. Stopping(server, acceptor, accepting, ctrl, m_running, wbatch, "turn")
    BY <1>0, <1>2 DEF Stopping, WorkerInv
  <2>6. accepting # << >> => Noticed(wloop', wbatch)
    BY <1>0, <2>2 DEF Noticed, WorkerInv
  <2> QED BY <1>1, <2>1, <2>2, <2>3, <2>4, <2>5, <2>6 DEF WorkerInv
<1>3. CASE ~m_running
  <2>1. /\ wloop' = F!op_event_loop_purge(wloop) /\ wat' = F!At("ended")
        /\ conns' = F!Restrict(conns, DOMAIN conns \ DOMAIN wloop.events)
        /\ accepted' = accepted \ DOMAIN wloop.events
    BY <1>3, Zenon DEF F!run
  <2>2. /\ Sound(wloop', wbatch) /\ wloop'.remove_list = {} /\ DOMAIN wloop'.events = {}
        /\ wloop'.events = << >>
    <3>1. Sound(wloop, wbatch) /\ DOMAIN wbatch = {}
      BY <1>0
    <3> QED BY <2>1, <3>1, LoopPurges
  <2>3. wat'.pc = "ended"
    BY <2>1, WorkerAt, Zenon
  <2>4. Phase(wloop', wbatch, "ended", wat'.fd)
    BY <1>0, <2>2 DEF Phase
  <2>5. accepting = << >> /\ ~acceptor
    BY <1>0, <1>3 DEF Stopping, WorkerInv
  <2>6. Stopping(server, acceptor, accepting, ctrl, m_running, wbatch, "ended")
    BY <1>0, <1>3, <2>5 DEF Stopping, WorkerInv
  <2>7. DOMAIN conns' = {}
    BY <2>1 DEF F!Restrict, WorkerInv
  <2>8. accepted' = {} /\ F!Range(accepting) = {}
    <3>1. F!Range(accepting) = {}
      BY <2>5 DEF F!Range
    <3> QED BY <2>1, <3>1 DEF Opened, WorkerInv
  <2>9. Opened(accepted', DOMAIN conns', accepting, client)
    BY <2>7, <2>8 DEF Opened
  <2> QED BY <1>1, <2>2, <2>3, <2>4, <2>6, <2>7, <2>9 DEF WorkerInv
<1> QED BY <1>2, <1>3

\* A turn of the loop begins.
LEMMA WorkerTurns ==
    ASSUME WorkerInv, F!turn
    PROVE  WorkerInv'
<1>0. /\ wat.pc = "turn" /\ Sound(wloop, wbatch) /\ DOMAIN wbatch = {} /\ wloop.remove_list = {}
      /\ Listens(wloop)
  <2>1. wat.pc = "turn"
    BY Zenon DEF F!turn
  <2> QED BY <2>1 DEF WorkerInv, Phase
<1>1. UNCHANGED <<server, acceptor, accepting, ctrl, m_running, conns, wbatch, accepted, up, down,
                  client>>
  BY Zenon DEF F!turn, F!serverVars, F!networkVars
<1>2. CASE wloop' = F!_do_event_updates(wloop) /\ wat' = F!At("wait")
  <2>1. /\ Sound(wloop', wbatch) /\ wloop'.events = wloop.events /\ DOMAIN wloop'.update_list = {}
        /\ wloop'.remove_list = wloop.remove_list
        /\ wloop'.fresh = wloop.fresh \union DOMAIN wloop.update_list
        /\ DOMAIN wloop'.epoll = DOMAIN wloop.epoll \union DOMAIN wloop.update_list
        /\ \A x \in DOMAIN wloop.update_list : wloop'.epoll[x] = F!events_mask(wloop.events[x])
        /\ \A x \in DOMAIN wloop.epoll \ DOMAIN wloop.update_list : wloop'.epoll[x] = wloop.epoll[x]
    <3>1. Sound(wloop, wbatch)
      BY <1>0
    <3> QED BY <1>2, <3>1, LoopTurns
  <2>2. wat'.pc = "wait"
    BY <1>2, WorkerAt, Zenon
  <2>3. "EPOLLIN" \in F!events_mask(F!accept_callbacks)
    BY DEF F!events_mask, F!accept_callbacks, F!callbacks
  <2>4. F!ACCEPT \in DOMAIN wloop'.epoll /\ "EPOLLIN" \in wloop'.epoll[F!ACCEPT]
    BY <1>0, <2>1, <2>3 DEF Listens
  <2>5. Phase(wloop', wbatch, "wait", wat'.fd)
    BY <1>0, <2>1, <2>4 DEF Phase, Listens
  <2>6. Stopping(server, acceptor, accepting, ctrl, m_running, wbatch, "wait")
    BY <1>0 DEF Stopping, WorkerInv
  <2>7. accepting # << >> => Noticed(wloop', wbatch)
    BY <1>0, <2>1 DEF Noticed, WorkerInv
  <2> QED BY <1>1, <2>1, <2>2, <2>5, <2>6, <2>7 DEF WorkerInv
<1>3. CASE wloop' = wloop /\ wat' = F!At("top")
  <2>1. wat'.pc = "top"
    BY <1>3, WorkerAt, Zenon
  <2>2. Phase(wloop, wbatch, "top", wat'.fd)
    BY <1>0 DEF Phase
  <2>3. Stopping(server, acceptor, accepting, ctrl, m_running, wbatch, "top")
    BY <1>0 DEF Stopping, WorkerInv
  <2> QED BY <1>0, <1>1, <1>3, <2>1, <2>2, <2>3 DEF WorkerInv
<1> QED BY <1>2, <1>3, Zenon DEF F!turn

\* epoll reports events.
LEMMA WorkerWaits ==
    ASSUME WorkerInv, F!wait
    PROVE  WorkerInv'
<1>0. /\ wat.pc = "wait" /\ Sound(wloop, wbatch) /\ DOMAIN wbatch = {} /\ wloop.remove_list = {}
      /\ Listens(wloop) /\ DOMAIN wloop.update_list = {}
  <2>1. wat.pc = "wait"
    BY Zenon DEF F!wait
  <2> QED BY <2>1 DEF WorkerInv, Phase
<1>1. /\ wbatch' = F!epoll_wait(wloop, [x \in DOMAIN wloop.epoll |-> F!ready(x)])
      /\ wloop' = F!waited(wloop) /\ wat' = F!At("handle")
      /\ UNCHANGED <<server, acceptor, accepting, ctrl, m_running, conns, accepted, up, down, client>>
  BY Zenon DEF F!wait, F!serverVars, F!networkVars
<1>2. PICK rd : rd = [x \in DOMAIN wloop.epoll |-> F!ready(x)]
  OBVIOUS
<1>3. /\ F!ready(F!CTRL) = IF ctrl THEN {"EPOLLIN"} ELSE {}
      /\ F!ready(F!ACCEPT) = IF accepting # << >> THEN {"EPOLLIN"} ELSE {}
  BY OwnSockets DEF F!ready
<1>4. F!ACCEPT \in DOMAIN wloop.epoll
  BY <1>0 DEF Listens
<1>5. /\ \A x \in Own \intersect DOMAIN wloop.epoll : rd[x] \subseteq {"EPOLLIN"}
      /\ accepting # << >> => rd[F!ACCEPT] = {"EPOLLIN"}
  BY <1>2, <1>3, <1>4 DEF Own
<1>6. /\ Sound(wloop', wbatch') /\ wloop'.events = wloop.events
      /\ wloop'.update_list = wloop.update_list
      /\ wloop'.remove_list = {} /\ wloop'.epoll = wloop.epoll
      /\ Listens(wloop) /\ F!ACCEPT \in wloop.fresh /\ rd[F!ACCEPT] = {"EPOLLIN"}
                => F!ACCEPT \in DOMAIN wbatch'
  <2>1. wbatch' = F!epoll_wait(wloop, rd)
    BY <1>1, <1>2
  <2> QED BY <1>0, <1>1, <1>5, <2>1, LoopWaits
<1>7. wat'.pc = "handle"
  BY <1>1, WorkerAt, Zenon
<1>8. Phase(wloop', wbatch', "handle", wat'.fd)
  BY <1>0, <1>6 DEF Phase, Listens
<1>9. accepting # << >> => F!ACCEPT \in DOMAIN wbatch'
  <2>1. accepting # << >> => F!ACCEPT \in wloop.fresh
    BY <1>0 DEF WorkerInv, Noticed
  <2> QED BY <1>0, <1>5, <1>6, <2>1
<1>10. F!CTRL \in DOMAIN wbatch' => ctrl
  <2>1. F!CTRL \in DOMAIN wbatch' => F!CTRL \in DOMAIN wloop.epoll /\ rd[F!CTRL] # {}
    BY <1>1, <1>2 DEF F!epoll_wait
  <2> QED BY <1>2, <1>3, <2>1
<1>11. Stopping(server, acceptor, accepting, ctrl, m_running, wbatch', "handle")
  <2>1. F!CTRL \in DOMAIN wbatch' \/ ctrl \/ ~m_running => server \in {"joining", "gone"}
    BY <1>10 DEF Stopping, WorkerInv
  <2> QED BY <1>0, <1>9, <2>1 DEF Stopping, WorkerInv
<1> QED BY <1>1, <1>6, <1>7, <1>8, <1>9, <1>11 DEF WorkerInv, Noticed

\* Events are removed, and connections closed with them.
LEMMA WorkerRemoves ==
    ASSUME WorkerInv, F!removals
    PROVE  WorkerInv'
<1>0. /\ wat.pc = "handle" /\ Sound(wloop, wbatch) /\ DOMAIN wbatch = {} /\ Listens(wloop)
  <2>1. wat.pc = "handle" /\ wbatch = F!NoEvents
    BY Zenon DEF F!removals
  <2>2. DOMAIN wbatch = {}
    BY <2>1 DEF F!NoEvents
  <2> QED BY <2>1, <2>2 DEF WorkerInv, Phase
<1>1. /\ conns' = F!Restrict(conns, DOMAIN conns \ wloop.remove_list)
      /\ accepted' = accepted \ wloop.remove_list
      /\ wloop' = F!_do_event_removals(wloop) /\ wat' = F!At("turn")
      /\ UNCHANGED <<server, acceptor, accepting, ctrl, m_running, wbatch, up, down, client>>
  BY Zenon DEF F!removals, F!serverVars
<1>2. /\ Sound(wloop', wbatch) /\ wloop'.remove_list = {}
      /\ wloop'.events = F!Restrict(wloop.events, DOMAIN wloop.events \ wloop.remove_list)
      /\ DOMAIN wloop'.update_list = DOMAIN wloop.update_list \ wloop.remove_list
      /\ DOMAIN wloop'.epoll = DOMAIN wloop.epoll \ wloop.remove_list
      /\ \A x \in DOMAIN wloop'.epoll : wloop'.epoll[x] = wloop.epoll[x]
      /\ wloop'.fresh = wloop.fresh \ wloop.remove_list
  <2>1. Removable(wloop)
    BY <1>0 DEF Removable, Sound
  <2>2. DOMAIN wbatch = {} /\ wloop' = F!_do_event_removals(wloop)
    BY <1>0, <1>1
  <2>3. Removed(wloop', wloop, wbatch)
    BY <2>1, <2>2, LoopRemoves, Zenon
  <2> QED BY <2>3 DEF Removed
<1>3. wloop.remove_list \intersect Own = {} /\ wloop.remove_list \subseteq DOMAIN wloop.events
  BY <1>0 DEF Sound
<1>4. /\ DOMAIN wloop'.events = DOMAIN wloop.events \ wloop.remove_list
      /\ \A x \in DOMAIN wloop'.events : wloop'.events[x] = wloop.events[x]
  BY <1>2 DEF F!Restrict
<1>5. wat'.pc = "turn"
  BY <1>1, WorkerAt, Zenon
<1>6. F!ACCEPT \in Own
  BY DEF Own
<1>7. Listens(wloop')
  <2>1. F!ACCEPT \notin wloop.remove_list /\ Own \subseteq DOMAIN wloop'.events
    BY <1>0, <1>3, <1>4, <1>6 DEF Listens
  <2> QED BY <1>0, <1>2, <1>4, <1>6, <2>1 DEF Listens
<1>8. Phase(wloop', wbatch, "turn", wat'.fd)
  BY <1>0, <1>2, <1>7 DEF Phase
<1>9. DOMAIN conns' = DOMAIN conns \ wloop.remove_list
  BY <1>1 DEF F!Restrict
<1>10. DOMAIN conns' = DOMAIN wloop'.events \ Own
  BY <1>4, <1>9 DEF WorkerInv
<1>11. Stopping(server, acceptor, accepting, ctrl, m_running, wbatch, "turn")
  BY <1>0 DEF Stopping, WorkerInv
<1>12. accepting # << >> => Noticed(wloop', wbatch)
  BY <1>0, <1>2, <1>3, <1>6 DEF Noticed, WorkerInv
<1>13. Opened(accepted', DOMAIN conns', accepting, client)
  <2>1. wloop.remove_list \intersect F!Range(accepting) = {}
    <3>1. F!Range(accepting) \subseteq ServerFds /\ F!Range(accepting) \intersect DOMAIN conns = {}
      BY SentDescriptors, Zenon DEF WorkerInv, Opened
    <3>2. DOMAIN conns = DOMAIN wloop.events \ Own
      BY DEF WorkerInv
    <3> QED BY <1>3, <3>1, <3>2
  <2>2. Opened(accepted, DOMAIN conns, accepting, client)
    BY DEF WorkerInv
  <2> QED BY <1>1, <1>9, <2>1, <2>2 DEF Opened
<1> QED BY <1>1, <1>2, <1>5, <1>8, <1>10, <1>11, <1>12, <1>13 DEF WorkerInv

\* An edge, for the worker.
LEMMA WorkerWoken ==
    ASSUME WorkerInv, NEW x, NEW k, k = wloop \/ k = F!wakeup(wloop, x)
    PROVE  /\ Sound(k, wbatch) /\ Phase(k, wbatch, wat.pc, wat.fd)
           /\ k.events = wloop.events
           /\ wat.pc \notin {"start", "ended"} /\ accepting # << >> => Noticed(k, wbatch)
           /\ k = F!wakeup(wloop, F!ACCEPT) /\ wat.pc \notin {"start", "ended"}
                => Noticed(k, wbatch)
<1>1. CASE k = F!wakeup(wloop, F!ACCEPT)
  <2>1. /\ Sound(k, wbatch) /\ k.events = wloop.events /\ k.update_list = wloop.update_list
        /\ k.remove_list = wloop.remove_list /\ k.epoll = wloop.epoll
        /\ k.fresh = IF F!ACCEPT \in DOMAIN wloop.epoll THEN wloop.fresh \union {F!ACCEPT}
                     ELSE wloop.fresh
    <3>1. Sound(wloop, wbatch)
      BY DEF WorkerInv
    <3> QED BY <1>1, <3>1, LoopWakes
  <2>2. Phase(k, wbatch, wat.pc, wat.fd)
    BY <2>1 DEF Phase, Listens, WorkerInv
  <2>3. wat.pc \notin {"start", "ended"} => Noticed(k, wbatch)
    <3>1. wat.pc \notin {"start", "ended"} => Listens(wloop)
      BY DEF Phase, WorkerInv
    <3> QED BY <2>1, <3>1 DEF Noticed, Listens
  <2> QED BY <2>1, <2>2, <2>3
<1>2. CASE k = wloop /\ k # F!wakeup(wloop, F!ACCEPT)
  BY <1>2 DEF WorkerInv
<1>3. CASE k = F!wakeup(wloop, x) /\ k # F!wakeup(wloop, F!ACCEPT)
  <2>1. /\ Sound(k, wbatch) /\ k.events = wloop.events /\ k.update_list = wloop.update_list
        /\ k.remove_list = wloop.remove_list /\ k.epoll = wloop.epoll
        /\ k.fresh = IF x \in DOMAIN wloop.epoll THEN wloop.fresh \union {x} ELSE wloop.fresh
    <3>1. Sound(wloop, wbatch)
      BY DEF WorkerInv
    <3> QED BY <1>3, <3>1, LoopWakes
  <2>2. Phase(k, wbatch, wat.pc, wat.fd)
    BY <2>1 DEF Phase, Listens, WorkerInv
  <2>3. wloop.fresh \subseteq k.fresh
    BY <2>1
  <2>4. Noticed(wloop, wbatch) => Noticed(k, wbatch)
    BY <2>1, <2>3 DEF Noticed
  <2> QED BY <1>3, <2>1, <2>2, <2>4 DEF WorkerInv
<1> QED BY <1>1, <1>2, <1>3

\* A connection is accepted.
LEMMA AcceptorAccepts ==
    ASSUME WorkerInv, NEW x \in ServerFds, F!accept(x)
    PROVE  WorkerInv'
<1>1. /\ acceptor /\ client[x].state = "backlog"
      /\ client' = [client EXCEPT ![x].state = "open"]
      /\ accepted' = accepted \union {x}
      /\ accepting' = Append(accepting, x)
      /\ wloop' = F!wakeup(wloop, F!ACCEPT)
      /\ UNCHANGED <<server, acceptor, ctrl, m_running, conns, wbatch, wat, up, down>>
  BY Zenon DEF F!accept
<1>2. /\ accepting' \in Seq(ServerFds) /\ F!Range(accepting') = F!Range(accepting) \union {x}
  <2>1. accepting \in Seq(ServerFds)
    BY DEF WorkerInv
  <2> QED BY <1>1, <2>1, SentDescriptors
<1>3. x \notin accepted
  BY <1>1 DEF WorkerInv, Opened
<1>4. /\ Sound(wloop', wbatch) /\ Phase(wloop', wbatch, wat.pc, wat.fd)
      /\ wloop'.events = wloop.events
      /\ wat.pc \notin {"start", "ended"} => Noticed(wloop', wbatch)
  BY <1>1, WorkerWoken
<1>5. client' \in Clients /\ client'[x].state = "open"
      /\ \A y \in ServerFds : y # x => client'[y] = client[y]
  <2>1. client \in Clients
    BY DEF WorkerInv
  <2> QED BY <1>1, <2>1 DEF Clients, ClientStates
<1>6. Stopping(server, acceptor, accepting', ctrl, m_running, wbatch, wat.pc)
  BY <1>1 DEF Stopping, WorkerInv
<1>7. Opened(accepted', DOMAIN conns, accepting', client')
  <2>1. accepted \subseteq ServerFds
    <3>1. F!Range(accepting) \subseteq ServerFds
      BY SentDescriptors, Zenon DEF WorkerInv
    <3> QED BY <3>1 DEF WorkerInv, Opened, Sound
  <2> QED BY <1>1, <1>2, <1>3, <1>5, <2>1 DEF WorkerInv, Opened
<1> QED BY <1>1, <1>2, <1>4, <1>5, <1>6, <1>7 DEF WorkerInv

LEMMA AcceptedDescriptors ==
    ASSUME WorkerInv PROVE accepted \subseteq ServerFds
<1>1. F!Range(accepting) \subseteq ServerFds
  BY SentDescriptors, Zenon DEF WorkerInv
<1> QED BY <1>1 DEF WorkerInv, Opened, Sound

\* A step of a client.
LEMMA WorkerClients ==
    ASSUME WorkerInv, NEW x \in ServerFds, NEW c, F!clientStep(x, c),
           c \in [state : ClientStates, plan : Seq({"GET", "PUT"}), unsent : Seq(Unit), want : Int],
           x \in accepted => c.state \notin {"new", "backlog"},
           wloop' = wloop \/ wloop' = F!wakeup(wloop, x)
    PROVE  WorkerInv' /\ accepted' = accepted /\ conns' = conns
<1>1. /\ client' = [client EXCEPT ![x] = c]
      /\ UNCHANGED <<server, acceptor, accepting, ctrl, m_running, conns, wbatch, wat, accepted>>
  BY DEF F!clientStep, F!serverVars
<1>2. /\ Sound(wloop', wbatch) /\ Phase(wloop', wbatch, wat.pc, wat.fd)
      /\ wloop'.events = wloop.events
      /\ wat.pc \notin {"start", "ended"} /\ accepting # << >> => Noticed(wloop', wbatch)
  BY WorkerWoken
<1>3. client' \in Clients /\ client'[x] = c /\ \A y \in ServerFds : y # x => client'[y] = client[y]
  <2>1. client \in Clients
    BY DEF WorkerInv
  <2> QED BY <1>1, <2>1 DEF Clients
<1>4. Opened(accepted, DOMAIN conns, accepting, client')
  BY <1>3, AcceptedDescriptors DEF WorkerInv, Opened
<1> QED BY <1>1, <1>2, <1>3, <1>4 DEF WorkerInv

\* What a client sends for a request.
Asked(action) ==
    F!header(action) \o IF action = "PUT" THEN [i \in 1..Length.PUT |-> F!Data] ELSE << >>

LEMMA AskedUnits ==
    ASSUME NEW action \in {"GET", "PUT"}
    PROVE  Asked(action) \in Seq(Unit) /\ F!header(action) \in Seq(Unit)
<1>1. F!header(action) \in Seq(Unit)
  BY ServerConstants DEF F!header, Unit
<1>2. [i \in 1..Length.PUT |-> F!Data] \in Seq(Unit)
  BY ServerConstants DEF Unit
<1> QED BY <1>1, <1>2 DEF Asked

\* The steps of clients.
LEMMA ClientSteps ==
    ASSUME WorkerInv, NEW x \in ServerFds,
           F!Connect(x) \/ F!Client(x) \/ F!Close(x)
    PROVE  WorkerInv' /\ accepted' = accepted /\ conns' = conns
<1> DEFINE R == [state : ClientStates, plan : Seq({"GET", "PUT"}), unsent : Seq(Unit), want : Int]
<1>0. client[x] \in R
  BY DEF WorkerInv, Clients
<1>1. CASE F!Connect(x)
  <2>1. /\ client[x].state = "new" \/ (client[x].state = "closed" /\ x \notin accepted)
        /\ wloop' = wloop
    BY <1>1, Zenon DEF F!Connect
  <2>2. PICK p \in Plans : F!clientStep(x, [state |-> "backlog", plan |-> p, unsent |-> << >>, want |-> 0])
    BY <1>1, Zenon DEF F!Connect
  <2>3. x \notin accepted
    BY <2>1 DEF WorkerInv, Opened
  <2>4. [state |-> "backlog", plan |-> p, unsent |-> << >>, want |-> 0] \in R
    <3>1. p \in Seq({"GET", "PUT"})
      BY ServerConstants
    <3> QED BY <3>1 DEF ClientStates
  <2>5. PICK c : c = [state |-> "backlog", plan |-> p, unsent |-> << >>, want |-> 0]
    OBVIOUS
  <2>6. F!clientStep(x, c) /\ c \in R
    BY <2>2, <2>4, <2>5
  <2> QED BY <2>1, <2>3, <2>6, WorkerClients
<1>2. CASE F!Request(x)
  <2>1. PICK c : c = [client[x] EXCEPT
            !.plan = Tail(@),
            !.unsent = Asked(Head(client[x].plan)),
            !.want = IF Head(client[x].plan) = "GET" THEN Length.GET ELSE 0]
    OBVIOUS
  <2>2. /\ client[x].state = "open" /\ client[x].plan # << >>
        /\ F!clientStep(x, c) /\ wloop' = wloop
    BY <1>2, <2>1, Zenon DEF F!Request, Asked
  <2>3. Tail(client[x].plan) \in Seq({"GET", "PUT"}) /\ Head(client[x].plan) \in {"GET", "PUT"}
    BY <1>0, <2>2
  <2>4. Asked(Head(client[x].plan)) \in Seq(Unit)
    BY <2>3, AskedUnits
  <2>5. c \in R /\ c.state = "open"
    <3> DEFINE want == IF Head(client[x].plan) = "GET" THEN Length.GET ELSE 0
               unsent == Asked(Head(client[x].plan))
    <3>1. want \in Int /\ unsent \in Seq(Unit)
      BY <2>4, ServerConstants
    <3>2. c = [client[x] EXCEPT !.plan = Tail(@), !.unsent = unsent, !.want = want]
      BY <2>1
    <3> HIDE DEF want, unsent
    <3> QED BY <1>0, <2>2, <2>3, <3>1, <3>2
  <2> QED BY <2>2, <2>5, WorkerClients
<1>3. CASE F!Send(x)
  <2>1. PICK n \in 1..Len(client[x].unsent) :
          F!clientStep(x, [client[x] EXCEPT !.unsent = SubSeq(@, n + 1, Len(@))])
    BY <1>3, Zenon DEF F!Send
  <2>2. client[x].state = "open" /\ wloop' = F!wakeup(wloop, x)
    BY <1>3, Zenon DEF F!Send
  <2>3. PICK c : c = [client[x] EXCEPT !.unsent = SubSeq(@, n + 1, Len(@))]
    OBVIOUS
  <2>4. SubSeq(client[x].unsent, n + 1, Len(client[x].unsent)) \in Seq(Unit)
    BY <1>0
  <2>5. c \in R /\ c.state = "open"
    BY <1>0, <2>2, <2>3, <2>4
  <2>6. F!clientStep(x, c)
    BY <2>1, <2>3
  <2> QED BY <2>2, <2>5, <2>6, WorkerClients
<1>4. CASE F!Receive(x)
  <2>1. PICK c : c = [client[x] EXCEPT !.want = @ - 1]
    OBVIOUS
  <2>2. client[x].state = "open" /\ wloop' = F!wakeup(wloop, x) /\ F!clientStep(x, c)
    BY <1>4, <2>1, Zenon DEF F!Receive
  <2>3. c \in R /\ c.state = "open"
    BY <1>0, <2>1, <2>2
  <2> QED BY <2>2, <2>3, WorkerClients
<1>5. CASE F!Close(x)
  <2>1. PICK c : c = [client[x] EXCEPT !.state = "closed"]
    OBVIOUS
  <2>2. wloop' = F!wakeup(wloop, x) /\ F!clientStep(x, c)
    BY <1>5, <2>1, Zenon DEF F!Close
  <2>3. c \in R /\ c.state = "closed"
    BY <1>0, <2>1, <2>2 DEF ClientStates
  <2> QED BY <2>2, <2>3, WorkerClients
<1> QED BY <1>1, <1>2, <1>3, <1>4, <1>5 DEF F!Client

\* The server is stopped.
LEMMA ServerStops ==
    ASSUME WorkerInv, F!stop_acceptor \/ F!stop_workers \/ F!join
    PROVE  WorkerInv'
<1>1. CASE F!stop_acceptor
  <2>1. /\ server = "up" /\ server' = "acceptor stopped" /\ acceptor' = FALSE
        /\ UNCHANGED <<accepting, ctrl, m_running, conns, wloop, wbatch, wat, accepted, client>>
    BY <1>1 DEF F!stop_acceptor, F!workerVars, F!networkVars
  <2>2. Stopping(server', acceptor', accepting, ctrl, m_running, wbatch, wat.pc)
    BY <2>1 DEF Stopping, WorkerInv
  <2> QED BY <2>1, <2>2 DEF WorkerInv
<1>2. CASE F!stop_workers
  <2>1. /\ server = "acceptor stopped" /\ server' = "joining" /\ ctrl' = TRUE
        /\ wloop' = F!wakeup(wloop, F!CTRL)
        /\ UNCHANGED <<acceptor, accepting, m_running, conns, wbatch, wat, accepted, client>>
    BY <1>2 DEF F!stop_workers, F!networkVars
  <2>2. Stopping(server', acceptor, accepting, ctrl', m_running, wbatch, wat.pc)
    BY <2>1 DEF Stopping, WorkerInv
  <2>3. /\ Sound(wloop', wbatch) /\ Phase(wloop', wbatch, wat.pc, wat.fd)
        /\ wloop'.events = wloop.events
        /\ wat.pc \notin {"start", "ended"} /\ accepting # << >> => Noticed(wloop', wbatch)
    BY <2>1, WorkerWoken
  <2> QED BY <2>1, <2>2, <2>3 DEF WorkerInv
<1>3. CASE F!join
  <2>1. /\ server = "joining" /\ server' = "gone" /\ wat.pc = "ended"
        /\ UNCHANGED <<acceptor, accepting, ctrl, m_running, conns, wloop, wbatch, wat, accepted, client>>
    BY <1>3 DEF F!join, F!workerVars, F!networkVars
  <2>2. Stopping(server', acceptor, accepting, ctrl, m_running, wbatch, wat.pc)
    BY <2>1 DEF Stopping, WorkerInv
  <2> QED BY <2>1, <2>2 DEF WorkerInv
<1> QED BY <1>1, <1>2, <1>3

LEMMA ServerStarts ==
    ASSUME F!Init PROVE WorkerInv
<1>1. /\ server = "up" /\ acceptor = TRUE /\ accepting = << >> /\ ctrl = FALSE
      /\ m_running = TRUE /\ conns = << >> /\ wbatch = << >> /\ wat = F!At("start")
      /\ wloop = F!op_event_loop_allocate(TRUE) /\ accepted = {}
      /\ client = [x \in ServerFds |-> [state |-> "new", plan |-> << >>, unsent |-> << >>, want |-> 0]]
  BY DEF F!Init, F!NoEvents
<1>2. DOMAIN << >> = {}
  OBVIOUS
<1>3. /\ IsLoop(wloop) /\ wloop.edge = TRUE /\ wloop.events = << >>
      /\ DOMAIN wloop.update_list = {} /\ wloop.remove_list = {} /\ wloop.epoll = << >>
      /\ wloop.fresh = {} /\ wloop.nb_epoll_events = 0
  BY <1>1 DEF F!op_event_loop_allocate, IsLoop, F!EmptyBag, F!SetToBag
<1>4. Cardinality({}) = 0
  BY FS_EmptySet
<1>5. Sound(wloop, wbatch)
  BY <1>1, <1>2, <1>3, <1>4 DEF Sound
<1>6. wat.pc = "start"
  BY <1>1, WorkerAt, Zenon
<1>7. Phase(wloop, wbatch, wat.pc, wat.fd)
  BY <1>1, <1>2, <1>3, <1>6 DEF Phase
<1>8. Stopping(server, acceptor, accepting, ctrl, m_running, wbatch, wat.pc)
  BY <1>1, <1>2, <1>6 DEF Stopping
<1>9. F!Range(<< >>) = {} /\ << >> \in Seq(ServerFds)
  BY DEF F!Range
<1>10. Opened(accepted, DOMAIN conns, accepting, client)
  BY <1>1, <1>2, <1>9 DEF Opened
<1>11. client \in Clients
  BY <1>1 DEF Clients, ClientStates
<1>12. DOMAIN conns = DOMAIN wloop.events \ Own
  BY <1>1, <1>2, <1>3
<1> QED BY <1>1, <1>5, <1>6, <1>7, <1>8, <1>9, <1>10, <1>11, <1>12 DEF WorkerInv

LEMMA ServerKeeps ==
    ASSUME WorkerInv, [F!Next]_F!vars PROVE WorkerInv'
<1>1. CASE UNCHANGED F!vars
  BY <1>1 DEF F!vars, WorkerInv
<1>2. CASE F!Worker
  <2>1. Own \union ServerFds = ServerFds \union {F!CTRL, F!ACCEPT}
    BY DEF Own
  <2>2. CASE F!start \/ F!run \/ F!turn \/ F!wait \/ F!removals
    BY <2>2, WorkerStarts, WorkerRuns, WorkerTurns, WorkerWaits, WorkerRemoves
  <2>3. CASE \E x \in ServerFds : F!recv(x)
    BY <2>3, WorkerReads
  <2>4. CASE \E x \in ServerFds \union {F!CTRL, F!ACCEPT} : F!handle(x)
    BY <2>1, <2>4, WorkerHandles
  <2> QED BY <1>2, <2>2, <2>3, <2>4, Zenon DEF F!Worker
<1>3. CASE \E x \in ServerFds : F!accept(x) \/ F!Connect(x) \/ F!Client(x) \/ F!Close(x)
  BY <1>3, AcceptorAccepts, ClientSteps
<1>4. CASE F!stop_acceptor \/ F!stop_workers \/ F!join
  BY <1>4, ServerStops
<1>5. CASE F!Gone
  BY <1>5 DEF F!Gone, F!vars, WorkerInv
<1> QED BY <1>1, <1>2, <1>3, <1>4, <1>5, Zenon DEF F!Next

LEMMA WorkerKeeps ==
    ASSUME WorkerInv PROVE F!WorkerKept
<1>1. F!LoopSound(wloop, wbatch)
  <2>1. Sound(wloop, wbatch)
    BY DEF WorkerInv
  <2>2. F!Cardinality(DOMAIN wloop.epoll) = Cardinality(DOMAIN wloop.epoll)
    BY ServerCardinality, Zenon
  <2> QED BY <2>1, <2>2 DEF Sound, F!LoopSound
<1>2. DOMAIN conns \subseteq accepted
  BY DEF WorkerInv, Opened
<1>3. DOMAIN conns = DOMAIN wloop.events \ {F!CTRL, F!ACCEPT}
  BY DEF WorkerInv, Own
<1>4. wat.pc = "ended" => wloop.events = << >>
  BY DEF WorkerInv, Phase
<1>5. server = "gone" => accepted = {}
  <2>1. server = "gone" => wloop.events = << >> /\ accepting = << >>
    BY <1>4 DEF WorkerInv, Stopping
  <2>2. DOMAIN << >> = {} /\ F!Range(<< >>) = {}
    BY DEF F!Range
  <2> QED BY <1>3, <2>1, <2>2 DEF WorkerInv, Opened
<1> QED BY <1>1, <1>2, <1>3, <1>4, <1>5 DEF F!WorkerKept

-----------------------------------------------------------------------------
(* The server of network generators: what it makes of what it receives.    *)

Conn == [state : {"WAITING", "READING", "WRITING", "ERROR", "DONE"}, bytes_left : Int,
         request : Seq(Unit)]

Begin(state, n) == [state |-> state, bytes_left |-> n, request |-> << >>]

\* The states of a connection that starts with c and gets p.
Trace(q, c, p) ==
    /\ q \in [0..Len(p) -> Conn] /\ q[0] = c
    /\ \A i \in 1..Len(p) : q[i] = F!parse(q[i - 1], p[i])

\* Where a request to get ends.
GetEnd == <<"GET", RequestSize>>

\* A connection is never surprised by what comes next: nothing comes while it writes,
\* data come while it reads a block, and a header that has begun is completed.
Good(s, i, p) ==
    /\ s.state \in {"WAITING", "READING", "WRITING"}
    /\ s.state = "WRITING" => i = Len(p) /\ s.request = << >> /\ s.bytes_left > 0
    /\ s.state = "READING" => i < Len(p) /\ p[i + 1] = F!Data /\ s.request = << >> /\ s.bytes_left > 0
    /\ s.state = "WAITING" => /\ s.bytes_left = 0 /\ Len(s.request) < RequestSize
                              /\ s.request = << >> \/ i < Len(p)
                              /\ GetEnd \notin F!Range(s.request)

Owed(s) == IF s.state = "WRITING" THEN s.bytes_left ELSE 0

\* When the connection c has got all of p it owes w.
Flow(c, p, w) ==
    \E q : /\ Trace(q, c, p) /\ \A i \in 0..Len(p) : Good(q[i], i, p)
           /\ w = Owed(q[Len(p)])

LEMMA ConnFields ==
    ASSUME NEW c \in Conn
    PROVE  /\ c.bytes_left \in Int /\ c.request \in Seq(Unit) /\ Len(c.request) \in Nat
           /\ c.state \in {"WAITING", "READING", "WRITING", "ERROR", "DONE"}
           /\ c = [state |-> c.state, bytes_left |-> c.bytes_left, request |-> c.request]
  BY DEF Conn

LEMMA BeginFields ==
    ASSUME NEW state \in {"WAITING", "READING", "WRITING", "ERROR", "DONE"}, NEW n \in Int
    PROVE  /\ Begin(state, n) \in Conn /\ Begin(state, n).state = state
           /\ Begin(state, n).bytes_left = n /\ Begin(state, n).request = << >>
  BY DEF Begin, Conn

LEMMA NewConnection == F!new_connection = Begin("WAITING", 0)
  BY DEF F!new_connection, Begin

LEMMA Headers ==
    ASSUME NEW a \in {"GET", "PUT"}
    PROVE  /\ F!header(a) \in Seq(Unit) /\ Len(F!header(a)) = RequestSize
           /\ \A i \in 1..RequestSize : F!header(a)[i] = <<a, i>>
<1>1. F!header(a) \in Seq(Unit)
  BY AskedUnits
<1>2. DOMAIN F!header(a) = 1..RequestSize /\ \A i \in 1..RequestSize : F!header(a)[i] = <<a, i>>
  BY DEF F!header
<1> QED BY <1>1, <1>2, ServerConstants

LEMMA HeadersDiffer == F!header("GET") # F!header("PUT")
<1>1. RequestSize \in 1..RequestSize
  BY ServerConstants
<1>2. F!header("GET")[RequestSize] = <<"GET", RequestSize>>
  BY <1>1, Headers
<1>3. F!header("PUT")[RequestSize] = <<"PUT", RequestSize>>
  BY <1>1, Headers
<1>4. "GET" # "PUT"
  OBVIOUS
<1>5. <<"GET", RequestSize>> # <<"PUT", RequestSize>>
  BY <1>4
<1> QED BY <1>2, <1>3, <1>5

\* The cases of parse().
LEMMA ParseHeader ==
    ASSUME NEW c \in Conn, NEW u \in Unit, c.state = "WAITING", Len(c.request) + 1 < RequestSize
    PROVE  F!parse(c, u) = [c EXCEPT !.request = Append(c.request, u)]
<1>1. Len(Append(c.request, u)) = Len(c.request) + 1
  BY ConnFields
<1>2. Append(c.request, u) # F!header("GET") /\ Append(c.request, u) # F!header("PUT")
  BY <1>1, Headers, ServerConstants
<1>3. c.state # "READING"
  OBVIOUS
<1> QED BY <1>1, <1>2, <1>3 DEF F!parse

LEMMA ParseGet ==
    ASSUME NEW c \in Conn, NEW u \in Unit, c.state = "WAITING",
           Append(c.request, u) = F!header("GET")
    PROVE  F!parse(c, u) = Begin("WRITING", Length.GET)
<1>1. ~(Len(Append(c.request, u)) < RequestSize)
  BY Headers, ServerConstants
<1>2. Append(c.request, u) # F!header("PUT") /\ c.state # "READING"
  BY HeadersDiffer
<1> QED BY <1>1, <1>2 DEF F!parse, Begin

LEMMA ParsePut ==
    ASSUME NEW c \in Conn, NEW u \in Unit, c.state = "WAITING",
           Append(c.request, u) = F!header("PUT")
    PROVE  F!parse(c, u) = Begin("READING", Length.PUT)
<1>1. ~(Len(Append(c.request, u)) < RequestSize)
  BY Headers, ServerConstants
<1> QED BY <1>1, HeadersDiffer DEF F!parse, Begin

LEMMA ParseData ==
    ASSUME NEW c \in Conn, NEW u \in Unit, c.state = "READING"
    PROVE  F!parse(c, u) = [state |-> IF c.bytes_left = 1 THEN "WAITING" ELSE "READING",
                            bytes_left |-> c.bytes_left - 1, request |-> c.request]
<1> DEFINE left == c.bytes_left - 1
           then == IF c.bytes_left = 1 THEN "WAITING" ELSE "READING"
<1>1. F!parse(c, u) = [c EXCEPT !.bytes_left = left, !.state = then]
  BY ConnFields DEF F!parse
<1> HIDE DEF left, then
<1>2. c = [state |-> c.state, bytes_left |-> c.bytes_left, request |-> c.request]
  BY ConnFields
<1> DEFINE e == [c EXCEPT !.bytes_left = left, !.state = then]
<1>3. e = [state |-> then, bytes_left |-> left, request |-> c.request]
  <2>1. /\ DOMAIN e = {"state", "bytes_left", "request"} /\ e.state = then
        /\ e.bytes_left = left /\ e.request = c.request
    BY DEF Conn
  <2>2. e = [f \in DOMAIN e |-> e[f]]
    BY DEF Conn
  <2> HIDE DEF e
  <2> QED BY <2>1, <2>2
<1> QED BY <1>1, <1>3 DEF left, then

LEMMA ParseOther ==
    ASSUME NEW c \in Conn, NEW u \in Unit, c.state # "READING",
           c.state = "WAITING" => /\ ~(Len(c.request) + 1 < RequestSize)
                                  /\ Append(c.request, u) # F!header("GET")
                                  /\ Append(c.request, u) # F!header("PUT")
    PROVE  F!parse(c, u).state = "ERROR" /\ F!parse(c, u) \in Conn
<1>1. Len(Append(c.request, u)) = Len(c.request) + 1
  BY ConnFields
<1>2. F!parse(c, u) = [c EXCEPT !.state = "ERROR", !.request = << >>]
  BY <1>1 DEF F!parse
<1>3. F!parse(c, u) = [state |-> "ERROR", bytes_left |-> c.bytes_left, request |-> << >>]
  BY <1>2, ConnFields
<1> QED BY <1>3, ConnFields DEF Conn

LEMMA ParseType ==
    ASSUME NEW c \in Conn, NEW u \in Unit
    PROVE  F!parse(c, u) \in Conn
<1>1. CASE c.state = "WAITING" /\ Len(c.request) + 1 < RequestSize
  <2>1. Append(c.request, u) \in Seq(Unit)
    BY ConnFields
  <2> QED BY <1>1, <2>1, ParseHeader DEF Conn
<1>2. CASE c.state = "WAITING" /\ Append(c.request, u) = F!header("GET")
  BY <1>2, ParseGet, BeginFields, ServerConstants
<1>3. CASE c.state = "WAITING" /\ Append(c.request, u) = F!header("PUT")
  BY <1>3, ParsePut, BeginFields, ServerConstants
<1>4. CASE c.state = "READING"
  <2>1. F!parse(c, u) = [state |-> IF c.bytes_left = 1 THEN "WAITING" ELSE "READING",
                         bytes_left |-> c.bytes_left - 1, request |-> c.request]
    BY <1>4, ParseData
  <2>2. CASE c.bytes_left = 1
    BY <2>1, <2>2, ConnFields DEF Conn
  <2>3. CASE c.bytes_left # 1
    BY <2>1, <2>3, ConnFields DEF Conn
  <2> QED BY <2>2, <2>3
<1> QED BY <1>1, <1>2, <1>3, <1>4, ParseOther

\* The states of a connection with a good future.
Trail(q, c, p) == Trace(q, c, p) /\ \A i \in 0..Len(p) : Good(q[i], i, p)

LEMMA TrailFields ==
    ASSUME NEW p \in Seq(Unit), NEW c, NEW q, Trail(q, c, p)
    PROVE  /\ Len(p) \in Nat /\ q \in [0..Len(p) -> Conn] /\ q[0] = c /\ c \in Conn
           /\ \A i \in 0..Len(p) : q[i] \in Conn /\ Good(q[i], i, p)
           /\ \A i \in 1..Len(p) : q[i] = F!parse(q[i - 1], p[i])
           /\ Owed(q[Len(p)]) \in Nat
<1>1. /\ Len(p) \in Nat /\ q \in [0..Len(p) -> Conn] /\ q[0] = c
      /\ \A i \in 0..Len(p) : Good(q[i], i, p)
      /\ \A i \in 1..Len(p) : q[i] = F!parse(q[i - 1], p[i])
  BY DEF Trail, Trace
<1>2. \A i \in 0..Len(p) : q[i] \in Conn
  BY <1>1
<1>3. 0 \in 0..Len(p) /\ Len(p) \in 0..Len(p)
  BY <1>1
<1>4. Owed(q[Len(p)]) \in Nat
  <2>1. PICK s \in Conn : s = q[Len(p)] /\ Good(s, Len(p), p)
    BY <1>1, <1>2, <1>3
  <2>2. s.bytes_left \in Int
    BY ConnFields
  <2> QED BY <2>1, <2>2 DEF Owed, Good
<1> QED BY <1>1, <1>2, <1>3, <1>4

\* Nothing has been asked for.
LEMMA FlowIdle ==
    ASSUME NEW c, c = F!new_connection PROVE Flow(c, << >>, 0) /\ c \in Conn
<1> DEFINE q == [i \in 0..0 |-> c]
           p == << >>
<1>1. c \in Conn /\ c.state = "WAITING" /\ c.bytes_left = 0 /\ c.request = << >>
  BY NewConnection, BeginFields
<1>2. Len(p) = 0 /\ 0..Len(p) = 0..0
  OBVIOUS
<1>3. q \in [0..0 -> Conn] /\ q[0] = c
  BY <1>1
<1>4. GetEnd \notin F!Range(<< >>)
  BY DEF F!Range
<1>5. Good(c, 0, p)
  BY <1>1, <1>4, ServerConstants DEF Good
<1>6. Trace(q, c, p)
  <2> HIDE DEF q
  <2> QED BY <1>2, <1>3 DEF Trace
<1>7. Owed(q[0]) = 0
  BY <1>1, <1>3 DEF Owed
<1> HIDE DEF q
<1> QED BY <1>1, <1>2, <1>3, <1>5, <1>6, <1>7 DEF Flow

\* A block is sent.
LEMMA FlowBusy ==
    ASSUME NEW n \in Nat \ {0}, NEW c, c = Begin("WRITING", n)
    PROVE  Flow(c, << >>, n) /\ c \in Conn
<1> DEFINE q == [i \in 0..0 |-> c]
           p == << >>
<1>1. c \in Conn /\ c.state = "WRITING" /\ c.bytes_left = n /\ c.request = << >>
  BY BeginFields
<1>2. Len(p) = 0 /\ 0..Len(p) = 0..0
  OBVIOUS
<1>3. q \in [0..0 -> Conn] /\ q[0] = c
  BY <1>1
<1>4. Good(c, 0, p)
  BY <1>1 DEF Good
<1>5. Trace(q, c, p)
  <2> HIDE DEF q
  <2> QED BY <1>2, <1>3 DEF Trace
<1>6. Owed(q[0]) = n
  BY <1>1, <1>3 DEF Owed
<1> HIDE DEF q
<1> QED BY <1>1, <1>2, <1>3, <1>4, <1>5, <1>6 DEF Flow

\* While a connection writes nothing else is on its way.
LEMMA FlowWriting ==
    ASSUME NEW c, NEW p \in Seq(Unit), NEW w, Flow(c, p, w), c.state = "WRITING"
    PROVE  p = << >> /\ w = c.bytes_left /\ w \in Nat \ {0} /\ c = Begin("WRITING", w)
<1>1. PICK q : Trail(q, c, p) /\ w = Owed(q[Len(p)])
  BY DEF Flow, Trail
<1>2. /\ Len(p) \in Nat /\ q[0] = c /\ c \in Conn /\ Good(c, 0, p)
  <2>1. 0 \in 0..Len(p)
    BY <1>1, TrailFields
  <2> QED BY <1>1, <2>1, TrailFields
<1>3. Len(p) = 0 /\ c.request = << >> /\ c.bytes_left > 0
  BY <1>2 DEF Good
<1>4. w = c.bytes_left
  BY <1>1, <1>2, <1>3 DEF Owed
<1>5. c.bytes_left \in Int /\ c = [state |-> c.state, bytes_left |-> c.bytes_left, request |-> c.request]
  BY <1>2, ConnFields
<1> QED BY <1>3, <1>4, <1>5 DEF Begin

\* A connection with a flow is in order.
LEMMA FlowSane ==
    ASSUME NEW c, NEW p \in Seq(Unit), NEW w, Flow(c, p, w)
    PROVE  /\ c \in Conn /\ w \in Nat /\ c.state \in {"WAITING", "READING", "WRITING"}
           /\ Len(c.request) \in Nat /\ Len(c.request) < RequestSize
           /\ c.state # "WAITING" => c.request = << >>
           /\ GetEnd \notin F!Range(c.request)
<1>1. PICK q : Trail(q, c, p) /\ w = Owed(q[Len(p)])
  BY DEF Flow, Trail
<1>2. /\ Len(p) \in Nat /\ q[0] = c /\ c \in Conn /\ Good(c, 0, p) /\ w \in Nat
  <2>1. 0 \in 0..Len(p)
    BY <1>1, TrailFields
  <2> QED BY <1>1, <2>1, TrailFields
<1>3. Len(c.request) \in Nat
  BY <1>2, ConnFields
<1>4. c.state # "WAITING" => c.request = << >>
  BY <1>2 DEF Good
<1>5. Len(<< >>) = 0 /\ GetEnd \notin F!Range(<< >>)
  BY DEF F!Range
<1> QED BY <1>2, <1>3, <1>4, <1>5, ServerConstants DEF Good

\* A connection that owes nothing is new again when it has got all.
LEMMA FlowRests ==
    ASSUME NEW c, NEW p \in Seq(Unit), NEW q, Trail(q, c, p), Owed(q[Len(p)]) = 0
    PROVE  /\ q[Len(p)] = F!new_connection
           /\ \A i \in 0..Len(p) : q[i].state # "WRITING"
<1>1. PICK s : s = q[Len(p)]
  OBVIOUS
<1>2. Len(p) \in Nat /\ s \in Conn /\ Good(s, Len(p), p)
  <2>1. Len(p) \in 0..Len(p)
    BY TrailFields
  <2> QED BY <1>1, <2>1, TrailFields
<1>3. s.state # "WRITING"
  BY <1>1, <1>2, ConnFields DEF Owed, Good
<1>4. s.state # "READING"
  BY <1>2 DEF Good
<1>5. s.state = "WAITING" /\ s.bytes_left = 0 /\ s.request = << >>
  BY <1>2, <1>3, <1>4 DEF Good
<1>6. s = [state |-> s.state, bytes_left |-> s.bytes_left, request |-> s.request]
  BY <1>2, ConnFields
<1>7. s = F!new_connection
  BY <1>5, <1>6 DEF F!new_connection
<1>8. ASSUME NEW i \in 0..Len(p), q[i].state = "WRITING" PROVE FALSE
  <2>1. i = Len(p)
    BY <1>8, TrailFields DEF Good
  <2> QED BY <1>1, <1>3, <1>8, <2>1
<1> QED BY <1>1, <1>7, <1>8

\* A client asks for more when it has what it asked for.
LEMMA FlowJoins ==
    ASSUME NEW c, NEW p \in Seq(Unit), Flow(c, p, 0),
           NEW m \in Seq(Unit), NEW w, Flow(F!new_connection, m, w)
    PROVE  Flow(c, p \o m, w)
<1>1. PICK q : Trail(q, c, p) /\ Owed(q[Len(p)]) = 0
  BY DEF Flow, Trail
<1>2. PICK r : Trail(r, F!new_connection, m) /\ w = Owed(r[Len(m)])
  BY DEF Flow, Trail
<1> DEFINE N == Len(p)
           M == Len(m)
           pm == p \o m
           t == [i \in 0..(N + M) |-> IF i <= N THEN q[i] ELSE r[i - N]]
<1>3. /\ pm \in Seq(Unit) /\ Len(pm) = N + M /\ N \in Nat /\ M \in Nat
      /\ \A i \in 1..N : pm[i] = p[i]
      /\ \A i \in 1..M : pm[N + i] = m[i]
  OBVIOUS
<1> HIDE DEF pm
<1>4. /\ q[0] = c /\ \A i \in 0..N : q[i] \in Conn /\ Good(q[i], i, p)
      /\ \A i \in 1..N : q[i] = F!parse(q[i - 1], p[i])
  BY <1>1, TrailFields
<1>5. /\ r[0] = F!new_connection /\ \A i \in 0..M : r[i] \in Conn /\ Good(r[i], i, m)
      /\ \A i \in 1..M : r[i] = F!parse(r[i - 1], m[i])
  BY <1>2, TrailFields
<1>6. q[N] = r[0] /\ \A i \in 0..N : q[i].state # "WRITING"
  BY <1>1, <1>5, FlowRests
<1> HIDE DEF N, M
<1>7. \A i \in 0..N : t[i] = q[i]
  BY <1>3
<1>8. \A i \in 0..M : N + i \in 0..(N + M) /\ t[N + i] = r[i]
  <2> TAKE i \in 0..M
  <2>1. N + i \in 0..(N + M)
    BY <1>3
  <2>2. CASE i = 0
    <3>1. N \in 0..N /\ N + i = N
      BY <1>3, <2>2
    <3> QED BY <1>6, <1>7, <2>1, <2>2, <3>1
  <2>3. CASE i # 0
    <3>1. ~(N + i <= N) /\ (N + i) - N = i
      BY <1>3, <2>3
    <3> QED BY <2>1, <3>1
  <2> QED BY <2>1, <2>2, <2>3
<1>9. \A k \in 0..(N + M) : k \in 0..N \/ \E i \in 1..M : k = N + i
  <2> TAKE k \in 0..(N + M)
  <2>1. CASE k <= N
    BY <1>3, <2>1
  <2>2. CASE k > N
    <3>1. k - N \in 1..M /\ k = N + (k - N)
      BY <1>3, <2>2
    <3> QED BY <3>1
  <2> QED BY <1>3, <2>1, <2>2
<1>10. t \in [0..(N + M) -> Conn]
  <2>1. \A k \in 0..(N + M) : t[k] \in Conn
    <3> HIDE DEF t
    <3>1. \A i \in 1..M : i \in 0..M
      BY <1>3
    <3> QED BY <1>4, <1>5, <1>7, <1>8, <1>9, <3>1
  <2>2. t = [k \in 0..(N + M) |-> t[k]]
    OBVIOUS
  <2> HIDE DEF t
  <2> QED BY <2>1, <2>2
<1> HIDE DEF t
<1>11. \A k \in 1..(N + M) : t[k] = F!parse(t[k - 1], pm[k])
  <2> TAKE k \in 1..(N + M)
  <2>1. CASE k \in 1..N
    <3>1. k - 1 \in 0..N /\ k \in 0..N
      BY <1>3, <2>1
    <3> QED BY <1>3, <1>4, <1>7, <2>1, <3>1
  <2>2. CASE k \notin 1..N
    <3>1. PICK i \in 1..M : k = N + i
      <4>1. k \in 0..(N + M) /\ k \notin 0..N
        BY <1>3, <2>2
      <4> QED BY <1>9, <4>1
    <3>2. i - 1 \in 0..M /\ i \in 0..M /\ k - 1 = N + (i - 1)
      BY <1>3, <3>1
    <3> QED BY <1>3, <1>5, <1>8, <3>1, <3>2
  <2> QED BY <2>1, <2>2
<1>12. \A k \in 0..(N + M) : Good(t[k], k, pm)
  <2>1. ASSUME NEW k \in 0..N, k # N PROVE Good(t[k], k, pm)
    <3>1. Good(q[k], k, p) /\ q[k].state # "WRITING" /\ t[k] = q[k]
      BY <1>4, <1>6, <1>7
    <3>2. k < N + M /\ k + 1 \in 1..N /\ pm[k + 1] = p[k + 1]
      BY <1>3, <2>1
    <3> QED BY <1>3, <3>1, <3>2 DEF Good
  <2>2. ASSUME NEW i \in 0..M PROVE Good(t[N + i], N + i, pm)
    <3>1. Good(r[i], i, m) /\ t[N + i] = r[i]
      BY <1>5, <1>8
    <3>2. i < M => i + 1 \in 1..M /\ N + i < N + M /\ N + i + 1 = N + (i + 1)
      BY <1>3
    <3>3. i < M => pm[N + i + 1] = m[i + 1] /\ N + i < N + M
      BY <1>3, <3>2
    <3>4. Len(m) = M
      BY DEF M
    <3> QED BY <1>3, <3>1, <3>3, <3>4 DEF Good
  <2>3. Good(t[N], N, pm)
    <3>1. 0 \in 0..M /\ N + 0 = N
      BY <1>3
    <3> QED BY <2>2, <3>1
  <2>4. \A i \in 1..M : i \in 0..M
    BY <1>3
  <2> QED BY <1>9, <2>1, <2>2, <2>3, <2>4
<1>13. Trace(t, c, pm)
  <2>1. t[0] = c
    BY <1>3, <1>4, <1>7
  <2> QED BY <1>3, <1>10, <1>11, <2>1 DEF Trace
<1>14. w = Owed(t[Len(pm)])
  <2>1. M \in 0..M
    BY <1>3
  <2> QED BY <1>2, <1>3, <1>8, <2>1 DEF M
<1> QED BY <1>3, <1>12, <1>13, <1>14 DEF Flow, pm

LEMMA Joined ==
    ASSUME NEW s \in Seq(Unit), NEW t \in Seq(Unit)
    PROVE  /\ s \o t \in Seq(Unit) /\ Len(s \o t) = Len(s) + Len(t)
           /\ \A i \in 1..Len(s) : (s \o t)[i] = s[i]
           /\ \A i \in 1..Len(t) : (s \o t)[Len(s) + i] = t[i]
  OBVIOUS

\* A connection that has got a part of a header.
Part(a, i) == [state |-> "WAITING", bytes_left |-> 0, request |-> [k \in 1..i |-> <<a, k>>]]

LEMMA Parts ==
    ASSUME NEW a \in {"GET", "PUT"}, NEW i \in 0..(RequestSize - 1)
    PROVE  /\ Part(a, i) \in Conn /\ Part(a, i).state = "WAITING" /\ Part(a, i).bytes_left = 0
           /\ Len(Part(a, i).request) = i
           /\ GetEnd \notin F!Range(Part(a, i).request)
           /\ Append(Part(a, i).request, <<a, i + 1>>) = [k \in 1..(i + 1) |-> <<a, k>>]
<1> DEFINE r == [k \in 1..i |-> <<a, k>>]
<1>0. RequestSize \in Nat /\ i \in Nat
  BY ServerConstants
<1>1. r \in Seq(Unit) /\ Len(r) = i
  <2>1. \A k \in 1..i : <<a, k>> \in Unit
    BY <1>0 DEF Unit
  <2> QED BY <1>0, <2>1
<1>2. GetEnd \notin F!Range(r)
  <2> SUFFICES ASSUME NEW k \in 1..i, GetEnd = <<a, k>> PROVE FALSE
    BY DEF F!Range
  <2>1. k = RequestSize
    BY DEF GetEnd
  <2> QED BY <1>0, <2>1
<1>3. Append(r, <<a, i + 1>>) = [k \in 1..(i + 1) |-> <<a, k>>]
  <2> DEFINE s == Append(r, <<a, i + 1>>)
             u == [k \in 1..(i + 1) |-> <<a, k>>]
  <2>1. DOMAIN s = 1..(i + 1) /\ \A k \in 1..i : s[k] = r[k]
    BY <1>0, <1>1
  <2>2. s[i + 1] = <<a, i + 1>>
    BY <1>0, <1>1
  <2>3. \A k \in 1..(i + 1) : s[k] = u[k]
    BY <1>0, <2>1, <2>2
  <2>4. s \in Seq(Unit \union {<<a, i + 1>>})
    BY <1>1
  <2>5. s = [k \in 1..(i + 1) |-> s[k]]
    BY <2>1, <2>4
  <2>6. u = [k \in 1..(i + 1) |-> u[k]]
    OBVIOUS
  <2>7. s = u
    <3> HIDE DEF s, r, u
    <3> QED BY <2>3, <2>5, <2>6
  <2> QED BY <2>7
<1>4. Part(a, i).request = r /\ Part(a, i).state = "WAITING" /\ Part(a, i).bytes_left = 0
  BY DEF Part
<1>5. Part(a, i) \in Conn
  <2> HIDE DEF r
  <2>1. Part(a, i) = [state |-> "WAITING", bytes_left |-> 0, request |-> r]
    BY DEF Part, r
  <2> QED BY <1>1, <2>1 DEF Conn
<1> HIDE DEF r
<1> QED BY <1>1, <1>2, <1>3, <1>4, <1>5

\* The units of a header, one after the other.
LEMMA PartParsed ==
    ASSUME NEW a \in {"GET", "PUT"}, NEW i \in 0..(RequestSize - 1)
    PROVE  F!parse(Part(a, i), <<a, i + 1>>) =
             IF i + 1 < RequestSize THEN Part(a, i + 1)
             ELSE IF a = "GET" THEN Begin("WRITING", Length.GET)
             ELSE Begin("READING", Length.PUT)
<1>0. RequestSize \in Nat /\ i \in Nat
  BY ServerConstants
<1> DEFINE c == Part(a, i)
           u == <<a, i + 1>>
<1>1. /\ c \in Conn /\ c.state = "WAITING" /\ Len(c.request) = i
      /\ Append(c.request, u) = [k \in 1..(i + 1) |-> <<a, k>>]
      /\ c = [state |-> "WAITING", bytes_left |-> 0, request |-> c.request]
  BY Parts DEF Part
<1>2. u \in Unit
  BY <1>0 DEF Unit
<1>3. CASE i + 1 < RequestSize
  <2> HIDE DEF c, u
  <2>1. F!parse(c, u) = [c EXCEPT !.request = Append(c.request, u)]
    BY <1>1, <1>2, <1>3, ParseHeader
  <2>2. F!parse(c, u) = [state |-> "WAITING", bytes_left |-> 0, request |-> Append(c.request, u)]
    <3> DEFINE r == Append(c.request, u)
               e == [c EXCEPT !.request = r]
    <3> HIDE DEF r
    <3>1. /\ DOMAIN e = {"state", "bytes_left", "request"} /\ e.state = c.state
          /\ e.bytes_left = c.bytes_left /\ e.request = r
      BY <1>1 DEF Conn
    <3>2. e = [f \in DOMAIN e |-> e[f]]
      BY <1>1 DEF Conn
    <3>3. c.state = "WAITING" /\ c.bytes_left = 0
      BY <1>1
    <3>4. F!parse(c, u) = e
      BY <2>1 DEF r
    <3> HIDE DEF e
    <3>5. e = [state |-> "WAITING", bytes_left |-> 0, request |-> r]
      BY <3>1, <3>2, <3>3
    <3> QED BY <3>4, <3>5 DEF r
  <2>3. F!parse(c, u) = Part(a, i + 1)
    BY <1>1, <2>2 DEF Part
  <2> QED BY <1>3, <2>3 DEF c, u
<1>4. CASE ~(i + 1 < RequestSize)
  <2>1. i + 1 = RequestSize
    BY <1>0, <1>4
  <2>2. Append(c.request, u) = F!header(a)
    BY <1>1, <2>1 DEF F!header
  <2> HIDE DEF c, u
  <2>3. a = "GET" => F!parse(c, u) = Begin("WRITING", Length.GET)
    BY <1>1, <1>2, <2>2, ParseGet
  <2>4. a = "PUT" => F!parse(c, u) = Begin("READING", Length.PUT)
    BY <1>1, <1>2, <2>2, ParsePut
  <2> QED BY <1>4, <2>3, <2>4 DEF c, u
<1> QED BY <1>3, <1>4

LEMMA PartNone == \A a : Part(a, 0) = F!new_connection
<1> TAKE a
<1>1. [k \in 1..0 |-> <<a, k>>] = << >>
  OBVIOUS
<1> QED BY <1>1 DEF Part, F!new_connection

\* A request to get a block.
LEMMA FlowGet == Flow(F!new_connection, Asked("GET"), Length.GET)
<1> DEFINE p == F!header("GET")
           N == RequestSize
           last == Begin("WRITING", Length.GET)
           q == [i \in 0..N |-> IF i < N THEN Part("GET", i) ELSE last]
<1>0. N \in Nat \ {0} /\ Length.GET \in Nat \ {0}
  BY ServerConstants
<1>1. Asked("GET") = p
  <2>1. Asked("GET") = p \o << >>
    BY DEF Asked
  <2>2. p \in Seq(Unit)
    BY Headers
  <2> HIDE DEF p
  <2> QED BY <2>1, <2>2
<1>2. p \in Seq(Unit) /\ Len(p) = N /\ \A i \in 1..N : p[i] = <<"GET", i>>
  BY Headers
<1> HIDE DEF p, N
<1>3. last \in Conn /\ last.state = "WRITING" /\ last.bytes_left = Length.GET /\ last.request = << >>
  BY <1>0, BeginFields
<1> HIDE DEF last
<1>4. \A i \in 0..(N - 1) : Part("GET", i) \in Conn
  BY Parts DEF N
<1>5. /\ \A i \in 0..(N - 1) : q[i] = Part("GET", i)
      /\ q[N] = last
  BY <1>0
<1>6. q \in [0..N -> Conn]
  BY <1>0, <1>3, <1>4
<1> HIDE DEF q
<1>7. q[0] = F!new_connection
  BY <1>0, <1>5, PartNone
<1>8. \A i \in 1..N : q[i] = F!parse(q[i - 1], p[i])
  <2> TAKE i \in 1..N
  <2>1. i - 1 \in 0..(N - 1) /\ (i - 1) + 1 = i
    BY <1>0
  <2>2. F!parse(Part("GET", i - 1), <<"GET", i>>) = IF i < N THEN Part("GET", i) ELSE last
    BY <2>1, PartParsed DEF N, last
  <2>3. q[i - 1] = Part("GET", i - 1) /\ p[i] = <<"GET", i>>
    BY <1>2, <1>5, <2>1
  <2>4. q[i] = IF i < N THEN Part("GET", i) ELSE last
    BY <1>0, <1>5
  <2> QED BY <2>2, <2>3, <2>4
<1>9. \A i \in 0..N : Good(q[i], i, p)
  <2>1. ASSUME NEW i \in 0..(N - 1) PROVE Good(q[i], i, p)
    <3>1. q[i] = Part("GET", i) /\ i < N
      BY <1>0, <1>5
    <3>2. /\ q[i].state = "WAITING" /\ q[i].bytes_left = 0 /\ Len(q[i].request) < RequestSize
          /\ GetEnd \notin F!Range(q[i].request)
      BY <3>1, Parts DEF N
    <3> QED BY <1>2, <3>1, <3>2 DEF Good
  <2>2. Good(q[N], N, p)
    BY <1>0, <1>2, <1>3, <1>5 DEF Good
  <2> QED BY <1>0, <2>1, <2>2
<1>10. Trace(q, F!new_connection, p)
  BY <1>2, <1>6, <1>7, <1>8 DEF Trace
<1>11. Owed(q[Len(p)]) = Length.GET
  BY <1>2, <1>3, <1>5 DEF Owed
<1> QED BY <1>1, <1>2, <1>9, <1>10, <1>11 DEF Flow

\* A request to put a block, with the block.
LEMMA FlowPut == Flow(F!new_connection, Asked("PUT"), 0)
<1> DEFINE h == F!header("PUT")
           b == [i \in 1..Length.PUT |-> F!Data]
           p == h \o b
           N == RequestSize
           M == Length.PUT
           L == N + M
           last == Begin("WAITING", 0)
           q == [i \in 0..L |-> IF i < N THEN Part("PUT", i)
                                ELSE IF i < L THEN Begin("READING", L - i) ELSE last]
<1>0. N \in Nat \ {0} /\ M \in Nat \ {0} /\ L \in Nat /\ L = N + M
  BY ServerConstants
<1>1. Asked("PUT") = p
  BY DEF Asked
<1>2. h \in Seq(Unit) /\ Len(h) = N /\ \A i \in 1..N : h[i] = <<"PUT", i>>
  BY Headers
<1>3. b \in Seq(Unit) /\ Len(b) = M /\ \A i \in 1..M : b[i] = F!Data
  BY <1>0 DEF Unit
<1> HIDE DEF h, b, N, M, L
<1>4. /\ p \in Seq(Unit) /\ Len(p) = L
      /\ \A i \in 1..N : p[i] = <<"PUT", i>>
      /\ \A i \in (N + 1)..L : p[i] = F!Data
  <2>1. p \in Seq(Unit) /\ Len(p) = L /\ \A i \in 1..N : p[i] = h[i]
    <3>1. p \in Seq(Unit) /\ Len(p) = Len(h) + Len(b) /\ \A i \in 1..Len(h) : p[i] = h[i]
      BY <1>2, <1>3, Joined
    <3> HIDE DEF p
    <3> QED BY <1>0, <1>2, <1>3, <3>1
  <2>2. ASSUME NEW i \in (N + 1)..L PROVE p[i] = F!Data
    <3>1. i - N \in 1..M /\ i = N + (i - N) /\ ~(i <= N)
      BY <1>0
    <3>2. p[i] = b[i - N]
      BY <1>0, <1>2, <1>3, <3>1
    <3> QED BY <1>3, <3>1, <3>2
  <2> QED BY <1>2, <2>1, <2>2
<1> HIDE DEF p
<1>5. last \in Conn /\ last.state = "WAITING" /\ last.bytes_left = 0 /\ last.request = << >>
      /\ last = F!new_connection
  BY BeginFields, NewConnection
<1> HIDE DEF last
<1>6. \A i \in 0..(N - 1) : Part("PUT", i) \in Conn
  BY Parts DEF N
<1>7. /\ \A i \in 0..(N - 1) : q[i] = Part("PUT", i)
      /\ \A i \in N..(L - 1) : q[i] = Begin("READING", L - i)
      /\ q[L] = last
  BY <1>0
<1>8. \A i \in N..(L - 1) : /\ L - i \in Nat \ {0} /\ Begin("READING", L - i) \in Conn
                            /\ Begin("READING", L - i).state = "READING"
                            /\ Begin("READING", L - i).bytes_left = L - i
                            /\ Begin("READING", L - i).request = << >>
  <2> TAKE i \in N..(L - 1)
  <2>1. L - i \in Nat \ {0} /\ L - i \in Int
    BY <1>0
  <2> QED BY <2>1, BeginFields
<1>9. \A i \in 0..L : i \in 0..(N - 1) \/ i \in N..(L - 1) \/ i = L
  BY <1>0
<1>10. q \in [0..L -> Conn]
  <2>1. \A i \in 0..L : q[i] \in Conn
    <3> HIDE DEF q
    <3> QED BY <1>5, <1>6, <1>7, <1>8, <1>9
  <2>2. q = [i \in 0..L |-> q[i]]
    OBVIOUS
  <2> HIDE DEF q
  <2> QED BY <2>1, <2>2
<1> HIDE DEF q
<1>11. q[0] = F!new_connection
  BY <1>0, <1>7, PartNone
<1>12. \A i \in 1..L : q[i] = F!parse(q[i - 1], p[i])
  <2> TAKE i \in 1..L
  <2>1. CASE i <= N
    <3>1. i - 1 \in 0..(N - 1) /\ (i - 1) + 1 = i /\ i \in 1..N
      BY <1>0, <2>1
    <3>2. F!parse(Part("PUT", i - 1), <<"PUT", i>>)
            = IF i < N THEN Part("PUT", i) ELSE Begin("READING", M)
      BY <3>1, PartParsed DEF N, M
    <3>3. q[i - 1] = Part("PUT", i - 1) /\ p[i] = <<"PUT", i>>
      BY <1>4, <1>7, <3>1
    <3>4. q[i] = IF i < N THEN Part("PUT", i) ELSE Begin("READING", M)
      <4>1. CASE i < N
        BY <1>0, <1>7, <4>1
      <4>2. CASE ~(i < N)
        <5>1. i = N /\ i \in N..(L - 1) /\ L - i = M
          BY <1>0, <2>1, <4>2
        <5> QED BY <1>7, <4>2, <5>1
      <4> QED BY <4>1, <4>2
    <3> QED BY <3>2, <3>3, <3>4
  <2>2. CASE i > N
    <3>1. i - 1 \in N..(L - 1) /\ i \in (N + 1)..L /\ L - (i - 1) = L - i + 1
      BY <1>0, <2>2
    <3> DEFINE c == Begin("READING", L - (i - 1))
    <3>2. /\ q[i - 1] = c /\ c \in Conn /\ c.state = "READING"
          /\ c.bytes_left = L - i + 1 /\ c.request = << >> /\ p[i] = F!Data
      BY <1>4, <1>7, <1>8, <3>1
    <3>3. F!Data \in Unit
      BY DEF Unit
    <3> HIDE DEF c
    <3>4. F!parse(c, F!Data) = [state |-> IF c.bytes_left = 1 THEN "WAITING" ELSE "READING",
                                bytes_left |-> c.bytes_left - 1, request |-> c.request]
      BY <3>2, <3>3, ParseData
    <3>5. CASE i = L
      <4>1. c.bytes_left = 1 /\ c.bytes_left - 1 = 0
        BY <1>0, <3>2, <3>5
      <4>2. F!parse(c, F!Data) = last
        BY <3>2, <3>4, <4>1 DEF last, Begin
      <4> QED BY <1>7, <3>2, <3>5, <4>2
    <3>6. CASE i # L
      <4>1. c.bytes_left # 1 /\ c.bytes_left - 1 = L - i /\ i \in N..(L - 1)
        BY <1>0, <2>2, <3>2, <3>6
      <4>2. F!parse(c, F!Data) = Begin("READING", L - i)
        BY <3>2, <3>4, <4>1 DEF Begin
      <4> QED BY <1>7, <3>2, <4>1, <4>2
    <3> QED BY <3>5, <3>6
  <2> QED BY <1>0, <2>1, <2>2
<1>13. \A i \in 0..L : Good(q[i], i, p)
  <2>1. ASSUME NEW i \in 0..(N - 1) PROVE Good(q[i], i, p)
    <3>1. q[i] = Part("PUT", i) /\ i < L
      BY <1>0, <1>7
    <3>2. /\ q[i].state = "WAITING" /\ q[i].bytes_left = 0 /\ Len(q[i].request) < RequestSize
          /\ GetEnd \notin F!Range(q[i].request)
      <4>1. Len(Part("PUT", i).request) = i
        BY Parts DEF N
      <4>2. i < RequestSize
        BY <1>0 DEF N
      <4> QED BY <3>1, <4>1, <4>2, Parts DEF N
    <3> QED BY <1>4, <3>1, <3>2 DEF Good
  <2>2. ASSUME NEW i \in N..(L - 1) PROVE Good(q[i], i, p)
    <3>1. /\ q[i].state = "READING" /\ q[i].bytes_left = L - i /\ q[i].request = << >>
          /\ L - i \in Nat \ {0}
      BY <1>7, <1>8
    <3>2. i < L /\ i + 1 \in (N + 1)..L
      BY <1>0
    <3>3. p[i + 1] = F!Data
      BY <1>4, <3>2
    <3>4. q[i].bytes_left > 0
      BY <3>1
    <3> QED BY <1>4, <3>1, <3>2, <3>3, <3>4 DEF Good
  <2>3. Good(q[L], L, p)
    <3>1. GetEnd \notin F!Range(<< >>) /\ Len(<< >>) = 0
      BY DEF F!Range
    <3> QED BY <1>0, <1>4, <1>5, <1>7, <3>1, ServerConstants DEF Good
  <2> QED BY <1>9, <2>1, <2>2, <2>3
<1>14. Trace(q, F!new_connection, p)
  BY <1>4, <1>10, <1>11, <1>12 DEF Trace
<1>15. Owed(q[Len(p)]) = 0
  BY <1>4, <1>5, <1>7 DEF Owed
<1> QED BY <1>1, <1>4, <1>13, <1>14, <1>15 DEF Flow

LEMMA RangeJoined ==
    ASSUME NEW s \in Seq(Unit), NEW t \in Seq(Unit)
    PROVE  F!Range(s \o t) = F!Range(s) \union F!Range(t)
<1> DEFINE e == s \o t
<1>1. /\ DOMAIN e = 1..(Len(s) + Len(t)) /\ DOMAIN s = 1..Len(s) /\ DOMAIN t = 1..Len(t)
      /\ Len(s) \in Nat /\ Len(t) \in Nat
      /\ \A i \in 1..Len(s) : e[i] = s[i]
      /\ \A i \in 1..Len(t) : e[Len(s) + i] = t[i]
  OBVIOUS
<1> HIDE DEF e
<1>2. ASSUME NEW i \in 1..(Len(s) + Len(t)) PROVE e[i] \in F!Range(s) \union F!Range(t)
  <2>1. CASE i <= Len(s)
    BY <1>1, <2>1 DEF F!Range
  <2>2. CASE i > Len(s)
    <3>1. i - Len(s) \in 1..Len(t) /\ i = Len(s) + (i - Len(s))
      BY <1>1, <2>2
    <3>2. e[i] = t[i - Len(s)]
      BY <1>1, <3>1
    <3> QED BY <1>1, <3>1, <3>2 DEF F!Range
  <2> QED BY <1>1, <2>1, <2>2
<1>3. ASSUME NEW i \in 1..Len(s) PROVE s[i] \in F!Range(e)
  <2>1. i \in 1..(Len(s) + Len(t))
    BY <1>1
  <2> QED BY <1>1, <2>1 DEF F!Range
<1>4. ASSUME NEW i \in 1..Len(t) PROVE t[i] \in F!Range(e)
  <2>1. Len(s) + i \in 1..(Len(s) + Len(t))
    BY <1>1
  <2> QED BY <1>1, <2>1 DEF F!Range
<1>5. F!Range(e) = F!Range(s) \union F!Range(t)
  BY <1>1, <1>2, <1>3, <1>4 DEF F!Range
<1> QED BY <1>5 DEF e

\* Runs(f, c, b): f is how the units of b are parsed.
Runs(f, c, b) == f = [n \in 0..Len(b) |-> IF n = 0 THEN c ELSE F!parse(f[n - 1], b[n])]

\* What the units of b make of c is where any way to parse them ends.
LEMMA ParsedAll ==
    ASSUME NEW c, NEW b \in Seq(Unit), NEW t, DOMAIN t = 0..Len(b),
           t = [n \in 0..Len(b) |-> t[n]], t[0] = c,
           \A n \in 1..Len(b) : t[n] = F!parse(t[n - 1], b[n])
    PROVE  F!parse_all(c, b) = t[Len(b)]
<1> DEFINE N == Len(b)
<1>0. N \in Nat
  OBVIOUS
<1>1. Runs(t, c, b)
  <2>1. \A n \in 0..N : t[n] = IF n = 0 THEN c ELSE F!parse(t[n - 1], b[n])
    BY <1>0
  <2> QED BY <2>1 DEF Runs
<1>2. PICK f : f = (CHOOSE g : Runs(g, c, b)) /\ F!parse_all(c, b) = f[N]
  BY DEF F!parse_all, Runs
<1>3. Runs(f, c, b)
  BY <1>1, <1>2
<1> HIDE DEF N
<1>4. \A n \in 0..N : f[n] = IF n = 0 THEN c ELSE F!parse(f[n - 1], b[n])
  BY <1>3 DEF Runs, N
<1> DEFINE E == {n \in 0..N : f[n] = t[n]}
<1>5. 0 \in E
  BY <1>0, <1>4
<1>6. ASSUME NEW k \in 0..N, k # N, k \in E PROVE k + 1 \in E
  <2>1. k + 1 \in 1..N /\ k + 1 \in 0..N /\ k + 1 # 0 /\ (k + 1) - 1 = k
    BY <1>0, <1>6
  <2>2. f[k + 1] = F!parse(f[k], b[k + 1])
    BY <1>4, <2>1
  <2>3. t[k + 1] = F!parse(t[k], b[k + 1])
    BY <2>1 DEF N
  <2> QED BY <1>6, <2>1, <2>2, <2>3
<1>7. 0..N \subseteq E
  <2> HIDE DEF E
  <2> QED BY <1>0, <1>5, <1>6, UpTo
<1>8. N \in 0..N
  BY <1>0
<1> QED BY <1>2, <1>7, <1>8 DEF N

\* A connection with a part of its header.
Pre(c, i) == [state |-> c.state, bytes_left |-> c.bytes_left, request |-> SubSeq(c.request, 1, i)]

LEMMA Pres ==
    ASSUME NEW c \in Conn
    PROVE  /\ \A i \in 0..Len(c.request) : Pre(c, i) \in Conn
           /\ Pre(c, 0) = [c EXCEPT !.request = << >>]
           /\ Pre(c, Len(c.request)) = c
           /\ c.state = "WAITING" /\ Len(c.request) < RequestSize =>
                \A i \in 1..Len(c.request) :
                    F!parse(Pre(c, i - 1), c.request[i]) = Pre(c, i)
<1> DEFINE r == c.request
           m == Len(c.request)
<1>1. /\ r \in Seq(Unit) /\ m \in Nat /\ Len(r) = m
      /\ c.bytes_left \in Int /\ c.state \in {"WAITING", "READING", "WRITING", "ERROR", "DONE"}
      /\ c = [state |-> c.state, bytes_left |-> c.bytes_left, request |-> r]
  BY ConnFields
<1>2. \A i \in 0..m : SubSeq(r, 1, i) \in Seq(Unit) /\ Len(SubSeq(r, 1, i)) = i
  BY <1>1
<1>3. SubSeq(r, 1, 0) = << >> /\ SubSeq(r, 1, m) = r
  BY <1>1
<1>4. ASSUME NEW i \in 0..m PROVE Pre(c, i) \in Conn
  <2>1. PICK s \in Seq(Unit) : s = SubSeq(r, 1, i)
    BY <1>2
  <2>2. Pre(c, i) = [state |-> c.state, bytes_left |-> c.bytes_left, request |-> s]
    BY <2>1 DEF Pre
  <2> QED BY <1>1, <2>2 DEF Conn
<1>5. Pre(c, 0) = [c EXCEPT !.request = << >>]
  <2> DEFINE e == [c EXCEPT !.request = << >>]
  <2>1. /\ DOMAIN e = {"state", "bytes_left", "request"} /\ e.state = c.state
        /\ e.bytes_left = c.bytes_left /\ e.request = << >>
    BY DEF Conn
  <2>2. e = [f \in DOMAIN e |-> e[f]]
    BY DEF Conn
  <2>3. Pre(c, 0) = [state |-> c.state, bytes_left |-> c.bytes_left, request |-> << >>]
    BY <1>3 DEF Pre
  <2> HIDE DEF e
  <2>4. e = [state |-> c.state, bytes_left |-> c.bytes_left, request |-> << >>]
    BY <2>1, <2>2
  <2> QED BY <2>3, <2>4 DEF e
<1>6. Pre(c, m) = c
  <2>1. Pre(c, m) = [state |-> c.state, bytes_left |-> c.bytes_left, request |-> r]
    BY <1>3 DEF Pre
  <2> QED BY <1>1, <2>1
<1>7. ASSUME c.state = "WAITING", m < RequestSize, NEW i \in 1..m
      PROVE  F!parse(Pre(c, i - 1), r[i]) = Pre(c, i)
  <2>0. i - 1 \in 0..m /\ i \in 0..m /\ (i - 1) + 1 = i /\ i < RequestSize
    BY <1>1, <1>7, ServerConstants
  <2>1. PICK d : d = Pre(c, i - 1)
    OBVIOUS
  <2>2. /\ d \in Conn /\ d.state = c.state /\ d.bytes_left = c.bytes_left
        /\ d.request = SubSeq(r, 1, i - 1)
    BY <1>4, <2>0, <2>1 DEF Pre
  <2>3. Len(d.request) = i - 1 /\ r[i] \in Unit
    BY <1>1, <1>2, <2>0, <2>2
  <2>4. Append(d.request, r[i]) = SubSeq(r, 1, i)
    BY <1>1, <2>0, <2>2
  <2>5. F!parse(d, r[i]) = [d EXCEPT !.request = Append(d.request, r[i])]
    <3>1. PICK v \in Unit : v = r[i]
      BY <2>3
    <3>2. d \in Conn /\ d.state = "WAITING" /\ Len(d.request) + 1 < RequestSize
      BY <1>7, <2>0, <2>2, <2>3
    <3>3. F!parse(d, v) = [d EXCEPT !.request = Append(d.request, v)]
      BY <3>2, ParseHeader
    <3> QED BY <3>1, <3>3
  <2> DEFINE s == SubSeq(r, 1, i)
             e == [d EXCEPT !.request = s]
  <2>6. F!parse(d, r[i]) = e
    BY <2>4, <2>5
  <2> HIDE DEF s
  <2>7. /\ DOMAIN e = {"state", "bytes_left", "request"} /\ e.state = d.state
        /\ e.bytes_left = d.bytes_left /\ e.request = s
    BY <2>2 DEF Conn
  <2>8. e = [f \in DOMAIN e |-> e[f]]
    BY <2>2 DEF Conn
  <2> HIDE DEF e
  <2>9. e = [state |-> c.state, bytes_left |-> c.bytes_left, request |-> s]
    BY <2>2, <2>7, <2>8
  <2> QED BY <2>1, <2>6, <2>9 DEF Pre, s
<1> QED BY <1>4, <1>5, <1>6, <1>7

\* The worker receives some units, after what was left over: it makes the same of them,
\* however they are cut up.
LEMMA FlowTakes ==
    ASSUME NEW c, NEW p \in Seq(Unit), NEW w, Flow(c, p, w), NEW n \in 1..Len(p),
           NEW b, b = c.request \o SubSeq(p, 1, n),
           NEW s, s = F!parse_all([c EXCEPT !.request = << >>], b)
    PROVE  Flow(s, SubSeq(p, n + 1, Len(p)), w)
<1>1. PICK q : Trail(q, c, p) /\ w = Owed(q[Len(p)])
  BY DEF Flow, Trail
<1> DEFINE L == Len(p)
           m == Len(c.request)
           u == SubSeq(p, 1, n)
           rest == SubSeq(p, n + 1, L)
<1>2. /\ L \in Nat /\ q[0] = c /\ c \in Conn /\ n \in 1..L
      /\ \A i \in 0..L : q[i] \in Conn /\ Good(q[i], i, p)
      /\ \A i \in 1..L : q[i] = F!parse(q[i - 1], p[i])
  BY <1>1, TrailFields
<1>3. /\ m \in Nat /\ m < RequestSize /\ c.request \in Seq(Unit)
      /\ c.state # "WAITING" => m = 0
  BY FlowSane, ConnFields
<1>4. /\ u \in Seq(Unit) /\ Len(u) = n /\ \A i \in 1..n : u[i] = p[i]
      /\ rest \in Seq(Unit) /\ Len(rest) = L - n
      /\ \A i \in 1..(L - n) : rest[i] = p[n + i]
  <2>1. n \in Nat /\ n <= L /\ L \in Nat /\ n >= 1
    BY <1>2
  <2>2. u \in Seq(Unit) /\ Len(u) = n /\ \A i \in 1..n : u[i] = p[i]
    BY <2>1
  <2>3. rest \in Seq(Unit) /\ Len(rest) = L - n
    BY <2>1
  <2>4. \A i \in 1..(L - n) : rest[i] = p[n + i]
    BY <2>1
  <2> QED BY <2>2, <2>3, <2>4
<1> HIDE DEF u, rest, L
<1>5. /\ b \in Seq(Unit) /\ Len(b) = m + n
      /\ \A i \in 1..m : b[i] = c.request[i]
      /\ \A i \in 1..n : b[m + i] = p[i]
  <2>1. b = c.request \o u
    BY DEF u
  <2>2. /\ b \in Seq(Unit) /\ Len(b) = m + Len(u)
        /\ \A i \in 1..m : b[i] = c.request[i]
        /\ \A i \in 1..Len(u) : b[m + i] = u[i]
    <3>1. PICK a \in Seq(Unit) : a = c.request
      BY <1>3
    <3>2. b = a \o u /\ Len(a) = m
      BY <2>1, <3>1
    <3>3. /\ b \in Seq(Unit) /\ Len(b) = Len(a) + Len(u)
          /\ \A i \in 1..Len(a) : b[i] = a[i]
          /\ \A i \in 1..Len(u) : b[Len(a) + i] = u[i]
      <4>1. u \in Seq(Unit)
        BY <1>4
      <4>2. /\ a \o u \in Seq(Unit) /\ Len(a \o u) = Len(a) + Len(u)
            /\ \A i \in 1..Len(a) : (a \o u)[i] = a[i]
            /\ \A i \in 1..Len(u) : (a \o u)[Len(a) + i] = u[i]
        BY <4>1, Joined
      <4> QED BY <3>2, <4>2, Zenon
    <3> QED BY <3>1, <3>2, <3>3
  <2> QED BY <1>4, <2>2
<1> HIDE DEF m
<1> DEFINE t == [i \in 0..(m + n) |-> IF i < m THEN Pre(c, i) ELSE q[i - m]]
<1>6. n \in Nat /\ 1 <= n /\ n <= L /\ L \in Nat /\ m \in Nat
  BY <1>2, <1>3
<1>7. /\ \A i \in 0..m : i < m => t[i] = Pre(c, i)
      /\ \A i \in 0..n : m + i \in 0..(m + n) /\ t[m + i] = q[i]
  <2>1. \A i \in 0..m : i < m => t[i] = Pre(c, i)
    BY <1>3, <1>6
  <2>2. ASSUME NEW i \in 0..n PROVE m + i \in 0..(m + n) /\ t[m + i] = q[i]
    <3>1. m + i \in 0..(m + n) /\ ~(m + i < m) /\ (m + i) - m = i
      BY <1>3, <1>6
    <3> QED BY <3>1
  <2> QED BY <2>1, <2>2
<1>8. DOMAIN t = 0..(m + n) /\ t = [i \in 0..(m + n) |-> t[i]]
  OBVIOUS
<1> HIDE DEF t
<1>9. \A i \in 0..m : t[i] = Pre(c, i)
  <2>1. t[m] = q[0]
    <3>1. m + 0 = m /\ 0 \in 0..n
      BY <1>3, <1>6
    <3> QED BY <1>7, <3>1
  <2>2. Pre(c, m) = c
    BY <1>2, Pres DEF m
  <2> QED BY <1>2, <1>3, <1>7, <2>1, <2>2
<1>10. t[0] = [c EXCEPT !.request = << >>]
  <2>1. 0 \in 0..m
    BY <1>3
  <2> QED BY <1>2, <1>9, <2>1, Pres
<1>11. \A k \in 1..(m + n) : t[k] = F!parse(t[k - 1], b[k])
  <2> TAKE k \in 1..(m + n)
  <2>1. CASE k <= m
    <3>1. k - 1 \in 0..m /\ k \in 0..m /\ k \in 1..m /\ m # 0
      BY <1>3, <1>6, <2>1
    <3>2. c.state = "WAITING"
      BY <1>3, <3>1
    <3>3. F!parse(Pre(c, k - 1), c.request[k]) = Pre(c, k)
      BY <1>2, <1>3, <3>1, <3>2, Pres DEF m
    <3> QED BY <1>5, <1>9, <3>1, <3>3
  <2>2. CASE k > m
    <3>1. PICK i \in 1..n : k = m + i
      <4>1. k - m \in 1..n /\ k = m + (k - m)
        BY <1>3, <1>6, <2>2
      <4> QED BY <4>1
    <3>2. i - 1 \in 0..n /\ i \in 0..n /\ k - 1 = m + (i - 1) /\ i \in 1..L
      BY <1>6, <3>1
    <3>3. t[k] = q[i] /\ t[k - 1] = q[i - 1] /\ b[k] = p[i]
      BY <1>5, <1>7, <3>1, <3>2
    <3> QED BY <1>2, <3>2, <3>3
  <2>3. k <= m \/ k > m
    BY <1>6
  <2> QED BY <2>1, <2>2, <2>3
<1>12. s = q[n]
  <2> DEFINE d == [c EXCEPT !.request = << >>]
  <2>1. t[0] = d /\ s = F!parse_all(d, b)
    BY <1>10
  <2> HIDE DEF d
  <2>2. F!parse_all(d, b) = t[Len(b)]
    BY <1>5, <1>8, <1>11, <2>1, ParsedAll
  <2>3. t[m + n] = q[n]
    <3>1. n \in 0..n
      BY <1>6
    <3> QED BY <1>7, <3>1
  <2> QED BY <1>5, <2>1, <2>2, <2>3
<1> DEFINE r == [i \in 0..(L - n) |-> q[n + i]]
<1>13. \A i \in 0..(L - n) : n + i \in 0..L
  BY <1>2, <1>6
<1>14. r \in [0..(L - n) -> Conn] /\ \A i \in 0..(L - n) : r[i] = q[n + i]
  BY <1>2, <1>13
<1> HIDE DEF r
<1>15. \A i \in 1..(L - n) : r[i] = F!parse(r[i - 1], rest[i])
  <2> TAKE i \in 1..(L - n)
  <2>1. /\ i \in 0..(L - n) /\ i - 1 \in 0..(L - n) /\ n + i \in 1..L
        /\ (n + i) - 1 = n + (i - 1)
    BY <1>6
  <2>2. r[i] = q[n + i] /\ r[i - 1] = q[(n + i) - 1] /\ rest[i] = p[n + i]
    BY <1>4, <1>14, <2>1
  <2> QED BY <1>2, <2>1, <2>2
<1>16. \A i \in 0..(L - n) : Good(r[i], i, rest)
  <2> TAKE i \in 0..(L - n)
  <2>1. r[i] = q[n + i] /\ Good(r[i], n + i, p)
    BY <1>2, <1>13, <1>14
  <2>2. /\ (n + i = L <=> i = L - n) /\ (n + i < L <=> i < L - n)
        /\ i < L - n => i + 1 \in 1..(L - n) /\ n + (i + 1) = n + i + 1
    BY <1>6
  <2>3. i < L - n => rest[i + 1] = p[n + i + 1]
    BY <1>4, <2>2
  <2>4. Len(p) = L
    BY DEF L
  <2> QED BY <1>4, <2>1, <2>2, <2>3, <2>4 DEF Good
<1>17. Trace(r, s, rest)
  <2>1. r[0] = s
    <3>1. 0 \in 0..(L - n) /\ n + 0 = n
      BY <1>2, <1>6
    <3> QED BY <1>12, <1>14, <3>1
  <2> QED BY <1>4, <1>14, <1>15, <2>1 DEF Trace
<1>18. w = Owed(r[Len(rest)])
  <2>1. L - n \in 0..(L - n) /\ n + (L - n) = L
    BY <1>2, <1>6
  <2>2. r[L - n] = q[L]
    BY <1>14, <2>1
  <2> QED BY <1>1, <1>4, <2>2 DEF L
<1>19. Flow(s, rest, w)
  BY <1>4, <1>16, <1>17, <1>18 DEF Flow
<1> QED BY <1>19 DEF rest, L

\* What a connection that does not write will owe is decided by what is on its way.
LEMMA FlowOwes ==
    ASSUME NEW c, NEW p \in Seq(Unit), NEW w, Flow(c, p, w), c.state # "WRITING"
    PROVE  w = IF GetEnd \in F!Range(p) THEN Length.GET ELSE 0
<1>1. PICK q : Trail(q, c, p) /\ w = Owed(q[Len(p)])
  BY DEF Flow, Trail
<1> DEFINE L == Len(p)
<1>2. /\ L \in Nat /\ q[0] = c /\ c \in Conn
      /\ \A i \in 0..L : q[i] \in Conn /\ Good(q[i], i, p)
      /\ \A i \in 1..L : q[i] = F!parse(q[i - 1], p[i])
  BY <1>1, TrailFields
<1>3. \A i \in 1..L : p[i] \in Unit
  OBVIOUS
<1>4. F!Range(p) = {p[i] : i \in 1..L}
  BY DEF F!Range
<1>5. RequestSize \in Nat \ {0} /\ Length.GET \in Nat \ {0} /\ Length.PUT \in Nat \ {0}
  BY ServerConstants
<1> HIDE DEF L
<1>6. ASSUME NEW i \in 1..L, p[i] = GetEnd PROVE q[L] = Begin("WRITING", Length.GET)
  <2>1. i - 1 \in 0..L /\ i \in 0..L /\ i - 1 # L /\ (i - 1) + 1 = i
    BY <1>2
  <2>2. PICK s \in Conn : s = q[i - 1] /\ Good(s, i - 1, p)
    BY <1>2, <2>1
  <2>3. PICK t \in Conn : t = q[i] /\ Good(t, i, p) /\ t = F!parse(s, GetEnd)
    BY <1>2, <1>6, <2>1, <2>2
  <2>4. s.state # "WRITING"
    BY <2>1, <2>2 DEF Good, L
  <2>5. s.state # "READING"
    <3>1. GetEnd # F!Data
      BY DEF GetEnd, F!Data
    <3> QED BY <1>6, <2>1, <2>2, <3>1 DEF Good
  <2>6. s.state = "WAITING" /\ s.request \in Seq(Unit)
    BY <2>2, <2>4, <2>5, ConnFields DEF Good
  <2>7. PICK u \in Unit : u = GetEnd
    BY <1>3, <1>6
  <2>8. CASE Len(s.request) + 1 < RequestSize
    <3>1. F!parse(s, u) = [s EXCEPT !.request = Append(s.request, u)]
      BY <2>6, <2>8, ParseHeader
    <3>2. t.request = Append(s.request, u) /\ t.state = "WAITING"
      BY <2>3, <2>6, <2>7, <3>1 DEF Conn
    <3>3. GetEnd \in F!Range(Append(s.request, u))
      <4>1. /\ Len(s.request) + 1 \in DOMAIN Append(s.request, u)
            /\ Append(s.request, u)[Len(s.request) + 1] = u
        BY <2>6
      <4> QED BY <2>7, <4>1 DEF F!Range
    <3> QED BY <2>3, <3>2, <3>3 DEF Good
  <2>9. CASE ~(Len(s.request) + 1 < RequestSize)
    <3>1. Append(s.request, u) # F!header("PUT")
      <4>1. /\ Len(Append(s.request, u)) = Len(s.request) + 1
            /\ Append(s.request, u)[Len(s.request) + 1] = u
        BY <2>6
      <4>2. /\ Len(F!header("PUT")) = RequestSize
            /\ F!header("PUT")[RequestSize] = <<"PUT", RequestSize>>
        BY <1>5, Headers
      <4>3. GetEnd # <<"PUT", RequestSize>>
        <5>1. "GET" # "PUT"
          OBVIOUS
        <5> QED BY <5>1 DEF GetEnd
      <4> QED BY <2>7, <4>1, <4>2, <4>3
    <3>2. Append(s.request, u) = F!header("GET")
      <4> SUFFICES ASSUME Append(s.request, u) # F!header("GET") PROVE FALSE
        OBVIOUS
      <4>1. F!parse(s, u).state = "ERROR"
        BY <2>6, <2>9, <3>1, ParseOther
      <4> QED BY <2>3, <2>7, <4>1 DEF Good
    <3>3. t = Begin("WRITING", Length.GET)
      BY <2>3, <2>6, <2>7, <3>2, ParseGet
    <3>4. t.state = "WRITING"
      BY <1>5, <3>3, BeginFields
    <3>5. i = L
      BY <2>3, <3>4 DEF Good, L
    <3> QED BY <2>3, <3>3, <3>5
  <2> QED BY <2>8, <2>9
<1>7. ASSUME q[L].state = "WRITING"
      PROVE  q[L] = Begin("WRITING", Length.GET) /\ \E i \in 1..L : p[i] = GetEnd
  <2>1. L # 0 /\ L \in 1..L /\ L - 1 \in 0..L /\ L - 1 # L /\ (L - 1) + 1 = L
    BY <1>2, <1>7
  <2>2. PICK s \in Conn : s = q[L - 1] /\ Good(s, L - 1, p)
    BY <1>2, <2>1
  <2>3. PICK u \in Unit : u = p[L]
    BY <1>3, <2>1
  <2>4. q[L] = F!parse(s, u)
    BY <1>2, <2>1, <2>2, <2>3
  <2>5. s.state # "WRITING"
    BY <2>1, <2>2 DEF Good, L
  <2>6. s.state # "READING"
    <3> SUFFICES ASSUME s.state = "READING" PROVE FALSE
      OBVIOUS
    <3>1. F!parse(s, u).state = IF s.bytes_left = 1 THEN "WAITING" ELSE "READING"
      BY ParseData
    <3> QED BY <1>7, <2>4, <3>1
  <2>7. s.state = "WAITING" /\ s.request \in Seq(Unit)
    BY <2>2, <2>5, <2>6, ConnFields DEF Good
  <2>8. ~(Len(s.request) + 1 < RequestSize)
    <3> SUFFICES ASSUME Len(s.request) + 1 < RequestSize PROVE FALSE
      OBVIOUS
    <3>1. F!parse(s, u) = [s EXCEPT !.request = Append(s.request, u)]
      BY <2>7, ParseHeader
    <3>2. F!parse(s, u).state = "WAITING"
      BY <2>7, <3>1 DEF Conn
    <3> QED BY <1>7, <2>4, <3>2
  <2>9. Append(s.request, u) # F!header("PUT")
    <3> SUFFICES ASSUME Append(s.request, u) = F!header("PUT") PROVE FALSE
      OBVIOUS
    <3>1. F!parse(s, u) = Begin("READING", Length.PUT)
      BY <2>7, ParsePut
    <3>2. F!parse(s, u).state = "READING"
      BY <1>5, <3>1, BeginFields
    <3> QED BY <1>7, <2>4, <3>2
  <2>10. Append(s.request, u) = F!header("GET")
    <3> SUFFICES ASSUME Append(s.request, u) # F!header("GET") PROVE FALSE
      OBVIOUS
    <3>1. F!parse(s, u).state = "ERROR"
      BY <2>7, <2>8, <2>9, ParseOther
    <3> QED BY <1>7, <2>4, <3>1
  <2>11. q[L] = Begin("WRITING", Length.GET)
    BY <2>4, <2>7, <2>10, ParseGet
  <2>12. u = GetEnd
    <3>1. /\ Len(Append(s.request, u)) = Len(s.request) + 1
          /\ Append(s.request, u)[Len(s.request) + 1] = u
      BY <2>7
    <3>2. /\ Len(F!header("GET")) = RequestSize
          /\ F!header("GET")[RequestSize] = <<"GET", RequestSize>>
      BY <1>5, Headers
    <3> QED BY <2>10, <3>1, <3>2 DEF GetEnd
  <2> QED BY <2>1, <2>3, <2>11, <2>12
<1>8. w = Owed(q[L])
  BY <1>1 DEF L
<1>9. CASE q[L].state = "WRITING"
  <2>1. GetEnd \in F!Range(p)
    BY <1>4, <1>7, <1>9
  <2>2. w = Length.GET
    BY <1>5, <1>7, <1>8, <1>9, BeginFields DEF Owed
  <2> QED BY <2>1, <2>2
<1>10. CASE q[L].state # "WRITING"
  <2>1. GetEnd \notin F!Range(p)
    <3> SUFFICES ASSUME GetEnd \in F!Range(p) PROVE FALSE
      OBVIOUS
    <3>1. q[L] = Begin("WRITING", Length.GET)
      BY <1>4, <1>6
    <3>2. q[L].state = "WRITING"
      BY <1>5, <3>1, BeginFields
    <3> QED BY <1>10, <3>2
  <2> QED BY <1>8, <1>10, <2>1 DEF Owed
<1> QED BY <1>9, <1>10

-----------------------------------------------------------------------------
(* The server of network generators: its connections and their clients.    *)

Connection(cn, x) == IF x \in DOMAIN cn THEN cn[x] ELSE F!new_connection

\* A client has sent u and not v yet; d of what it wants is on the way to it.
Stream(c, u, v, d, w) ==
    /\ u \in Seq(Unit) /\ v \in Seq(Unit) /\ d \in 0..SendRoom /\ w \in Int
    /\ Flow(c, u \o v, w - d)

\* A client that has not been accepted has sent nothing.
Idle(u, d, cl) == u = << >> /\ cl.unsent = << >> /\ d = 0 /\ cl.want = 0

\* The invariant of connections with clients, who are told apart from those that have
\* left: what is between them is a stream.
StreamInv ==
    /\ DOMAIN up = ServerFds /\ DOMAIN down = ServerFds
    /\ \A x \in ServerFds : client[x].state = "backlog" => Idle(up[x], down[x], client[x])
    /\ \A x \in accepted : client[x].state = "open" =>
         Stream(Connection(conns, x), up[x], client[x].unsent, down[x], client[x].want)

LEMMA JoinedNothing ==
    ASSUME NEW s \in Seq(Unit)
    PROVE  s \o << >> = s /\ << >> \o s = s
  OBVIOUS

\* The first units of a stream are taken from it.
LEMMA JoinedTaken ==
    ASSUME NEW u \in Seq(Unit), NEW v \in Seq(Unit), NEW n \in 1..Len(u)
    PROVE  /\ SubSeq(u \o v, 1, n) = SubSeq(u, 1, n)
           /\ SubSeq(u, n + 1, Len(u)) \in Seq(Unit)
           /\ SubSeq(u \o v, n + 1, Len(u \o v)) = SubSeq(u, n + 1, Len(u)) \o v
           /\ n \in 1..Len(u \o v) /\ u \o v \in Seq(Unit)
<1> DEFINE p == u \o v
           a == SubSeq(u, n + 1, Len(u))
<1>1. /\ p \in Seq(Unit) /\ Len(p) = Len(u) + Len(v) /\ Len(u) \in Nat /\ Len(v) \in Nat
      /\ \A i \in 1..Len(u) : p[i] = u[i]
      /\ \A i \in 1..Len(v) : p[Len(u) + i] = v[i]
  BY Joined
<1>2. n \in Nat /\ 1 <= n /\ n <= Len(u)
  OBVIOUS
<1> HIDE DEF p
<1>3. SubSeq(p, 1, n) = SubSeq(u, 1, n)
  <2>1. /\ SubSeq(p, 1, n) \in Seq(Unit) /\ Len(SubSeq(p, 1, n)) = n
        /\ \A i \in 1..n : SubSeq(p, 1, n)[i] = p[i]
    BY <1>1, <1>2
  <2>2. /\ SubSeq(u, 1, n) \in Seq(Unit) /\ Len(SubSeq(u, 1, n)) = n
        /\ \A i \in 1..n : SubSeq(u, 1, n)[i] = u[i]
    BY <1>2
  <2>3. \A i \in 1..n : SubSeq(p, 1, n)[i] = SubSeq(u, 1, n)[i]
    BY <1>1, <1>2, <2>1, <2>2
  <2> QED BY <2>1, <2>2, <2>3
<1>4. /\ a \in Seq(Unit) /\ Len(a) = Len(u) - n
      /\ \A i \in 1..(Len(u) - n) : a[i] = u[n + i]
  BY <1>2
<1> HIDE DEF a
<1>5. SubSeq(p, n + 1, Len(p)) = a \o v
  <2> DEFINE b == SubSeq(p, n + 1, Len(p))
             e == a \o v
  <2>1. /\ b \in Seq(Unit) /\ Len(b) = Len(p) - n
        /\ \A i \in 1..(Len(p) - n) : b[i] = p[n + i]
    BY <1>1, <1>2
  <2>2. /\ e \in Seq(Unit) /\ Len(e) = Len(a) + Len(v)
        /\ \A i \in 1..Len(a) : e[i] = a[i]
        /\ \A i \in 1..Len(v) : e[Len(a) + i] = v[i]
    BY <1>4, Joined
  <2> HIDE DEF b, e
  <2>3. Len(b) = Len(e) /\ Len(e) \in Nat
    BY <1>1, <1>2, <1>4, <2>1, <2>2
  <2>4. ASSUME NEW i \in 1..Len(e) PROVE b[i] = e[i]
    <3>1. CASE i <= Len(a)
      <4>1. i \in 1..Len(a) /\ i \in 1..(Len(p) - n) /\ n + i \in 1..Len(u) /\ i \in 1..(Len(u) - n)
        BY <1>1, <1>2, <1>4, <2>2, <3>1
      <4> QED BY <1>1, <1>4, <2>1, <2>2, <4>1
    <3>2. CASE i > Len(a)
      <4>1. PICK k \in 1..Len(v) : i = Len(a) + k
        <5>1. i - Len(a) \in 1..Len(v) /\ i = Len(a) + (i - Len(a))
          BY <1>1, <1>2, <1>4, <2>2, <3>2
        <5> QED BY <5>1
      <4>2. i \in 1..(Len(p) - n) /\ n + i = Len(u) + k
        BY <1>1, <1>2, <1>4, <2>2, <4>1
      <4> QED BY <1>1, <2>1, <2>2, <4>1, <4>2
    <3> QED BY <1>2, <1>4, <2>3, <3>1, <3>2
  <2>5. b = e
    BY <2>1, <2>2, <2>3, <2>4
  <2> QED BY <2>5 DEF b, e
<1>6. n \in 1..Len(p)
  BY <1>1, <1>2
<1> QED BY <1>1, <1>3, <1>4, <1>5, <1>6 DEF p, a

\* The client sends a part of what it has to send.
LEMMA JoinedSent ==
    ASSUME NEW u \in Seq(Unit), NEW v \in Seq(Unit), NEW n \in 1..Len(v)
    PROVE  /\ u \o SubSeq(v, 1, n) \in Seq(Unit) /\ SubSeq(v, n + 1, Len(v)) \in Seq(Unit)
           /\ (u \o SubSeq(v, 1, n)) \o SubSeq(v, n + 1, Len(v)) = u \o v
<1> DEFINE a == SubSeq(v, 1, n)
           b == SubSeq(v, n + 1, Len(v))
<1>1. n \in Nat /\ 1 <= n /\ n <= Len(v) /\ Len(v) \in Nat /\ Len(u) \in Nat
  OBVIOUS
<1>2. a \in Seq(Unit) /\ Len(a) = n /\ \A i \in 1..n : a[i] = v[i]
  BY <1>1
<1>3. b \in Seq(Unit) /\ Len(b) = Len(v) - n /\ \A i \in 1..(Len(v) - n) : b[i] = v[n + i]
  BY <1>1
<1> HIDE DEF a, b
<1>4. a \o b = v
  <2> DEFINE e == a \o b
  <2>1. /\ e \in Seq(Unit) /\ Len(e) = Len(a) + Len(b)
        /\ \A i \in 1..Len(a) : e[i] = a[i]
        /\ \A i \in 1..Len(b) : e[Len(a) + i] = b[i]
    BY <1>2, <1>3, Joined
  <2> HIDE DEF e
  <2>2. Len(e) = Len(v)
    BY <1>1, <1>2, <1>3, <2>1
  <2>3. ASSUME NEW i \in 1..Len(v) PROVE e[i] = v[i]
    <3>1. CASE i <= n
      BY <1>1, <1>2, <2>1, <3>1
    <3>2. CASE i > n
      <4>1. PICK k \in 1..(Len(v) - n) : i = n + k
        <5>1. i - n \in 1..(Len(v) - n) /\ i = n + (i - n)
          BY <1>1, <3>2
        <5> QED BY <5>1
      <4> QED BY <1>2, <1>3, <2>1, <4>1
    <3> QED BY <1>1, <3>1, <3>2
  <2>4. e = v
    BY <2>1, <2>2, <2>3
  <2> QED BY <2>4 DEF e
<1>5. (u \o a) \o b = u \o (a \o b) /\ u \o a \in Seq(Unit)
  BY <1>2, <1>3
<1> QED BY <1>2, <1>3, <1>4, <1>5 DEF a, b

\* Only the connection of x has changed.
LEMMA StreamFrame ==
    ASSUME WorkerInv, StreamInv, WorkerInv', NEW x,
           DOMAIN up' = ServerFds, DOMAIN down' = ServerFds,
           \A y \in ServerFds : y # x => up'[y] = up[y] /\ down'[y] = down[y]
                                         /\ client'[y] = client[y],
           \A y \in accepted' : y # x => y \in accepted
                                         /\ Connection(conns', y) = Connection(conns, y),
           x \in ServerFds /\ client'[x].state = "backlog" => Idle(up'[x], down'[x], client'[x]),
           x \in accepted' /\ client'[x].state = "open" =>
             Stream(Connection(conns', x), up'[x], client'[x].unsent, down'[x], client'[x].want)
    PROVE  StreamInv'
<1>1. accepted \subseteq ServerFds /\ accepted' \subseteq ServerFds
  <2>1. accepted' \subseteq ServerFds
    <3>1. F!Range(accepting') \subseteq ServerFds
      BY SentDescriptors, Zenon DEF WorkerInv
    <3> QED BY <3>1 DEF WorkerInv, Opened, Sound
  <2> QED BY <2>1, AcceptedDescriptors
<1>2. ASSUME NEW y \in ServerFds, client'[y].state = "backlog"
      PROVE  Idle(up'[y], down'[y], client'[y])
  <2>1. CASE y = x
    BY <1>2, <2>1
  <2>2. CASE y # x
    BY <1>2, <2>2 DEF StreamInv
  <2> QED BY <2>1, <2>2
<1>3. ASSUME NEW y \in accepted', client'[y].state = "open"
      PROVE  Stream(Connection(conns', y), up'[y], client'[y].unsent, down'[y], client'[y].want)
  <2>1. CASE y = x
    BY <1>3, <2>1
  <2>2. CASE y # x
    <3>1. /\ y \in accepted /\ y \in ServerFds /\ Connection(conns', y) = Connection(conns, y)
          /\ up'[y] = up[y] /\ down'[y] = down[y] /\ client'[y] = client[y]
      BY <1>1, <1>3, <2>2
    <3>2. Stream(Connection(conns, y), up[y], client[y].unsent, down[y], client[y].want)
      BY <1>3, <3>1 DEF StreamInv
    <3> QED BY <3>1, <3>2
  <2> QED BY <2>1, <2>2
<1> QED BY <1>2, <1>3 DEF StreamInv

\* No stream has changed.
LEMMA StreamsSame ==
    ASSUME WorkerInv, StreamInv, WorkerInv', UNCHANGED <<up, down, client>>,
           \A y \in accepted' : y \in accepted /\ Connection(conns', y) = Connection(conns, y)
    PROVE  StreamInv'
<1>1. PICK x : x = 0
  OBVIOUS
<1>2. x \notin ServerFds
  BY <1>1, ServerConstants
<1>3. x \notin accepted'
  <2>1. F!Range(accepting') \subseteq ServerFds
    BY SentDescriptors, Zenon DEF WorkerInv
  <2>2. accepted' \subseteq ServerFds
    BY <2>1 DEF WorkerInv, Opened, Sound
  <2> QED BY <1>2, <2>2
<1>4. DOMAIN up' = ServerFds /\ DOMAIN down' = ServerFds
  BY DEF StreamInv
<1> QED BY <1>2, <1>3, <1>4, StreamFrame

\* A connection that writes sends what there is room for.
LEMMA WriteStreams ==
    ASSUME NEW x \in ServerFds, client[x].state = "open", NEW c, NEW u, NEW v, NEW w, NEW d,
           d = down[x], Stream(c, u, v, d, w), NEW r, r = F!do_write(x, c)
    PROVE  Stream(r.conn, u, v, d + r.sent, w)
<1>0. /\ u \in Seq(Unit) /\ v \in Seq(Unit) /\ d \in 0..SendRoom /\ w \in Int
      /\ Flow(c, u \o v, w - d) /\ u \o v \in Seq(Unit) /\ SendRoom \in Nat
  BY ServerConstants DEF Stream
<1> DEFINE reading == F!op_event_loop_update_fd(wloop, x, F!tcp_connection_reading_state)
           writing == F!op_event_loop_update_fd(wloop, x, F!tcp_connection_writing_state)
<1>1. r = F!send(x, c, reading)
  BY DEF F!do_write
<1> HIDE DEF reading
<1>2. CASE c.state # "WRITING"
  <2>1. r = [conn |-> c, sent |-> 0, loop |-> wloop, error |-> FALSE]
    BY <1>1, <1>2, Zenon DEF F!send
  <2>2. r.conn = c /\ r.sent = 0 /\ d + 0 = d
    BY <1>0, <2>1
  <2> QED BY <2>2
<1>3. CASE c.state = "WRITING"
  <2>1. PICK k \in Nat \ {0} : u \o v = << >> /\ k = w - d /\ k = c.bytes_left /\ c = Begin("WRITING", k)
    BY <1>0, <1>3, FlowWriting
  <2> DEFINE n == F!Min({SendRoom - d, k})
             rest == [c EXCEPT !.bytes_left = @ - n]
  <2>2. /\ r.sent = n
        /\ IF rest.bytes_left > 0 THEN r.conn = rest ELSE r.conn = [rest EXCEPT !.state = "WAITING"]
    <3>1. IF rest.bytes_left > 0
          THEN r = [conn |-> rest, sent |-> n, loop |-> writing, error |-> FALSE]
          ELSE r = [conn |-> [rest EXCEPT !.state = "WAITING"], sent |-> n, loop |-> reading,
                    error |-> FALSE]
      <4>1. client[x].state # "closed"
        OBVIOUS
      <4> QED BY <1>1, <1>3, <2>1, <4>1, Zenon DEF F!send
    <3> HIDE DEF n, rest, writing
    <3> QED BY <3>1
  <2>3. n \in 0..k /\ n <= SendRoom - d
    <3> DEFINE few == {SendRoom - d, k}
    <3>1. \E y \in few : \A z \in few : y <= z
      BY <1>0
    <3>2. n \in few /\ \A z \in few : n <= z
      <4> HIDE DEF few
      <4>1. n = F!Min(few)
        BY DEF few
      <4> QED BY <3>1, <4>1 DEF F!Min
    <3> HIDE DEF n
    <3> QED BY <1>0, <3>2
  <2> HIDE DEF n
  <2>4. rest = Begin("WRITING", k - n) /\ rest.bytes_left = k - n
    BY <2>1 DEF Begin
  <2>5. d + n \in 0..SendRoom /\ w - (d + n) = k - n
    BY <1>0, <2>1, <2>3
  <2>6. CASE rest.bytes_left > 0
    <3>1. k - n \in Nat \ {0}
      BY <2>3, <2>4, <2>6
    <3>2. Flow(Begin("WRITING", k - n), << >>, k - n)
      BY <3>1, FlowBusy
    <3>3. r.conn = Begin("WRITING", k - n) /\ r.sent = n
      BY <2>2, <2>4, <2>6
    <3> QED BY <1>0, <2>1, <2>5, <3>2, <3>3 DEF Stream
  <2>7. CASE ~(rest.bytes_left > 0)
    <3>1. k - n = 0
      BY <2>3, <2>4, <2>7
    <3>2. [rest EXCEPT !.state = "WAITING"] = F!new_connection
      <4>1. rest = [state |-> "WRITING", bytes_left |-> 0, request |-> << >>]
        BY <2>4, <3>1 DEF Begin
      <4> HIDE DEF rest
      <4> QED BY <4>1 DEF F!new_connection
    <3>3. Flow(F!new_connection, << >>, 0)
      BY FlowIdle
    <3>4. r.conn = F!new_connection /\ r.sent = n
      BY <2>2, <2>7, <3>2
    <3> QED BY <1>0, <2>1, <2>5, <3>1, <3>3, <3>4 DEF Stream
  <2> QED BY <2>6, <2>7
<1> QED BY <1>2, <1>3

\* How many units fit into the buffer.
Fits(c, u) == F!Min({RecvBuffer - Len(c.request), Len(u)})

\* What the worker makes of n units.
Taken(s, n, u, v, d, w) ==
    /\ n = 0 => SubSeq(u, n + 1, Len(u)) = u
    /\ n # 0 => Stream(s, SubSeq(u, n + 1, Len(u)), v, d, w) /\ s.state # "ERROR"

\* The worker receives what fits into its buffer.
LEMMA ReadStreams ==
    ASSUME NEW c, NEW u, NEW v, NEW d, NEW w, Stream(c, u, v, d, w),
           NEW n, n = Fits(c, u),
           NEW b, b = F!received(c, SubSeq(u, 1, n)),
           NEW s, s = F!parse_all([c EXCEPT !.request = << >>], b)
    PROVE  Taken(s, n, u, v, d, w)
<1>0. /\ u \in Seq(Unit) /\ v \in Seq(Unit) /\ d \in 0..SendRoom /\ w \in Int
      /\ Flow(c, u \o v, w - d) /\ u \o v \in Seq(Unit) /\ Len(u) \in Nat
  BY DEF Stream
<1>1. Len(c.request) \in Nat /\ Len(c.request) < RequestSize /\ RequestSize < RecvBuffer
      /\ RequestSize \in Nat /\ RecvBuffer \in Nat
  BY <1>0, FlowSane, ServerConstants
<1>2. n \in 0..Len(u) /\ (n = 0 => Len(u) = 0)
  <2> DEFINE k == RecvBuffer - Len(c.request)
             few == {k, Len(u)}
  <2>1. k \in Nat \ {0}
    BY <1>1
  <2> HIDE DEF k
  <2>2. \E y \in few : \A z \in few : y <= z
    BY <1>0, <2>1
  <2>3. n \in few /\ \A z \in few : n <= z
    <3>1. n = F!Min(few)
      BY DEF few, k, Fits
    <3> HIDE DEF few
    <3> QED BY <2>2, <3>1 DEF F!Min
  <2> QED BY <1>0, <2>1, <2>3
<1>3. n = 0 => SubSeq(u, n + 1, Len(u)) = u
  <2>1. SubSeq(u, 1, Len(u)) = u
    BY <1>0
  <2>2. n = 0 => n + 1 = 1
    OBVIOUS
  <2> QED BY <2>1, <2>2
<1>4. ASSUME n # 0
      PROVE  Stream(s, SubSeq(u, n + 1, Len(u)), v, d, w) /\ s.state # "ERROR"
  <2>1. n \in 1..Len(u)
    BY <1>0, <1>2, <1>4
  <2> DEFINE p == u \o v
             a == SubSeq(u, n + 1, Len(u))
  <2>2. /\ SubSeq(p, 1, n) = SubSeq(u, 1, n) /\ a \in Seq(Unit)
        /\ SubSeq(p, n + 1, Len(p)) = a \o v /\ n \in 1..Len(p) /\ p \in Seq(Unit)
    BY <1>0, <2>1, JoinedTaken
  <2>3. b = c.request \o SubSeq(p, 1, n)
    BY <2>2 DEF F!received
  <2>4. Flow(c, p, w - d)
    BY <1>0
  <2> HIDE DEF p, a
  <2>5. Flow(s, SubSeq(p, n + 1, Len(p)), w - d)
    BY <2>2, <2>3, <2>4, FlowTakes
  <2>6. Flow(s, a \o v, w - d) /\ a \o v \in Seq(Unit)
    <3>1. a \o v \in Seq(Unit)
      BY <1>0, <2>2, Joined
    <3> QED BY <2>2, <2>5, <3>1, Zenon
  <2>7. s.state # "ERROR"
    BY <2>6, FlowSane
  <2>8. Stream(s, a, v, d, w)
    BY <1>0, <2>2, <2>6 DEF Stream
  <2> QED BY <2>7, <2>8 DEF a
<1> QED BY <1>3, <1>4 DEF Taken

\* The worker writes for a connection whose client has sent u.
LEMMA WriteKeeps ==
    ASSUME WorkerInv, StreamInv, WorkerInv', NEW x \in DOMAIN conns, x \in ServerFds, NEW c,
           F!write(x, c), UNCHANGED <<accepted, client>>,
           DOMAIN up' = ServerFds, \A y \in ServerFds : y # x => up'[y] = up[y],
           client[x].state = "open" =>
             Stream(c, up'[x], client[x].unsent, down[x], client[x].want)
    PROVE  StreamInv'
<1>1. PICK r : r = F!do_write(x, c)
  OBVIOUS
<1>2. /\ conns' = [conns EXCEPT ![x] = r.conn]
      /\ down' = [down EXCEPT ![x] = @ + r.sent]
  BY <1>1, Zenon DEF F!write
<1>3. /\ DOMAIN down' = ServerFds /\ down'[x] = down[x] + r.sent
      /\ \A y \in ServerFds : y # x => down'[y] = down[y]
  BY <1>2 DEF StreamInv
<1>4. /\ Connection(conns', x) = r.conn
      /\ \A y : y # x => Connection(conns', y) = Connection(conns, y)
  BY <1>2 DEF Connection
<1>5. client[x].state # "backlog"
  BY DEF WorkerInv, Opened
<1>6. client[x].state = "open" =>
        Stream(Connection(conns', x), up'[x], client'[x].unsent, down'[x], client'[x].want)
  <2> SUFFICES ASSUME client[x].state = "open"
               PROVE  Stream(Connection(conns', x), up'[x], client[x].unsent, down'[x], client[x].want)
    OBVIOUS
  <2> DEFINE u == up'[x]
             v == client[x].unsent
             w == client[x].want
             d == down[x]
  <2>1. Stream(c, u, v, d, w) /\ d = down[x]
    OBVIOUS
  <2> HIDE DEF u, v, w, d
  <2>2. Stream(r.conn, u, v, d + r.sent, w)
    BY <1>1, <2>1, WriteStreams
  <2> QED BY <1>3, <1>4, <2>2 DEF u, v, w, d
<1> QED BY <1>3, <1>4, <1>5, <1>6, StreamFrame

\* A connection that is handled belongs to a client that was accepted.
LEMMA HandledConnection ==
    ASSUME WorkerInv, NEW x \in ServerFds, x \in DOMAIN wbatch
    PROVE  x \in DOMAIN conns /\ x \in accepted
<1>1. x \in DOMAIN wloop.events /\ x \notin Own
  BY OwnSockets DEF WorkerInv, Sound
<1> QED BY <1>1 DEF WorkerInv, Opened

LEMMA RecvKeeps ==
    ASSUME WorkerInv, StreamInv, WorkerInv', NEW x \in ServerFds, F!recv(x)
    PROVE  StreamInv'
<1>1. wat = [pc |-> "read", fd |-> x] /\ UNCHANGED <<accepted, client>>
  BY Zenon DEF F!recv
<1>2. x \in DOMAIN conns /\ x \in accepted
  <2>1. wat.pc = "read" /\ wat.fd = x
    BY <1>1
  <2>2. x \in DOMAIN wbatch
    BY <2>1 DEF WorkerInv, Phase
  <2> QED BY <2>2, HandledConnection
<1>3. PICK c : c = conns[x]
  OBVIOUS
<1>4. PICK n : n = F!Min({RecvBuffer - Len(c.request), Len(up[x])})
  OBVIOUS
<1>5. PICK b : b = F!received(c, SubSeq(up[x], 1, n))
  OBVIOUS
<1>6. PICK s : s = F!parse_all([c EXCEPT !.request = << >>], b)
  OBVIOUS
<1>7. up' = [up EXCEPT ![x] = SubSeq(@, n + 1, Len(@))]
  BY <1>3, <1>4, Zenon DEF F!recv
<1>8. \/ /\ n = 0 /\ down' = down
         /\ conns' = [conns EXCEPT ![x] =
                        IF client[x].state = "closed" THEN [c EXCEPT !.state = "DONE"] ELSE c]
      \/ n # 0 /\ s.state = "ERROR" /\ down' = down /\ conns' = [conns EXCEPT ![x] = s]
      \/ n # 0 /\ s.state # "ERROR" /\ down' = down /\ conns' = [conns EXCEPT ![x] = s]
      \/ n # 0 /\ s.state # "ERROR" /\ F!write(x, s)
  BY <1>3, <1>4, <1>5, <1>6, Zenon DEF F!recv
<1>9. /\ DOMAIN up' = ServerFds /\ up'[x] = SubSeq(up[x], n + 1, Len(up[x]))
      /\ \A y \in ServerFds : y # x => up'[y] = up[y]
  BY <1>7 DEF StreamInv
<1> DEFINE u == up[x]
           v == client[x].unsent
           d == down[x]
           w == client[x].want
<1>10. client[x].state = "open" => Stream(c, u, v, d, w)
  BY <1>2, <1>3 DEF StreamInv, Connection
<1>11. client[x].state = "open" => Taken(s, n, u, v, d, w)
  <2>1. n = Fits(c, u) /\ b = F!received(c, SubSeq(u, 1, n))
    BY <1>4, <1>5 DEF Fits
  <2> HIDE DEF u, v, d, w
  <2> QED BY <1>6, <1>10, <2>1, ReadStreams, Zenon
<1>12. client'[x].state # "backlog"
  BY <1>1, <1>2 DEF WorkerInv, Opened
<1>13. ASSUME NEW e, down' = down, conns' = [conns EXCEPT ![x] = e],
              client[x].state = "open" => Stream(e, up'[x], v, d, w)
       PROVE  StreamInv'
  <2>1. /\ Connection(conns', x) = e
        /\ \A y : y # x => Connection(conns', y) = Connection(conns, y)
    BY <1>2, <1>13 DEF Connection
  <2>2. DOMAIN down' = ServerFds /\ \A y \in ServerFds : down'[y] = down[y]
    BY <1>13 DEF StreamInv
  <2> QED BY <1>1, <1>2, <1>9, <1>12, <1>13, <2>1, <2>2, StreamFrame
<1>14. CASE /\ n = 0 /\ down' = down
            /\ conns' = [conns EXCEPT ![x] =
                           IF client[x].state = "closed" THEN [c EXCEPT !.state = "DONE"] ELSE c]
  <2> DEFINE e == IF client[x].state = "closed" THEN [c EXCEPT !.state = "DONE"] ELSE c
  <2>1. client[x].state = "open" => e = c /\ up'[x] = u
    BY <1>9, <1>11, <1>14 DEF Taken
  <2>2. down' = down /\ conns' = [conns EXCEPT ![x] = e]
    BY <1>14
  <2>3. client[x].state = "open" => Stream(e, up'[x], v, d, w)
    <3> HIDE DEF e, u, v, d, w
    <3> QED BY <1>10, <2>1
  <2> HIDE DEF e, u, v, d, w
  <2> QED BY <1>13, <2>2, <2>3
<1>15. CASE n # 0 /\ down' = down /\ conns' = [conns EXCEPT ![x] = s]
  <2>1. client[x].state = "open" => Stream(s, up'[x], v, d, w)
    BY <1>9, <1>11, <1>15 DEF Taken
  <2> HIDE DEF u, v, d, w
  <2> QED BY <1>13, <1>15, <2>1
<1>16. CASE n # 0 /\ F!write(x, s)
  <2>1. client[x].state = "open" => Stream(s, up'[x], client[x].unsent, down[x], client[x].want)
    BY <1>9, <1>11, <1>16 DEF Taken
  <2> QED BY <1>1, <1>2, <1>9, <1>16, <2>1, WriteKeeps
<1> QED BY <1>8, <1>14, <1>15, <1>16

LEMMA HandleKeeps ==
    ASSUME WorkerInv, StreamInv, WorkerInv', NEW x \in ServerFds \union Own, F!handle(x)
    PROVE  StreamInv'
<1>1. wat.pc = "handle" /\ x \in DOMAIN wbatch
  BY Zenon DEF F!handle
<1>2. CASE F!do_control
  <2>1. UNCHANGED <<conns, accepted, up, down, client>>
    BY <1>2 DEF F!do_control, F!networkVars
  <2> QED BY <2>1, StreamsSame
<1>3. CASE F!do_accept
  <2>1. UNCHANGED <<accepted, up, down, client>>
    BY <1>3 DEF F!do_accept, F!networkVars
  <2>2. conns' = F!override([y \in F!Range(accepting) |-> F!new_connection], conns)
    BY <1>3, Zenon DEF F!do_accept
  <2>3. DOMAIN conns \intersect F!Range(accepting) = {}
    BY DEF WorkerInv, Opened
  <2>4. \A y : Connection(conns', y) = Connection(conns, y)
    BY <2>2, <2>3 DEF Connection, F!override
  <2> QED BY <2>1, <2>4, StreamsSame
<1>4. CASE /\ x \in ServerFds
           /\ \/ F!do_read(x)
              \/ F!write(x, conns[x])
              \/ F!finish(x, wloop, FALSE) /\ UNCHANGED <<conns, down>>
           /\ UNCHANGED <<F!serverVars, m_running, accepted, up, client>>
  <2>1. CASE UNCHANGED <<conns, down>>
    BY <1>4, <2>1, StreamsSame
  <2>2. CASE F!write(x, conns[x])
    <3>1. x \in DOMAIN conns /\ x \in accepted
      BY <1>1, <1>4, HandledConnection
    <3>2. client[x].state = "open" =>
            Stream(conns[x], up[x], client[x].unsent, down[x], client[x].want)
      BY <3>1 DEF StreamInv, Connection
    <3>3. DOMAIN up' = ServerFds /\ UNCHANGED <<accepted, client, up>>
      BY <1>4 DEF StreamInv
    <3>4. PICK c : c = conns[x]
      OBVIOUS
    <3>5. F!write(x, c) /\ (client[x].state = "open" =>
            Stream(c, up'[x], client[x].unsent, down[x], client[x].want))
      BY <2>2, <3>2, <3>3, <3>4
    <3> QED BY <1>4, <3>1, <3>3, <3>5, WriteKeeps
  <2> QED BY <1>4, <2>1, <2>2 DEF F!do_read
<1> QED BY <1>2, <1>3, <1>4, Zenon DEF F!handle

\* The rest of what the worker does leaves the streams alone.
LEMMA LoopKeeps ==
    ASSUME WorkerInv, StreamInv, WorkerInv',
           F!start \/ F!run \/ F!turn \/ F!wait \/ F!removals
    PROVE  StreamInv'
<1>1. CASE F!start
  <2>1. /\ UNCHANGED <<accepted, up, down, client>>
        /\ conns' = [y \in F!Range(accepting) |-> F!new_connection] /\ wat.pc = "start"
    BY <1>1, Zenon DEF F!start, F!networkVars
  <2>2. DOMAIN conns = {}
    BY <2>1 DEF WorkerInv, Phase
  <2>3. \A y : Connection(conns', y) = Connection(conns, y)
    BY <2>1, <2>2 DEF Connection
  <2> QED BY <2>1, <2>3, StreamsSame
<1>2. CASE F!run
  <2>1. UNCHANGED <<up, down, client>>
    BY <1>2, Zenon DEF F!run
  <2>2. \/ UNCHANGED <<conns, accepted>>
        \/ /\ conns' = F!Restrict(conns, DOMAIN conns \ DOMAIN wloop.events)
           /\ accepted' = accepted \ DOMAIN wloop.events
    BY <1>2, Zenon DEF F!run
  <2>3. \A y \in accepted' : y \in accepted /\ Connection(conns', y) = Connection(conns, y)
    BY <2>2 DEF Connection, F!Restrict
  <2> QED BY <2>1, <2>3, StreamsSame
<1>3. CASE F!turn \/ F!wait
  <2>1. UNCHANGED <<conns, accepted, up, down, client>>
    BY <1>3, Zenon DEF F!turn, F!wait, F!networkVars
  <2> QED BY <2>1, StreamsSame
<1>4. CASE F!removals
  <2>1. /\ UNCHANGED <<up, down, client>>
        /\ conns' = F!Restrict(conns, DOMAIN conns \ wloop.remove_list)
        /\ accepted' = accepted \ wloop.remove_list
    BY <1>4, Zenon DEF F!removals
  <2>2. \A y \in accepted' : y \in accepted /\ Connection(conns', y) = Connection(conns, y)
    BY <2>1 DEF Connection, F!Restrict
  <2> QED BY <2>1, <2>2, StreamsSame
<1> QED BY <1>1, <1>2, <1>3, <1>4

LEMMA AcceptKeeps ==
    ASSUME WorkerInv, StreamInv, WorkerInv', NEW x \in ServerFds, F!accept(x)
    PROVE  StreamInv'
<1>1. /\ client[x].state = "backlog" /\ client' = [client EXCEPT ![x].state = "open"]
      /\ accepted' = accepted \union {x} /\ UNCHANGED <<conns, up, down>>
  BY Zenon DEF F!accept
<1>2. /\ client'[x].unsent = client[x].unsent /\ client'[x].want = client[x].want
      /\ client'[x].state = "open"
      /\ \A y \in ServerFds : y # x => client'[y] = client[y]
  <2>1. client \in Clients
    BY DEF WorkerInv
  <2> QED BY <1>1, <2>1 DEF Clients
<1>3. Idle(up[x], down[x], client[x])
  BY <1>1 DEF StreamInv
<1>4. x \notin DOMAIN conns
  BY <1>1 DEF WorkerInv, Opened
<1>5. Stream(F!new_connection, << >>, << >>, 0, 0)
  <2>1. << >> \o << >> = << >> /\ << >> \in Seq(Unit) /\ 0 - 0 = 0
    OBVIOUS
  <2>2. Flow(F!new_connection, << >>, 0)
    BY FlowIdle
  <2>3. 0 \in 0..SendRoom
    BY ServerConstants
  <2> QED BY <2>1, <2>2, <2>3 DEF Stream
<1>6. Stream(Connection(conns', x), up'[x], client'[x].unsent, down'[x], client'[x].want)
  BY <1>1, <1>2, <1>3, <1>4, <1>5 DEF Connection, Idle
<1>7. DOMAIN up' = ServerFds /\ DOMAIN down' = ServerFds
  BY <1>1 DEF StreamInv
<1>8. /\ \A y \in ServerFds : y # x => up'[y] = up[y] /\ down'[y] = down[y]
                                        /\ client'[y] = client[y]
      /\ \A y \in accepted' : y # x => y \in accepted
                                        /\ Connection(conns', y) = Connection(conns, y)
  BY <1>1, <1>2
<1> QED BY <1>2, <1>6, <1>7, <1>8, StreamFrame

\* A client that takes a step.
LEMMA ClientKeeps ==
    ASSUME WorkerInv, StreamInv, WorkerInv', NEW x \in ServerFds,
           F!Connect(x) \/ F!Client(x) \/ F!Close(x)
    PROVE  StreamInv'
<1>0. client \in Clients /\ UNCHANGED <<accepted, conns>> /\ DOMAIN up = ServerFds /\ DOMAIN down = ServerFds
  BY ClientSteps DEF WorkerInv, StreamInv
<1> DEFINE c == client[x]
<1>1. /\ c.state \in ClientStates /\ c.plan \in Seq({"GET", "PUT"}) /\ c.unsent \in Seq(Unit)
      /\ c.want \in Int
  BY <1>0 DEF Clients
<1>2. c.state = "open" /\ x \in accepted =>
        Stream(Connection(conns, x), up[x], c.unsent, down[x], c.want)
  BY DEF StreamInv
<1>3. ASSUME NEW e, client' = [client EXCEPT ![x] = e],
             DOMAIN up' = ServerFds, DOMAIN down' = ServerFds,
             \A y \in ServerFds : y # x => up'[y] = up[y] /\ down'[y] = down[y],
             e.state = "backlog" => Idle(up'[x], down'[x], e),
             x \in accepted /\ e.state = "open" =>
               Stream(Connection(conns, x), up'[x], e.unsent, down'[x], e.want)
      PROVE  StreamInv'
  <2>1. client'[x] = e /\ \A y \in ServerFds : y # x => client'[y] = client[y]
    BY <1>0, <1>3 DEF Clients
  <2>2. Connection(conns', x) = Connection(conns, x)
    BY <1>0
  <2>3. /\ \A y \in ServerFds : y # x => up'[y] = up[y] /\ down'[y] = down[y]
                                          /\ client'[y] = client[y]
        /\ \A y \in accepted' : y # x => y \in accepted
                                          /\ Connection(conns', y) = Connection(conns, y)
    BY <1>0, <1>3, <2>1
  <2> QED BY <1>0, <1>3, <2>1, <2>2, <2>3, StreamFrame
<1>4. CASE F!Connect(x)
  <2>1. PICK p \in Plans : F!clientStep(x, [state |-> "backlog", plan |-> p, unsent |-> << >>, want |-> 0])
    BY <1>4, Zenon DEF F!Connect
  <2>2. up' = [up EXCEPT ![x] = << >>] /\ down' = [down EXCEPT ![x] = 0]
    BY <1>4, Zenon DEF F!Connect
  <2>3. PICK e : e = [state |-> "backlog", plan |-> p, unsent |-> << >>, want |-> 0]
    OBVIOUS
  <2>4. client' = [client EXCEPT ![x] = e]
    BY <2>1, <2>3 DEF F!clientStep
  <2>5. /\ DOMAIN up' = ServerFds /\ DOMAIN down' = ServerFds /\ up'[x] = << >> /\ down'[x] = 0
        /\ \A y \in ServerFds : y # x => up'[y] = up[y] /\ down'[y] = down[y]
    BY <1>0, <2>2
  <2>6. Idle(up'[x], down'[x], e) /\ e.state # "open"
    BY <2>3, <2>5 DEF Idle
  <2> QED BY <1>3, <2>4, <2>5, <2>6
<1>5. CASE F!Request(x)
  <2>1. PICK a : a = Head(c.plan)
    OBVIOUS
  <2>2. PICK w : w = IF a = "GET" THEN Length.GET ELSE 0
    OBVIOUS
  <2>3. PICK e : e = [c EXCEPT !.plan = Tail(@), !.unsent = Asked(a), !.want = w]
    OBVIOUS
  <2>4. /\ c.state = "open" /\ c.unsent = << >> /\ c.want = 0 /\ c.plan # << >>
        /\ F!clientStep(x, e) /\ UNCHANGED <<up, down>>
    BY <1>5, <2>1, <2>2, <2>3, Zenon DEF F!Request, Asked
  <2>5. client' = [client EXCEPT ![x] = e]
    BY <2>4 DEF F!clientStep
  <2>6. e.state = "open" /\ e.unsent = Asked(a) /\ e.want = w
    <3> DEFINE g == Asked(a)
               t == Tail(c.plan)
    <3>1. e = [c EXCEPT !.plan = t, !.unsent = g, !.want = w]
      BY <2>3
    <3>2. DOMAIN c = {"state", "plan", "unsent", "want"}
      BY <1>0 DEF Clients
    <3> HIDE DEF g, t, c
    <3>3. e.state = c.state /\ e.unsent = g /\ e.want = w
      BY <3>1, <3>2
    <3> QED BY <2>4, <3>3 DEF g
  <2>7. ASSUME x \in accepted
        PROVE  Stream(Connection(conns, x), up[x], Asked(a), down[x], w)
    <3> DEFINE k == Connection(conns, x)
               u == up[x]
               d == down[x]
    <3>1. Stream(k, u, << >>, d, 0)
      BY <1>2, <2>4, <2>7
    <3> HIDE DEF k, u, d
    <3>2. u \in Seq(Unit) /\ d \in 0..SendRoom /\ Flow(k, u, 0 - d)
      BY <3>1, JoinedNothing DEF Stream
    <3>3. 0 - d \in Nat
      BY <3>2, FlowSane
    <3>4. d = 0 /\ 0 - d = 0
      BY <3>2, <3>3, ServerConstants
    <3>5. a \in {"GET", "PUT"}
      BY <1>1, <2>1, <2>4
    <3>6. Asked(a) \in Seq(Unit)
      BY <3>5, AskedUnits
    <3>7. Flow(F!new_connection, Asked(a), w) /\ w \in Nat
      BY <2>2, <3>5, FlowGet, FlowPut, ServerConstants
    <3>8. Flow(k, u, 0)
      BY <3>2, <3>4
    <3>9. Flow(k, u \o Asked(a), w)
      BY <3>2, <3>6, <3>7, <3>8, FlowJoins
    <3>10. w - d = w
      BY <3>4, <3>7
    <3>11. Stream(k, u, Asked(a), d, w)
      BY <3>2, <3>6, <3>7, <3>9, <3>10 DEF Stream
    <3> QED BY <3>11 DEF k, u, d
  <2>8. DOMAIN up' = ServerFds /\ DOMAIN down' = ServerFds
    BY <1>0, <2>4
  <2> QED BY <1>3, <2>4, <2>5, <2>6, <2>7, <2>8
<1>6. CASE F!Send(x)
  <2>1. PICK n \in 1..Len(c.unsent) :
          /\ up' = [up EXCEPT ![x] = @ \o SubSeq(c.unsent, 1, n)]
          /\ F!clientStep(x, [c EXCEPT !.unsent = SubSeq(@, n + 1, Len(@))])
    BY <1>6, Zenon DEF F!Send
  <2>2. c.state = "open" /\ down' = down
    BY <1>6, Zenon DEF F!Send
  <2>3. PICK e : e = [c EXCEPT !.unsent = SubSeq(@, n + 1, Len(@))]
    OBVIOUS
  <2>4. client' = [client EXCEPT ![x] = e]
    BY <2>1, <2>3 DEF F!clientStep
  <2>5. e.state = "open" /\ e.unsent = SubSeq(c.unsent, n + 1, Len(c.unsent)) /\ e.want = c.want
    BY <1>0, <2>2, <2>3 DEF Clients
  <2>6. /\ DOMAIN up' = ServerFds /\ DOMAIN down' = ServerFds
        /\ up'[x] = up[x] \o SubSeq(c.unsent, 1, n) /\ down'[x] = down[x]
        /\ \A y \in ServerFds : y # x => up'[y] = up[y] /\ down'[y] = down[y]
    BY <1>0, <2>1, <2>2
  <2>7. ASSUME x \in accepted
        PROVE  Stream(Connection(conns, x), up'[x], e.unsent, down'[x], e.want)
    <3> DEFINE k == Connection(conns, x)
               u == up[x]
               v == c.unsent
               d == down[x]
               w == c.want
               s == u \o SubSeq(v, 1, n)
               t == SubSeq(v, n + 1, Len(v))
    <3>1. Stream(k, u, v, d, w)
      BY <1>2, <2>2, <2>7
    <3>2. s \in Seq(Unit) /\ t \in Seq(Unit) /\ s \o t = u \o v
      <4>1. u \in Seq(Unit) /\ v \in Seq(Unit) /\ n \in 1..Len(v)
        BY <3>1 DEF Stream
      <4> HIDE DEF u, v
      <4> QED BY <4>1, JoinedSent
    <3>3. up'[x] = s /\ e.unsent = t /\ down'[x] = d /\ e.want = w
      BY <2>5, <2>6
    <3> HIDE DEF k, u, v, d, w, s, t
    <3>4. Stream(k, s, t, d, w)
      BY <3>1, <3>2 DEF Stream
    <3> QED BY <3>3, <3>4 DEF k
  <2> HIDE DEF c
  <2> QED BY <1>3, <2>4, <2>5, <2>6, <2>7
<1>7. CASE F!Receive(x)
  <2>1. PICK e : e = [c EXCEPT !.want = @ - 1]
    OBVIOUS
  <2>2. /\ c.state = "open" /\ down[x] > 0 /\ down' = [down EXCEPT ![x] = @ - 1]
        /\ F!clientStep(x, e) /\ up' = up
    BY <1>7, <2>1, Zenon DEF F!Receive
  <2>3. client' = [client EXCEPT ![x] = e]
    BY <2>2 DEF F!clientStep
  <2>4. e.state = "open" /\ e.unsent = c.unsent /\ e.want = c.want - 1
    BY <1>0, <2>1, <2>2 DEF Clients
  <2>5. /\ DOMAIN up' = ServerFds /\ DOMAIN down' = ServerFds /\ up'[x] = up[x]
        /\ down'[x] = down[x] - 1
        /\ \A y \in ServerFds : y # x => up'[y] = up[y] /\ down'[y] = down[y]
    BY <1>0, <2>2
  <2>6. ASSUME x \in accepted
        PROVE  Stream(Connection(conns, x), up'[x], e.unsent, down'[x], e.want)
    <3> DEFINE k == Connection(conns, x)
               u == up[x]
               v == c.unsent
               d == down[x]
               w == c.want
    <3>1. Stream(k, u, v, d, w)
      BY <1>2, <2>2, <2>6
    <3>2. d > 0
      BY <2>2
    <3> HIDE DEF k, u, v, d, w
    <3>3. d - 1 \in 0..SendRoom /\ w - 1 \in Int /\ (w - 1) - (d - 1) = w - d
      BY <3>1, <3>2, ServerConstants DEF Stream
    <3>4. Stream(k, u, v, d - 1, w - 1)
      BY <3>1, <3>3 DEF Stream
    <3> QED BY <2>4, <2>5, <3>4 DEF k, u, v, d, w
  <2> HIDE DEF c
  <2> QED BY <1>3, <2>3, <2>4, <2>5, <2>6
<1>8. CASE F!Close(x)
  <2>1. PICK e : e = [c EXCEPT !.state = "closed"]
    OBVIOUS
  <2>2. F!clientStep(x, e) /\ UNCHANGED <<up, down>>
    BY <1>8, <2>1, Zenon DEF F!Close
  <2>3. client' = [client EXCEPT ![x] = e]
    BY <2>2 DEF F!clientStep
  <2>4. e.state = "closed"
    BY <1>0, <2>1 DEF Clients
  <2>5. DOMAIN up' = ServerFds /\ DOMAIN down' = ServerFds
    BY <1>0, <2>2
  <2> QED BY <1>3, <2>2, <2>3, <2>4, <2>5
<1> QED BY <1>4, <1>5, <1>6, <1>7, <1>8 DEF F!Client

LEMMA StreamsKept ==
    ASSUME WorkerInv, StreamInv, WorkerInv', [F!Next]_F!vars
    PROVE  StreamInv'
<1>1. CASE UNCHANGED F!vars
  BY <1>1 DEF F!vars, StreamInv
<1>2. CASE F!Worker
  <2>1. ServerFds \union Own = ServerFds \union {F!CTRL, F!ACCEPT}
    BY DEF Own
  <2>2. CASE F!start \/ F!run \/ F!turn \/ F!wait \/ F!removals
    BY <2>2, LoopKeeps
  <2>3. CASE \E x \in ServerFds : F!recv(x)
    BY <2>3, RecvKeeps
  <2>4. CASE \E x \in ServerFds \union {F!CTRL, F!ACCEPT} : F!handle(x)
    BY <2>1, <2>4, HandleKeeps
  <2> QED BY <1>2, <2>2, <2>3, <2>4, Zenon DEF F!Worker
<1>3. CASE \E x \in ServerFds : F!accept(x) \/ F!Connect(x) \/ F!Client(x) \/ F!Close(x)
  BY <1>3, AcceptKeeps, ClientKeeps
<1>4. CASE F!stop_acceptor \/ F!stop_workers \/ F!join
  <2>1. UNCHANGED <<conns, accepted, up, down, client>>
    BY <1>4 DEF F!stop_acceptor, F!stop_workers, F!join, F!workerVars, F!networkVars
  <2> QED BY <2>1, StreamsSame
<1>5. CASE F!Gone
  BY <1>5 DEF F!Gone, F!vars, StreamInv
<1> QED BY <1>1, <1>2, <1>3, <1>4, <1>5, Zenon DEF F!Next

LEMMA StreamsStart ==
    ASSUME F!Init PROVE StreamInv
<1>1. /\ up = [x \in ServerFds |-> << >>] /\ down = [x \in ServerFds |-> 0] /\ accepted = {}
      /\ client = [x \in ServerFds |-> [state |-> "new", plan |-> << >>, unsent |-> << >>, want |-> 0]]
  BY DEF F!Init
<1> QED BY <1>1 DEF StreamInv

LEMMA StreamsServed ==
    ASSUME WorkerInv, StreamInv PROVE F!ServedExactly
<1> SUFFICES ASSUME NEW x \in DOMAIN conns, client[x].state = "open"
             PROVE  LET c == conns[x]
                        asked == client[x].unsent \o up[x] \o c.request
                    IN /\ c.state # "ERROR"
                       /\ client[x].want = down[x] +
                            (IF c.state = "WRITING" THEN c.bytes_left
                             ELSE IF <<"GET", RequestSize>> \in F!Range(asked)
                                  THEN Length.GET ELSE 0)
  BY Zenon DEF F!ServedExactly
<1> DEFINE c == conns[x]
           u == up[x]
           v == client[x].unsent
           d == down[x]
           w == client[x].want
           r == c.request
<1>1. Stream(c, u, v, d, w)
  BY DEF WorkerInv, Opened, StreamInv, Connection
<1>2. /\ u \in Seq(Unit) /\ v \in Seq(Unit) /\ d \in 0..SendRoom /\ w \in Int
      /\ Flow(c, u \o v, w - d) /\ u \o v \in Seq(Unit)
  BY <1>1 DEF Stream
<1> HIDE DEF c, u, v, d, w
<1>3. /\ c \in Conn /\ c.state \in {"WAITING", "READING", "WRITING"} /\ GetEnd \notin F!Range(r)
      /\ r \in Seq(Unit) /\ c.bytes_left \in Int /\ SendRoom \in Nat /\ d \in Int
  <2>1. PICK p, k : p \in Seq(Unit) /\ Flow(c, p, k)
    BY <1>2
  <2>2. c \in Conn /\ c.state \in {"WAITING", "READING", "WRITING"} /\ GetEnd \notin F!Range(r)
    BY <2>1, FlowSane
  <2>3. r \in Seq(Unit) /\ c.bytes_left \in Int
    BY <2>2, ConnFields
  <2>4. SendRoom \in Nat
    BY ServerConstants
  <2>5. d \in Int
    BY <1>2, <2>4
  <2> QED BY <2>2, <2>3, <2>4, <2>5
<1>4. CASE c.state = "WRITING"
  <2>1. w - d = c.bytes_left
    BY <1>2, <1>4, FlowWriting
  <2>2. w = d + c.bytes_left
    BY <1>2, <1>3, <2>1
  <2> QED BY <1>4, <2>2 DEF c, u, v, d, w
<1>5. CASE c.state # "WRITING"
  <2> DEFINE asked == v \o u \o r
  <2>1. w - d = IF GetEnd \in F!Range(u \o v) THEN Length.GET ELSE 0
    BY <1>2, <1>5, FlowOwes
  <2>2. F!Range(u \o v) = F!Range(u) \union F!Range(v)
    BY <1>2, RangeJoined
  <2>3. F!Range(asked) = F!Range(v) \union F!Range(u) \union F!Range(r)
    <3>1. v \o u \in Seq(Unit)
      BY <1>2, Joined
    <3> HIDE DEF r
    <3> QED BY <1>2, <1>3, <3>1, RangeJoined
  <2>4. (GetEnd \in F!Range(asked)) <=> (GetEnd \in F!Range(u \o v))
    BY <1>3, <2>2, <2>3
  <2> HIDE DEF asked
  <2>5. w - d = IF GetEnd \in F!Range(asked) THEN Length.GET ELSE 0
    BY <2>1, <2>4
  <2>6. w = d + IF GetEnd \in F!Range(asked) THEN Length.GET ELSE 0
    BY <1>2, <1>3, <2>5, ServerConstants
  <2> QED BY <1>3, <1>5, <2>6 DEF c, u, v, d, w, asked, GetEnd
<1> QED BY <1>4, <1>5

\* The network server takes the requests of its clients for what they are however they
\* are cut up, and what a client still wants is on its way to it, owed to it, or its
\* request is on its way (server_tcp.cpp 451-560); the worker's connections are its
\* events, its loop is sound, and a server that is gone leaves no descriptor open
\* (server_tcp.cpp 381).  For all clients, plans, sizes and buffers.
THEOREM ServerSound == F!Spec => []ServedExactly
<1> DEFINE Inv == WorkerInv /\ StreamInv
<1>1. F!Init => Inv
  BY ServerStarts, StreamsStart
<1>2. Inv /\ [F!Next]_F!vars => Inv'
  BY ServerKeeps, StreamsKept
<1>3. Inv => ServedExactly
  BY WorkerKeeps, StreamsServed DEF ServedExactly
<1> QED BY <1>1, <1>2, <1>3, PTL DEF F!Spec
=============================================================================
