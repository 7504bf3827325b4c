-------------------------- MODULE PortUsersProofs ---------------------------
(***************************************************************************)
(* Proofs about who uses a port: the queue of the stack (TxQueue), for     *)
(* every ring, burst, eventfd and index size, the packet sources with      *)
(* their pools (TxSources), for every set of them, and the network task    *)
(* with its event loop (NetworkTask), for all sizes and configurations.    *)
(***************************************************************************)
EXTENDS MCPortUsers, TLAPS, FiniteSetTheorems, WellFoundedInduction

-----------------------------------------------------------------------------
(* The queue of the stack.                                                 *)

\* The inductive invariant.  A thread that has seen its own copy of write_idx
\* equal to read_idx is going to announce one notification; with those counted
\* in, no more than two are ever outstanding.  The bound keeps the modular
\* difference of the indexes exact.
willAnnounceP ==
    IF ppc = "announce" \/ (ppc = "check" /\ pw = read_idx) THEN 1 ELSE 0

willAnnounceC ==
    IF cpc = "announce" \/ (cpc = "check" /\ cw = read_idx) THEN 1 ELSE 0

OutstandingInv == notifications + willAnnounceP + willAnnounceC <= 2

\* got is only in use between eventfd_read and the update of read_idx.
GotInv == /\ cpc = "add" => got >= 1
          /\ cpc # "add" => got = 0

\* An eventfd that is readable without a fresh edge is about to be read.
EdgeInv == counter > 0 /\ ~edge => cpc \in {"burst", "ack", "read"}

IInv == /\ TypeOK /\ NotificationBalance /\ OutstandingInv /\ GotInv /\ EdgeInv

-----------------------------------------------------------------------------
\* The state after construction satisfies the invariant.
LEMMA InitIInv == Init => IInv
<1> SUFFICES ASSUME Init PROVE IInv
  OBVIOUS
<1>1. TypeOK
  <2>1. edge \in BOOLEAN
    BY Zenon DEF Init
  <2> QED BY <2>1, TxQueueAssumption DEF Init, TypeOK
<1>2. notifications = 0
  BY DEF Init, notifications, minus
<1>3. NotificationBalance /\ OutstandingInv /\ GotInv /\ EdgeInv
  BY <1>2 DEF Init, NotificationBalance, OutstandingInv, GotInv, EdgeInv,
     willAnnounceP, willAnnounceC
<1> QED BY <1>1, <1>3 DEF IInv

\* Steps of the producer preserve the invariant.
LEMMA ProducerIInv ==
  ASSUME IInv, producer_step \/ \E n \in 1..BurstSize : enqueue(n)
  PROVE  IInv'
<1> USE TxQueueAssumption
    DEF IInv, TypeOK, NotificationBalance, OutstandingInv, GotInv, EdgeInv,
        notifications, willAnnounceP, willAnnounceC, consumerVars
<1>0. /\ minus(write_idx, read_idx) \in Nat
      /\ (minus(write_idx, read_idx) = 0) <=> (write_idx = read_idx)
  BY DEF minus
<1>1. CASE \E n \in 1..BurstSize : enqueue(n)
  BY <1>0, <1>1 DEF enqueue
<1>2. CASE notify_check
  BY <1>0, <1>2 DEF notify_check, minus
<1>3. CASE notify_announce
  <2>1. minus(plus(write_idx, 1), read_idx) = minus(write_idx, read_idx) + 1
    BY <1>0, <1>3 DEF notify_announce, minus, plus
  <2>2. plus(write_idx, 1) \in 0..IndexMod - 1
    BY DEF plus
  <2> QED BY <1>0, <1>3, <2>1, <2>2 DEF notify_announce
<1>4. CASE notify_signal
  <2>1. counter < EventFdMax
    BY <1>0, <1>4 DEF notify_signal
  <2> QED BY <1>0, <1>4, <2>1 DEF notify_signal
<1>5. CASE enqueue_burst
  BY <1>0, <1>5 DEF enqueue_burst, smaller
<1> QED BY <1>1, <1>2, <1>3, <1>4, <1>5 DEF producer_step

\* Steps of the consumer preserve the invariant.
LEMMA ConsumerIInv ==
  ASSUME IInv, consumer_step \/ restart
  PROVE  IInv'
<1> USE TxQueueAssumption
    DEF IInv, TypeOK, NotificationBalance, OutstandingInv, GotInv, EdgeInv,
        notifications, willAnnounceP, willAnnounceC, producerVars
<1>0. /\ minus(write_idx, read_idx) \in Nat
      /\ (minus(write_idx, read_idx) = 0) <=> (write_idx = read_idx)
  BY DEF minus
<1>1. CASE poll
  BY <1>0, <1>1 DEF poll
<1>10. CASE restart
  <2>1. edge' \in BOOLEAN
    BY <1>10 DEF restart
  <2>2. counter > 0 => edge'
    BY <1>10, Zenon DEF restart
  <2> QED BY <1>0, <1>10, <2>1, <2>2 DEF restart, consumerVars
<1>2. CASE \E repeat \in BOOLEAN : tx_burst(repeat)
  BY <1>0, <1>2 DEF tx_burst, smaller
<1>3. CASE ack_check
  BY <1>0, <1>3 DEF ack_check
<1>4. CASE ack_read
  BY <1>0, <1>4 DEF ack_read
<1>5. CASE ack_add
  <2>1. got <= minus(write_idx, read_idx) /\ got \in Nat
    BY <1>0
  <2>2. /\ plus(read_idx, got) \in 0..IndexMod - 1
        /\ minus(write_idx, plus(read_idx, got)) = minus(write_idx, read_idx) - got
    BY <2>1 DEF minus, plus
  <2> QED BY <1>0, <1>5, <2>1, <2>2 DEF ack_add
<1>6. CASE enable_empty
  BY <1>0, <1>6 DEF enable_empty
<1>7. CASE enable_check
  BY <1>0, <1>7 DEF enable_check, minus
<1>8. CASE enable_announce
  <2>1. minus(plus(write_idx, 1), read_idx) = minus(write_idx, read_idx) + 1
    BY <1>0, <1>8 DEF enable_announce, minus, plus
  <2>2. plus(write_idx, 1) \in 0..IndexMod - 1
    BY DEF plus
  <2> QED BY <1>0, <1>8, <2>1, <2>2 DEF enable_announce
<1>9. CASE enable_signal
  <2>1. counter < EventFdMax
    BY <1>0, <1>9 DEF enable_signal
  <2> QED BY <1>0, <1>9, <2>1 DEF enable_signal
<1> QED BY <1>1, <1>2, <1>3, <1>4, <1>5, <1>6, <1>7, <1>8, <1>9, <1>10
    DEF consumer_step

-----------------------------------------------------------------------------
\* The invariant holds in every reachable state.
THEOREM Inductive == Spec => []IInv
<1>1. IInv /\ UNCHANGED vars => IInv'
  BY DEF IInv, TypeOK, NotificationBalance, OutstandingInv, GotInv, EdgeInv,
         notifications, willAnnounceP, willAnnounceC, vars, producerVars, consumerVars
<1>2. IInv /\ [Next]_vars => IInv'
  BY <1>1, ProducerIInv, ConsumerIInv DEF Next
<1> QED BY InitIInv, <1>2, PTL DEF Spec

\* However notify() of the two threads and ack() interleave, write_idx and
\* read_idx differ by exactly what is in the eventfd or on its way.
THEOREM Balanced == Spec => []NotificationBalance
<1>1. IInv => NotificationBalance
  BY DEF IInv
<1> QED BY Inductive, <1>1, PTL

\* At most two notifications are outstanding, so eventfd_write in notify()
\* never overflows the eventfd.
THEOREM Bounded == Spec => []BoundedNotifications
<1>1. IInv => BoundedNotifications
  BY TxQueueAssumption DEF minus, IInv, TypeOK, OutstandingInv, BoundedNotifications, notifications,
     willAnnounceP, willAnnounceC
<1> QED BY Inductive, <1>1, PTL

\* When both threads are at rest the next enqueue() will signal: a packet left
\* in the ring waits at most for the next packet.
THEOREM NeverDead == Spec => []NoDeadQueue
<1>1. IInv => NoDeadQueue
  BY DEF IInv, NoDeadQueue, TypeOK, NotificationBalance, GotInv, EdgeInv
<1> QED BY Inductive, <1>1, PTL

-----------------------------------------------------------------------------
(* The load of a set of table entries.                                     *)

\* A set of numbers has a least one: the form in which the provers can use
\* induction.
LEMMA LeastNumber ==
    ASSUME NEW E, E \subseteq Nat, E # {}
    PROVE  \E x \in E : \A y \in E : x <= y
<1>1. PICK x \in E : \A y \in E : <<y, x>> \notin OpToRel(<, Nat)
  BY NatLessThanWellFounded, WFMin, Zenon
<1>2. \A y \in E : ~(y < x)
  BY <1>1 DEF OpToRel
<1> QED BY <1>2

\* Entries of the table, the one that the sum takes first, and one step of it.
Entry == [source : Sources, pq : PortQueues, pool : Pools]
First(s) == CHOOSE x \in s : TRUE
SumStep(f, s) == IF s = {} THEN 0 ELSE Load[First(s).source] + f[s \ {First(s)}]
Summed(f, E) == f = [s \in SUBSET E |-> SumStep(f, s)]

\* The load of a set of entries.
LoadOf(E) == S!MapThenSumSet(LAMBDA e : Load[e.source], E)

\* Loads are numbers.
LEMMA SourceConstants ==
    /\ IsFiniteSet(Sources) /\ IsFiniteSet(PortQueues)
    /\ Load \in [Sources -> Nat] /\ MaxLen \in [Sources -> Nat]
    /\ Signature \subseteq Sources
    /\ "null" \notin Pools /\ "absent" \notin Pools
    /\ Overhead \in Nat \ {0} /\ MaxOut \in Nat
    /\ \A pq \in PortQueues : pq[2] \in Nat
    /\ \A s \in Sources : \E pq \in PortQueues : pq[1] = TargetPort[s]
  BY PortUsersAssumption
     DEF S!TxSourcesAssumption, S!Null, S!Absent, S!IsFiniteSet, IsFiniteSet

LEMMA FirstIn == ASSUME NEW s, s # {} PROVE First(s) \in s
  BY DEF First

\* A set without one of its elements.
LEMMA Smaller ==
    ASSUME NEW E, IsFiniteSet(E), NEW s \in SUBSET E, NEW x \in s
    PROVE  /\ IsFiniteSet(s) /\ Cardinality(s) \in Nat \ {0}
           /\ s \ {x} \in SUBSET E /\ IsFiniteSet(s \ {x})
           /\ Cardinality(s \ {x}) = Cardinality(s) - 1
<1>1. IsFiniteSet(s)
  BY FS_Subset
<1>2. Cardinality(s) \in Nat /\ Cardinality(s) # 0
  BY <1>1, FS_CardinalityType, FS_EmptySet
<1> QED BY <1>1, <1>2, FS_RemoveElement

\* The function that the sum defines satisfies its equation.
LEMMA SumDefined ==
    ASSUME NEW E \in SUBSET Entry, IsFiniteSet(E)
    PROVE  \E f \in [SUBSET E -> Nat] : Summed(f, E)
<1> DEFINE good(f, n) == \A s \in SUBSET E : Cardinality(s) <= n => f[s] = SumStep(f, s)
           bad == {n \in Nat : ~ \E f \in [SUBSET E -> Nat] : good(f, n)}
<1>1. bad = {}
  <2> SUFFICES ASSUME bad # {} PROVE FALSE
    OBVIOUS
  <2>1. PICK n \in bad : \A y \in bad : n <= y
    BY LeastNumber
  <2>2. CASE n = 0
    <3> DEFINE f == [s \in SUBSET E |-> 0]
    <3>1. \A s \in SUBSET E : Cardinality(s) <= 0 => s = {}
      BY FS_Subset, FS_CardinalityType, FS_EmptySet
    <3>2. good(f, 0)
      BY <3>1 DEF SumStep
    <3>3. f \in [SUBSET E -> Nat]
      OBVIOUS
    <3> QED BY <2>2, <3>2, <3>3
  <2>3. CASE n # 0
    <3>0. bad \subseteq Nat /\ n \in bad
      OBVIOUS
    <3>1. n - 1 \in Nat /\ n - 1 \notin bad
      <4> HIDE DEF bad
      <4> QED BY <2>1, <2>3, <3>0
    <3>2. PICK f \in [SUBSET E -> Nat] : good(f, n - 1)
      BY <3>1
    <3> DEFINE g == [s \in SUBSET E |-> IF Cardinality(s) <= n - 1 THEN f[s] ELSE SumStep(f, s)]
    <3>3. \A s \in SUBSET E : SumStep(f, s) \in Nat
      <4> TAKE s \in SUBSET E
      <4>1. CASE s = {}
        BY <4>1 DEF SumStep
      <4>2. CASE s # {}
        <5>1. First(s) \in s /\ s \ {First(s)} \in SUBSET E
          BY <4>2, FirstIn
        <5>2. Load[First(s).source] \in Nat
          BY <5>1, SourceConstants DEF Entry
        <5> QED BY <4>2, <5>1, <5>2 DEF SumStep
      <4> QED BY <4>1, <4>2
    <3>4. g \in [SUBSET E -> Nat]
      BY <3>3
    <3>5. ASSUME NEW s \in SUBSET E, Cardinality(s) <= n PROVE g[s] = SumStep(g, s)
      <4>1. g[s] = SumStep(f, s)
        BY <3>2
      <4>2. CASE s = {}
        BY <4>1, <4>2 DEF SumStep
      <4>3. CASE s # {}
        <5>1. First(s) \in s
          BY <4>3, FirstIn
        <5>2. /\ s \ {First(s)} \in SUBSET E
              /\ Cardinality(s \ {First(s)}) <= n - 1
          <6>1. /\ Cardinality(s) \in Nat \ {0} /\ s \ {First(s)} \in SUBSET E
                /\ Cardinality(s \ {First(s)}) = Cardinality(s) - 1
            BY <5>1, Smaller
          <6>2. n \in Nat
            BY <3>0
          <6> HIDE DEF good, bad, g
          <6> QED BY <6>1, <6>2, <3>5
        <5>3. g[s \ {First(s)}] = f[s \ {First(s)}]
          BY <5>2
        <5> QED BY <4>1, <4>3, <5>3 DEF SumStep
      <4> QED BY <4>2, <4>3
    <3>6. good(g, n)
      BY <3>5
    <3> QED BY <3>4, <3>6
  <2> QED BY <2>2, <2>3
<1>2. Cardinality(E) \in Nat
  BY FS_CardinalityType
<1>3. PICK f \in [SUBSET E -> Nat] : good(f, Cardinality(E))
  BY <1>1, <1>2
<1>4. \A s \in SUBSET E : f[s] = SumStep(f, s)
  BY <1>3, FS_Subset
<1>5. f = [s \in SUBSET E |-> f[s]]
  OBVIOUS
<1>6. f = [s \in SUBSET E |-> SumStep(f, s)]
  BY <1>4, <1>5
<1> QED BY <1>6 DEF Summed

\* It does not matter which entry is taken first.
LEMMA SumAnyOrder ==
    ASSUME NEW E \in SUBSET Entry, IsFiniteSet(E), NEW f, Summed(f, E),
           NEW s \in SUBSET E, NEW x \in s
    PROVE  /\ f[s] \in Nat /\ f[s \ {x}] \in Nat
           /\ f[s] = Load[x.source] + f[s \ {x}]
<1>1. \A t \in SUBSET E : f[t] = SumStep(f, t)
  BY DEF Summed
<1>2. \A y \in E : Load[y.source] \in Nat
  BY SourceConstants DEF Entry
<1> DEFINE right(t) == f[t] \in Nat /\ \A y \in t : f[t \ {y}] \in Nat /\ f[t] = Load[y.source] + f[t \ {y}]
           bad == {n \in Nat : \E t \in SUBSET E : Cardinality(t) = n /\ ~right(t)}
<1>3. bad = {}
  <2> SUFFICES ASSUME bad # {} PROVE FALSE
    OBVIOUS
  <2>1. PICK n \in bad : \A k \in bad : n <= k
    BY LeastNumber
  <2>2. PICK t \in SUBSET E : Cardinality(t) = n /\ ~right(t)
    OBVIOUS
  <2>3. \A u \in SUBSET E : Cardinality(u) \in Nat /\ Cardinality(u) < n => right(u)
    <3> SUFFICES ASSUME NEW u \in SUBSET E, Cardinality(u) \in Nat, Cardinality(u) < n, ~right(u)
                 PROVE  FALSE
      OBVIOUS
    <3>1. Cardinality(u) \in bad
      <4> HIDE DEF right
      <4> QED OBVIOUS
    <3>2. n \in Nat
      OBVIOUS
    <3> HIDE DEF right, bad
    <3> QED BY <2>1, <3>1, <3>2
  <2>4. CASE t = {}
    <3>1. f[t] = 0
      <4> HIDE DEF right, bad
      <4> QED BY <2>4, <1>1 DEF SumStep
    <3>2. right(t)
      BY <2>4, <3>1
    <3> HIDE DEF right
    <3> QED BY <2>2, <3>2
  <2>5. CASE t # {}
    <3> DEFINE a == First(t)
    <3>1. a \in t
      BY <2>5, FirstIn
    <3>2. f[t] = Load[a.source] + f[t \ {a}]
      BY <2>5, <1>1 DEF SumStep
    <3> HIDE DEF a
    <3>3. right(t \ {a})
      <4>1. /\ Cardinality(t) \in Nat \ {0} /\ t \ {a} \in SUBSET E
            /\ Cardinality(t \ {a}) = Cardinality(t) - 1
        BY <3>1, Smaller
      <4>2. Cardinality(t \ {a}) \in Nat /\ Cardinality(t \ {a}) < n
        BY <4>1, <2>2
      <4> HIDE DEF right
      <4> QED BY <4>1, <4>2, <2>3
    <3>4. f[t] \in Nat
      BY <3>1, <3>2, <3>3, <1>2
    <3>5. ASSUME NEW y \in t PROVE f[t \ {y}] \in Nat /\ f[t] = Load[y.source] + f[t \ {y}]
      <4>1. CASE y = a
        BY <4>1, <3>2, <3>3
      <4>2. CASE y # a
        <5>1. right(t \ {y})
          <6>1. /\ Cardinality(t) \in Nat \ {0} /\ t \ {y} \in SUBSET E
                /\ Cardinality(t \ {y}) = Cardinality(t) - 1
            BY Smaller
          <6>2. Cardinality(t \ {y}) \in Nat /\ Cardinality(t \ {y}) < n
            BY <6>1, <2>2
          <6> HIDE DEF right
          <6> QED BY <6>1, <6>2, <2>3
        <5>2. (t \ {a}) \ {y} = (t \ {y}) \ {a}
          OBVIOUS
        <5>3. y \in t \ {a} /\ a \in t \ {y}
          BY <4>2, <3>1
        <5>4. f[t \ {a}] = Load[y.source] + f[(t \ {a}) \ {y}] /\ f[(t \ {a}) \ {y}] \in Nat
          BY <3>3, <5>3
        <5>5. f[t \ {y}] = Load[a.source] + f[(t \ {a}) \ {y}] /\ f[t \ {y}] \in Nat
          BY <5>1, <5>2, <5>3
        <5>6. Load[a.source] \in Nat /\ Load[y.source] \in Nat
          BY <1>2, <3>1
        <5> QED BY <5>4, <5>5, <5>6, <3>2
      <4> QED BY <4>1, <4>2
    <3> QED BY <3>4, <3>5, <2>2
  <2> QED BY <2>4, <2>5
<1>4. Cardinality(s) \in Nat
  BY FS_Subset, FS_CardinalityType
<1>5. right(s)
  BY <1>3, <1>4
<1> QED BY <1>5

\* Sums over different sets agree.
LEMMA SumUnique ==
    ASSUME NEW E \in SUBSET Entry, IsFiniteSet(E), NEW U \in SUBSET E,
           NEW f, Summed(f, E), NEW g, Summed(g, U)
    PROVE  f[U] = g[U]
<1>0. IsFiniteSet(U)
  BY FS_Subset
<1>1. \A t \in SUBSET U : f[t] = SumStep(f, t) /\ g[t] = SumStep(g, t)
  BY DEF Summed
<1> DEFINE bad == {n \in Nat : \E t \in SUBSET U : Cardinality(t) = n /\ f[t] # g[t]}
<1>3. bad = {}
  <2> SUFFICES ASSUME bad # {} PROVE FALSE
    OBVIOUS
  <2>1. PICK n \in bad : \A k \in bad : n <= k
    BY LeastNumber
  <2>2. PICK t \in SUBSET U : Cardinality(t) = n /\ f[t] # g[t]
    OBVIOUS
  <2>3. \A u \in SUBSET U : Cardinality(u) \in Nat /\ Cardinality(u) < n => f[u] = g[u]
    <3> SUFFICES ASSUME NEW u \in SUBSET U, Cardinality(u) \in Nat, Cardinality(u) < n,
                        f[u] # g[u]
                 PROVE  FALSE
      OBVIOUS
    <3>1. Cardinality(u) \in bad /\ n \in Nat
      OBVIOUS
    <3> HIDE DEF bad
    <3> QED BY <2>1, <3>1
  <2>4. CASE t = {}
    <3>1. f[t] = 0 /\ g[t] = 0
      <4> HIDE DEF bad
      <4> QED BY <2>4, <1>1 DEF SumStep
    <3> QED BY <2>2, <3>1
  <2>5. CASE t # {}
    <3> DEFINE a == First(t)
    <3>1. a \in t
      BY <2>5, FirstIn
    <3>2. f[t] = Load[a.source] + f[t \ {a}] /\ g[t] = Load[a.source] + g[t \ {a}]
      BY <2>5, <1>1 DEF SumStep
    <3> HIDE DEF a
    <3>3. f[t \ {a}] = g[t \ {a}]
      <4>1. /\ Cardinality(t) \in Nat \ {0} /\ t \ {a} \in SUBSET U
            /\ Cardinality(t \ {a}) = Cardinality(t) - 1
        BY <1>0, <3>1, Smaller
      <4>2. Cardinality(t \ {a}) \in Nat /\ Cardinality(t \ {a}) < n
        BY <4>1, <2>2
      <4> QED BY <4>1, <4>2, <2>3
    <3> QED BY <3>2, <3>3, <2>2
  <2> QED BY <2>4, <2>5
<1>4. Cardinality(U) \in Nat
  BY <1>0, FS_CardinalityType
<1> QED BY <1>3, <1>4

\* The load of a set is the value of such a function.
LEMMA LoadIsSum ==
    ASSUME NEW E \in SUBSET Entry, IsFiniteSet(E)
    PROVE  \E f : Summed(f, E) /\ LoadOf(E) = f[E]
<1> DEFINE f == CHOOSE f : f = [s \in SUBSET E |-> SumStep(f, s)]
<1>1. f = [s \in SUBSET E |-> SumStep(f, s)]
  BY SumDefined DEF Summed
<1>2. LoadOf(E) = f[E]
  BY DEF LoadOf, S!MapThenSumSet, S!MapThenFoldSet, SumStep, First
<1> QED BY <1>1, <1>2 DEF Summed

\* The load of nothing, and of one entry more.
LEMMA LoadAdds ==
    ASSUME NEW E \in SUBSET Entry, IsFiniteSet(E)
    PROVE  /\ LoadOf({}) = 0 /\ LoadOf(E) \in Nat
           /\ \A x \in E : LoadOf(E) = Load[x.source] + LoadOf(E \ {x}) /\ LoadOf(E \ {x}) \in Nat
<1>1. PICK f : Summed(f, E) /\ LoadOf(E) = f[E]
  BY LoadIsSum
<1>2. LoadOf({}) = 0
  <2>1. PICK g : Summed(g, {}) /\ LoadOf({}) = g[{}]
    BY LoadIsSum, FS_EmptySet
  <2> QED BY <2>1 DEF Summed, SumStep
<1>3. ASSUME NEW x \in E
      PROVE  LoadOf(E) = Load[x.source] + LoadOf(E \ {x}) /\ LoadOf(E \ {x}) \in Nat /\ LoadOf(E) \in Nat
  <2>1. IsFiniteSet(E \ {x}) /\ E \ {x} \in SUBSET E
    BY FS_RemoveElement
  <2>2. PICK g : Summed(g, E \ {x}) /\ LoadOf(E \ {x}) = g[E \ {x}]
    BY <2>1, LoadIsSum
  <2>3. f[E \ {x}] = g[E \ {x}]
    BY <1>1, <2>1, <2>2, SumUnique
  <2>4. f[E] \in Nat /\ f[E \ {x}] \in Nat /\ f[E] = Load[x.source] + f[E \ {x}]
    BY <1>1, SumAnyOrder
  <2> QED BY <1>1, <2>2, <2>3, <2>4
<1>4. LoadOf(E) \in Nat
  <2>1. CASE E = {}
    BY <2>1, <1>2
  <2>2. CASE E # {}
    <3>1. PICK x \in E : TRUE
      BY <2>2
    <3> QED BY <3>1, <1>3
  <2> QED BY <2>1, <2>2
<1> QED BY <1>2, <1>3, <1>4

-----------------------------------------------------------------------------
(* The sources and their pools.                                            *)

\* The entries that use a pool.
Users(E, p) == {x \in E : x.pool = p}

\* A source is in the table once, and its pool is known, unless it once got none.
Listed(E, known) ==
    /\ E \in SUBSET Entry /\ IsFiniteSet(E)
    /\ known \in [Sources -> Pools \cup {S!Null, S!Absent}]
    /\ \A x, y \in E : x.source = y.source => x = y
    /\ \A s \in Sources : known[s] \in Pools => \E x \in E : x.source = s /\ x.pool = known[s]
    /\ \A x \in E : known[x.source] \in {x.pool, S!Null}
    /\ \A s \in Signature : known[s] # S!Null

\* A shared pool is known once and counts its users; other pools have one user.
Shared(E, pools) ==
    /\ pools \in SUBSET [pool : Pools, pq : PortQueues, ref_count : Nat \ {0}]
    /\ \A e, f \in pools : e.pool = f.pool => e = f
    /\ \A e \in pools : e.ref_count = Cardinality(Users(E, e.pool))
    /\ \A x \in E : x.source \in Signature => \E e \in pools : e.pool = x.pool
    /\ \A x \in E : x.source \notin Signature =>
          /\ \A y \in E : y.pool = x.pool => y = x
          /\ \A e \in pools : e.pool # x.pool

\* A pool is given back once, when no entry has it, and none is lost.
GivenBack(E, size, given) ==
    /\ size \in [Pools -> Nat]
    /\ given \in SUBSET [pool : Pools \cup {S!Null}, readers : SUBSET S!Workers]
    /\ \A x \in E : size[x.pool] > 0
    /\ \A c \in given : c.pool \in Pools =>
          size[c.pool] > 0 /\ \A x \in E : x.pool # c.pool
    /\ \A c, d \in given : c.pool = d.pool /\ c.pool \in Pools => c = d
    /\ (\A c \in given : c.pool # S!Null) =>
          \A p \in Pools : size[p] > 0 => \/ \E x \in E : x.pool = p
                                         \/ \E c \in given : c.pool = p

\* What a worker uses is not given back before the worker's next checkpoint.
Working ==
    /\ active \in SUBSET S!Workers
    /\ using \in [S!Workers -> Pools \cup {S!Absent}]
    /\ out \in [Pools -> Nat]
    /\ \A w \in S!Workers : using[w] # S!Absent =>
          /\ w \in active /\ elt_size[using[w]] > 0
          /\ \A c \in callbacks : c.pool = using[w] => w \in c.readers
    /\ \A p \in Pools : out[p] > 0 => elt_size[p] > 0

\* The load of a worker.
Loaded(E, loads) ==
    /\ loads \in [S!Workers -> Nat]
    /\ \A w \in S!Workers : loads[w] = LoadOf({x \in E : WorkerOf[x.pq] = w})

SInv == /\ Listed(m_tib, m_source_pools) /\ Shared(m_tib, m_pools)
        /\ GivenBack(m_tib, elt_size, callbacks) /\ Working /\ Loaded(m_tib, m_tx_loads)

\* No pool has the name of a missing one.
LEMMA Nulls == S!Null \notin Pools /\ S!Absent \notin Pools /\ S!Null # S!Absent
  BY SourceConstants DEF S!Null, S!Absent

\* Every shared pool has a user.
LEMMA SharedUsed ==
    ASSUME NEW E \in SUBSET Entry, IsFiniteSet(E), NEW pools, Shared(E, pools), NEW e \in pools
    PROVE  /\ IsFiniteSet(Users(E, e.pool))
           /\ \E x \in E : x.pool = e.pool /\ x.source \in Signature
<1>1. IsFiniteSet(Users(E, e.pool))
  BY FS_Subset DEF Users
<1>2. e.ref_count # 0 /\ e.ref_count = Cardinality(Users(E, e.pool))
  BY DEF Shared
<1>3. Users(E, e.pool) # {}
  BY <1>2, FS_EmptySet
<1>4. PICK x \in E : x.pool = e.pool
  BY <1>3 DEF Users
<1>5. x.source \in Signature
  BY <1>4 DEF Shared
<1> QED BY <1>1, <1>4, <1>5

\* A smallest of the pools that match is one of them.
LEMMA SmallestMatches ==
    ASSUME NEW q, NEW s, S!matching(q, s) # {}, elt_size \in [Pools -> Nat],
           Shared(m_tib, m_pools)
    PROVE  (CHOOSE e \in S!matching(q, s) :
               \A f \in S!matching(q, s) : elt_size[e.pool] <= elt_size[f.pool])
           \in S!matching(q, s)
<1> DEFINE sizes == {elt_size[e.pool] : e \in S!matching(q, s)}
<1>1. \A e \in S!matching(q, s) : e.pool \in Pools
  BY DEF S!matching, Shared
<1>2. sizes \subseteq Nat /\ sizes # {}
  BY <1>1
<1>3. PICK n \in sizes : \A k \in sizes : n <= k
  BY <1>2, LeastNumber
<1>4. PICK e \in S!matching(q, s) : n = elt_size[e.pool]
  OBVIOUS
<1>5. \A f \in S!matching(q, s) : elt_size[e.pool] <= elt_size[f.pool]
  BY <1>3, <1>4
<1> QED BY <1>5

\* What acquire() yields when it does not fail: a new pool of the source's own, a shared
\* one, or a new one to be shared.
Acquired(a, q, s) ==
    /\ a.known = S!emplace(s, a.pool)
    /\ \/ /\ s \notin Signature /\ a.pool \in Pools /\ elt_size[a.pool] = 0
          /\ a.shared = m_pools
          /\ a.size = [elt_size EXCEPT ![a.pool] = MaxLen[s] + Overhead]
       \/ \E e \in m_pools :
          /\ s \in Signature /\ a.pool = e.pool
          /\ a.shared = S!share(e) /\ a.size = elt_size
       \/ /\ s \in Signature /\ a.pool \in Pools /\ elt_size[a.pool] = 0
          /\ a.shared = m_pools \cup {[pool |-> a.pool, pq |-> q, ref_count |-> 1]}
          /\ a.size = [elt_size EXCEPT ![a.pool] = MaxLen[s] + Overhead]

\* There is nothing else.
LEMMA AcquireCases ==
    ASSUME NEW q, NEW s, NEW a \in S!acquire(q, s), a.pool # S!Null,
           elt_size \in [Pools -> Nat], Shared(m_tib, m_pools)
    PROVE  Acquired(a, q, s)
<1> USE DEF Acquired
<1>1. \A p \in S!get_mempool : p # S!Null => p \in Pools /\ elt_size[p] = 0
  BY DEF S!get_mempool, S!live
<1>2. CASE s \notin Signature
  <2>1. PICK p \in S!get_mempool :
          a = [pool |-> p, shared |-> m_pools, known |-> S!emplace(s, p), size |-> S!allocate(p, s)]
    BY <1>2 DEF S!acquire
  <2> QED BY <1>1, <1>2, <2>1 DEF S!allocate
<1>3. CASE s \in Signature /\ S!matching(q, s) # {}
  <2> DEFINE e == CHOOSE e \in S!matching(q, s) :
                    \A f \in S!matching(q, s) : elt_size[e.pool] <= elt_size[f.pool]
  <2>1. a = [pool |-> e.pool, shared |-> S!share(e), known |-> S!emplace(s, e.pool),
             size |-> elt_size]
    BY <1>3 DEF S!acquire
  <2>2. e \in S!matching(q, s)
    BY <1>3, SmallestMatches
  <2> HIDE DEF e
  <2>3. e \in m_pools
    BY <2>2 DEF S!matching
  <2> QED BY <1>3, <2>1, <2>3
<1>4. CASE s \in Signature /\ S!matching(q, s) = {}
  <2>1. PICK p \in S!get_mempool :
          a = IF p = S!Null
              THEN [pool |-> S!Null, shared |-> m_pools, known |-> m_source_pools, size |-> elt_size]
              ELSE [pool |-> p,
                    shared |-> m_pools \cup {[pool |-> p, pq |-> q, ref_count |-> 1]},
                    known |-> S!emplace(s, p), size |-> S!allocate(p, s)]
    BY <1>4 DEF S!acquire
  <2>2. p # S!Null
    BY <2>1
  <2>3. a = [pool |-> p,
             shared |-> m_pools \cup {[pool |-> p, pq |-> q, ref_count |-> 1]},
             known |-> S!emplace(s, p), size |-> S!allocate(p, s)]
    BY <2>1, <2>2
  <2> QED BY <1>1, <1>4, <2>2, <2>3 DEF S!allocate
<1> QED BY <1>2, <1>3, <1>4

\* The users of a pool when an entry comes.
LEMMA UsersCome ==
    ASSUME NEW E \in SUBSET Entry, IsFiniteSet(E), NEW n \in Entry, n \notin E, NEW p
    PROVE  /\ p # n.pool => Users(E \cup {n}, p) = Users(E, p)
           /\ p = n.pool => Cardinality(Users(E \cup {n}, p)) = Cardinality(Users(E, p)) + 1
           /\ Cardinality(Users(E, p)) \in Nat
<1>1. IsFiniteSet(Users(E, p)) /\ n \notin Users(E, p)
  BY FS_Subset DEF Users
<1>2. p # n.pool => Users(E \cup {n}, p) = Users(E, p)
  BY DEF Users
<1>3. p = n.pool => Users(E \cup {n}, p) = Users(E, p) \cup {n}
  BY DEF Users
<1> QED BY <1>1, <1>2, <1>3, FS_AddElement, FS_CardinalityType

\* The users of a pool when an entry goes.
LEMMA UsersGo ==
    ASSUME NEW E \in SUBSET Entry, IsFiniteSet(E), NEW n \in E, NEW p
    PROVE  /\ p # n.pool => Users(E \ {n}, p) = Users(E, p)
           /\ p = n.pool => Cardinality(Users(E \ {n}, p)) = Cardinality(Users(E, p)) - 1
           /\ Cardinality(Users(E, p)) \in Nat
<1>1. IsFiniteSet(Users(E, p)) /\ (p = n.pool => n \in Users(E, p))
  BY FS_Subset DEF Users
<1>2. p # n.pool => Users(E \ {n}, p) = Users(E, p)
  BY DEF Users
<1>3. p = n.pool => Users(E \ {n}, p) = Users(E, p) \ {n}
  BY DEF Users
<1>4. ASSUME p = n.pool PROVE Cardinality(Users(E, p) \ {n}) = Cardinality(Users(E, p)) - 1
  BY <1>1, <1>4, FS_RemoveElement
<1>5. Cardinality(Users(E, p)) \in Nat
  BY <1>1, FS_CardinalityType
<1> QED BY <1>2, <1>3, <1>4, <1>5

\* A source that is added knows its pool.
LEMMA AddListed ==
    ASSUME Listed(m_tib, m_source_pools), NEW n \in Entry,
           \A x \in m_tib : x.source # n.source
    PROVE  Listed(m_tib \cup {n}, S!emplace(n.source, n.pool))
<1> DEFINE s == n.source
           known == S!emplace(s, n.pool)
<1>0. s \in Sources /\ n.pool \in Pools
  BY DEF Entry
<1>1. m_source_pools[s] \in {S!Null, S!Absent}
  BY <1>0 DEF Listed
<1>2. /\ known \in [Sources -> Pools \cup {S!Null, S!Absent}]
      /\ \A t \in Sources : t # s => known[t] = m_source_pools[t]
      /\ known[s] \in {n.pool, S!Null}
      /\ m_source_pools[s] # S!Null => known[s] = n.pool
  BY <1>0, <1>1 DEF Listed, S!emplace
<1> HIDE DEF known
<1>3. m_tib \cup {n} \in SUBSET Entry /\ IsFiniteSet(m_tib \cup {n})
  BY FS_AddElement DEF Listed
<1>4. \A x, y \in m_tib \cup {n} : x.source = y.source => x = y
  BY DEF Listed
<1>5. \A t \in Sources : known[t] \in Pools =>
         \E x \in m_tib \cup {n} : x.source = t /\ x.pool = known[t]
  BY <1>0, <1>2, Nulls DEF Listed
<1>6. \A x \in m_tib \cup {n} : known[x.source] \in {x.pool, S!Null}
  <2> TAKE x \in m_tib \cup {n}
  <2>1. CASE x = n
    BY <2>1, <1>2
  <2>2. CASE x \in m_tib
    <3>1. x.source \in Sources /\ x.source # s
      BY <2>2 DEF Listed, Entry
    <3> QED BY <2>2, <3>1, <1>2 DEF Listed
  <2> QED BY <2>1, <2>2
<1>7. \A t \in Signature : known[t] # S!Null
  <2> TAKE t \in Signature
  <2>1. m_source_pools[t] # S!Null /\ t \in Sources
    BY SourceConstants DEF Listed
  <2> QED BY <2>1, <1>0, <1>2, Nulls
<1> QED BY <1>2, <1>3, <1>4, <1>5, <1>6, <1>7 DEF Listed, known

\* A source with signatures shares its pool, another has its own.
LEMMA AddShared ==
    ASSUME Listed(m_tib, m_source_pools), Shared(m_tib, m_pools),
           GivenBack(m_tib, elt_size, callbacks), NEW n \in Entry,
           \A x \in m_tib : x.source # n.source,
           NEW a \in S!acquire(n.pq, n.source), a.pool = n.pool
    PROVE  Shared(m_tib \cup {n}, a.shared)
<1>0. /\ m_tib \in SUBSET Entry /\ IsFiniteSet(m_tib) /\ n \notin m_tib
      /\ n.source \in Sources /\ n.pool \in Pools /\ n.pq \in PortQueues
      /\ elt_size \in [Pools -> Nat] /\ a.pool # S!Null
  BY Nulls DEF Listed, GivenBack, Entry
<1> DEFINE E == m_tib \cup {n}
           good(pools) == Shared(E, pools)
<1>1. ASSUME elt_size[n.pool] = 0
      PROVE  /\ \A x \in m_tib : x.pool # n.pool
             /\ \A e \in m_pools : e.pool # n.pool
  <2>1. \A x \in m_tib : x.pool # n.pool
    BY <1>1 DEF GivenBack
  <2> QED BY <1>0, <2>1, SharedUsed
<1>2. ASSUME \A e \in m_pools : e.pool # n.pool
      PROVE  \A e \in m_pools : e.ref_count = Cardinality(Users(E, e.pool))
  BY <1>0, <1>2, UsersCome DEF Shared
<1>3. CASE /\ n.source \notin Signature /\ elt_size[n.pool] = 0 /\ a.shared = m_pools
  BY <1>1, <1>2, <1>3 DEF Shared
<1>4. CASE \E e \in m_pools : n.source \in Signature /\ n.pool = e.pool /\ a.shared = S!share(e)
  <2>1. PICK e \in m_pools : n.source \in Signature /\ n.pool = e.pool /\ a.shared = S!share(e)
    BY <1>4
  <2>2. e \in [pool : Pools, pq : PortQueues, ref_count : Nat \ {0}]
    BY DEF Shared
  <2> DEFINE g == [e EXCEPT !.ref_count = @ + 1]
  <2>3. /\ g \in [pool : Pools, pq : PortQueues, ref_count : Nat \ {0}]
        /\ g.pool = e.pool /\ g.ref_count = e.ref_count + 1
    BY <2>2
  <2>4. a.shared = (m_pools \ {e}) \cup {g}
    BY <2>1 DEF S!share
  <2> HIDE DEF g
  <2>5. \A f \in m_pools \ {e} : f.pool # e.pool
    BY DEF Shared
  <2>6. /\ a.shared \in SUBSET [pool : Pools, pq : PortQueues, ref_count : Nat \ {0}]
        /\ \A c, d \in a.shared : c.pool = d.pool => c = d
    BY <2>3, <2>4, <2>5 DEF Shared
  <2>7. g.ref_count = Cardinality(Users(E, g.pool))
    BY <1>0, <2>1, <2>3, UsersCome DEF Shared
  <2>8. \A f \in m_pools \ {e} : f.ref_count = Cardinality(Users(E, f.pool))
    BY <1>0, <2>1, <2>5, UsersCome DEF Shared
  <2>9. \A c \in a.shared : c.ref_count = Cardinality(Users(E, c.pool))
    BY <2>4, <2>7, <2>8
  <2>10. \A x \in E : x.source \in Signature => \E c \in a.shared : c.pool = x.pool
    <3> TAKE x \in E
    <3> HAVE x.source \in Signature
    <3>1. PICK f \in m_pools : f.pool = x.pool
      BY <2>1 DEF Shared
    <3> QED BY <3>1, <2>3, <2>4
  <2>11. \A x \in E : x.source \notin Signature =>
           /\ \A y \in E : y.pool = x.pool => y = x
           /\ \A c \in a.shared : c.pool # x.pool
    BY <2>1, <2>3, <2>4 DEF Shared
  <2> QED BY <2>6, <2>9, <2>10, <2>11 DEF Shared
<1>5. CASE /\ n.source \in Signature /\ elt_size[n.pool] = 0
           /\ a.shared = m_pools \cup {[pool |-> n.pool, pq |-> n.pq, ref_count |-> 1]}
  <2> DEFINE g == [pool |-> n.pool, pq |-> n.pq, ref_count |-> 1]
  <2>1. g \in [pool : Pools, pq : PortQueues, ref_count : Nat \ {0}] /\ g.pool = n.pool /\ g.ref_count = 1
    BY <1>0
  <2>2. a.shared = m_pools \cup {g}
    BY <1>5
  <2> HIDE DEF g
  <2>3. Users(m_tib, n.pool) = {}
    BY <1>1, <1>5 DEF Users
  <2>4. g.ref_count = Cardinality(Users(E, g.pool))
    <3>1. Cardinality(Users(m_tib, n.pool)) = 0
      BY <2>3, FS_EmptySet
    <3>2. Cardinality(Users(E, n.pool)) = Cardinality(Users(m_tib, n.pool)) + 1
      BY <1>0, UsersCome
    <3> QED BY <2>1, <3>1, <3>2
  <2>5. /\ a.shared \in SUBSET [pool : Pools, pq : PortQueues, ref_count : Nat \ {0}]
        /\ \A c, d \in a.shared : c.pool = d.pool => c = d
    BY <1>1, <1>5, <2>1, <2>2 DEF Shared
  <2>6. \A c \in a.shared : c.ref_count = Cardinality(Users(E, c.pool))
    BY <1>1, <1>2, <1>5, <2>2, <2>4
  <2>7. \A x \in E : x.source \in Signature => \E c \in a.shared : c.pool = x.pool
    BY <2>1, <2>2 DEF Shared
  <2>8. \A x \in E : x.source \notin Signature =>
           /\ \A y \in E : y.pool = x.pool => y = x
           /\ \A c \in a.shared : c.pool # x.pool
    BY <1>1, <1>5, <2>1, <2>2 DEF Shared
  <2> QED BY <2>5, <2>6, <2>7, <2>8 DEF Shared
<1>6. \/ n.source \notin Signature /\ elt_size[a.pool] = 0 /\ a.shared = m_pools
      \/ \E e \in m_pools : n.source \in Signature /\ a.pool = e.pool /\ a.shared = S!share(e)
      \/ /\ n.source \in Signature /\ elt_size[a.pool] = 0
         /\ a.shared = m_pools \cup {[pool |-> a.pool, pq |-> n.pq, ref_count |-> 1]}
  <2>1. Acquired(a, n.pq, n.source)
    BY <1>0, AcquireCases
  <2> QED BY <2>1 DEF Acquired
<1> QED BY <1>3, <1>4, <1>5, <1>6

\* Pools that are taken are new or in use.
LEMMA AddGivenBack ==
    ASSUME Listed(m_tib, m_source_pools), Shared(m_tib, m_pools),
           GivenBack(m_tib, elt_size, callbacks), NEW n \in Entry,
           NEW a \in S!acquire(n.pq, n.source), a.pool = n.pool
    PROVE  /\ GivenBack(m_tib \cup {n}, a.size, callbacks)
           /\ \A p \in Pools : elt_size[p] > 0 => a.size[p] > 0
<1>0. /\ n.source \in Sources /\ n.pool \in Pools
      /\ elt_size \in [Pools -> Nat] /\ a.pool # S!Null
      /\ MaxLen[n.source] + Overhead \in Nat /\ MaxLen[n.source] + Overhead > 0
  BY Nulls, SourceConstants DEF GivenBack, Entry
<1>1. CASE elt_size[n.pool] = 0 /\ a.size = [elt_size EXCEPT ![n.pool] = MaxLen[n.source] + Overhead]
  <2>1. a.size \in [Pools -> Nat] /\ a.size[n.pool] > 0 /\ \A p \in Pools \ {n.pool} : a.size[p] = elt_size[p]
    BY <1>0, <1>1
  <2>2. \A x \in m_tib : x.pool \in Pools
    BY DEF Listed, Entry
  <2>3. \A c \in callbacks : c.pool # n.pool
    BY <1>0, <1>1 DEF GivenBack
  <2>4. \A x \in m_tib \cup {n} : a.size[x.pool] > 0
    BY <1>0, <2>1, <2>2 DEF GivenBack
  <2>5. \A p \in Pools : elt_size[p] > 0 => a.size[p] > 0
    BY <2>1
  <2> QED BY <1>0, <2>1, <2>3, <2>4, <2>5 DEF GivenBack
<1>2. CASE a.size = elt_size /\ \E e \in m_pools : n.pool = e.pool
  <2>1. PICK x \in m_tib : x.pool = n.pool
    BY <1>2, SharedUsed DEF Listed
  <2> QED BY <1>2, <2>1 DEF GivenBack
<1>3. \/ /\ elt_size[a.pool] = 0
         /\ a.size = [elt_size EXCEPT ![a.pool] = MaxLen[n.source] + Overhead]
      \/ \E e \in m_pools : a.pool = e.pool /\ a.size = elt_size
  <2>1. Acquired(a, n.pq, n.source)
    BY <1>0, AcquireCases
  <2> QED BY <2>1 DEF Acquired
<1> QED BY <1>1, <1>2, <1>3

\* A source that is removed is unknown.
LEMMA DelListed ==
    ASSUME NEW E, NEW known, Listed(E, known), NEW x \in E
    PROVE  /\ Listed(E \ {x}, [known EXCEPT ![x.source] = S!Absent])
           /\ known[x.source] # S!Absent
<1> DEFINE s == x.source
           k == [known EXCEPT ![s] = S!Absent]
<1>1. s \in Sources /\ E \in SUBSET Entry /\ IsFiniteSet(E) /\ x.pool \in Pools
  BY DEF Listed, Entry
<1>2. known[s] # S!Absent
  BY <1>1, Nulls DEF Listed
<1>3. k \in [Sources -> Pools \cup {S!Null, S!Absent}] /\ k[s] = S!Absent
      /\ \A t \in Sources : t # s => k[t] = known[t]
  BY <1>1 DEF Listed
<1> HIDE DEF k
<1>4. IsFiniteSet(E \ {x})
  BY <1>1, FS_RemoveElement
<1>5. \A y \in E \ {x} : y.source # s /\ y.source \in Sources
  BY DEF Listed, Entry
<1>6. \A t \in Sources : k[t] \in Pools =>
         \E y \in E \ {x} : y.source = t /\ y.pool = k[t]
  <2> TAKE t \in Sources
  <2> HAVE k[t] \in Pools
  <2>1. t # s
    BY <1>3, Nulls
  <2>2. PICK y \in E : y.source = t /\ y.pool = known[t]
    BY <2>1, <1>3 DEF Listed
  <2> QED BY <2>1, <2>2, <1>3
<1>7. \A y \in E \ {x} : k[y.source] \in {y.pool, S!Null}
  BY <1>3, <1>5 DEF Listed
<1>8. \A t \in Signature : k[t] # S!Null
  BY <1>3, Nulls, SourceConstants DEF Listed
<1>9. Listed(E \ {x}, k)
  BY <1>1, <1>3, <1>4, <1>6, <1>7, <1>8 DEF Listed
<1> QED BY <1>2, <1>9 DEF k

\* What release() does: the pool is counted down, or given back when its last user goes.
Released(a, x) ==
    /\ m_source_pools' = [a.known EXCEPT ![x.source] = S!Absent]
    /\ \/ /\ x.source \notin Signature /\ a.known[x.source] \in {x.pool, S!Null}
          /\ m_pools' = a.shared
          /\ callbacks' = callbacks \cup {[pool |-> a.known[x.source], readers |-> active]}
       \/ \E e \in a.shared :
          /\ x.source \in Signature /\ e.pool = x.pool /\ e.ref_count > 1
          /\ m_pools' = (a.shared \ {e}) \cup {[e EXCEPT !.ref_count = @ - 1]}
          /\ callbacks' = callbacks
       \/ \E e \in a.shared :
          /\ x.source \in Signature /\ e.pool = x.pool /\ e.ref_count = 1
          /\ m_pools' = a.shared \ {e}
          /\ callbacks' = callbacks \cup {[pool |-> x.pool, readers |-> active]}

\* There is nothing else.
LEMMA ReleaseCases ==
    ASSUME NEW E, NEW a, Listed(E, a.known), Shared(E, a.shared), NEW x \in E,
           S!release(x.source, a)
    PROVE  Released(a, x)
<1> USE DEF Released
<1> DEFINE p == a.known[x.source]
           mine == {e \in a.shared : e.pool = p}
           kept == {[e EXCEPT !.ref_count = @ - 1] : e \in {f \in mine : f.ref_count > 1}}
<1>1. /\ x.source \in Sources /\ x.pool \in Pools /\ p \in {x.pool, S!Null}
      /\ p # S!Absent
  BY DelListed, Nulls DEF Listed, Entry
<1>2. /\ m_source_pools' = [a.known EXCEPT ![x.source] = S!Absent]
      /\ m_pools' = (a.shared \ mine) \cup kept
      /\ callbacks' = IF kept # {} THEN callbacks
                      ELSE callbacks \cup {[pool |-> p, readers |-> active]}
  BY <1>1 DEF S!release, S!recycle
<1>3. CASE x.source \notin Signature
  <2>1. mine = {}
    BY <1>1, <1>3, Nulls DEF Shared
  <2>2. kept = {}
    BY <2>1
  <2> QED BY <1>1, <1>2, <1>3, <2>1, <2>2
<1>4. CASE x.source \in Signature
  <2>1. p = x.pool
    BY <1>1, <1>4 DEF Listed
  <2>2. PICK e \in a.shared : e.pool = x.pool
    BY <1>4 DEF Shared
  <2>3. mine = {e}
    BY <2>1, <2>2 DEF Shared
  <2>4. e.ref_count \in Nat \ {0}
    BY DEF Shared
  <2>5. CASE e.ref_count > 1
    <3>1. kept = {[e EXCEPT !.ref_count = @ - 1]}
      BY <2>3, <2>5
    <3> HIDE DEF mine, kept
    <3> QED BY <1>2, <1>4, <2>2, <2>3, <2>5, <3>1
  <2>6. CASE e.ref_count = 1
    <3>1. kept = {}
      BY <2>3, <2>6
    <3> HIDE DEF mine, kept
    <3> QED BY <1>2, <1>4, <2>1, <2>2, <2>3, <2>6, <3>1
  <2> QED BY <2>4, <2>5, <2>6
<1> QED BY <1>3, <1>4

\* The counts after a release.
LEMMA DelShared ==
    ASSUME NEW E, NEW a, Listed(E, a.known), Shared(E, a.shared), NEW x \in E,
           S!release(x.source, a)
    PROVE  Shared(E \ {x}, m_pools')
<1>0. E \in SUBSET Entry /\ IsFiniteSet(E)
  BY DEF Listed
<1> DEFINE D == E \ {x}
<1>1. ASSUME NEW e \in a.shared, e.pool # x.pool
      PROVE  e.ref_count = Cardinality(Users(D, e.pool))
  BY <1>0, <1>1, UsersGo DEF Shared
<1>2. CASE x.source \notin Signature /\ m_pools' = a.shared
  <2>1. \A e \in a.shared : e.pool # x.pool
    BY <1>2 DEF Shared
  <2> QED BY <1>1, <1>2, <2>1 DEF Shared
<1>3. CASE \E e \in a.shared :
             /\ x.source \in Signature /\ e.pool = x.pool /\ e.ref_count > 1
             /\ m_pools' = (a.shared \ {e}) \cup {[e EXCEPT !.ref_count = @ - 1]}
  <2>1. PICK e \in a.shared :
          /\ x.source \in Signature /\ e.pool = x.pool /\ e.ref_count > 1
          /\ m_pools' = (a.shared \ {e}) \cup {[e EXCEPT !.ref_count = @ - 1]}
    BY <1>3
  <2>2. e \in [pool : Pools, pq : PortQueues, ref_count : Nat \ {0}]
    BY DEF Shared
  <2> DEFINE g == [e EXCEPT !.ref_count = @ - 1]
  <2>3. /\ g \in [pool : Pools, pq : PortQueues, ref_count : Nat \ {0}]
        /\ g.pool = e.pool /\ g.ref_count = e.ref_count - 1
    BY <2>1, <2>2
  <2>4. m_pools' = (a.shared \ {e}) \cup {g}
    BY <2>1
  <2> HIDE DEF g
  <2>5. \A f \in a.shared \ {e} : f.pool # e.pool
    BY DEF Shared
  <2>6. /\ m_pools' \in SUBSET [pool : Pools, pq : PortQueues, ref_count : Nat \ {0}]
        /\ \A c, d \in m_pools' : c.pool = d.pool => c = d
    BY <2>3, <2>4, <2>5 DEF Shared
  <2>7. g.ref_count = Cardinality(Users(D, g.pool))
    BY <1>0, <2>1, <2>3, UsersGo DEF Shared
  <2>8. \A c \in m_pools' : c.ref_count = Cardinality(Users(D, c.pool))
    BY <1>1, <2>1, <2>4, <2>5, <2>7
  <2>9. \A y \in D : y.source \in Signature => \E c \in m_pools' : c.pool = y.pool
    <3> TAKE y \in D
    <3> HAVE y.source \in Signature
    <3>1. PICK f \in a.shared : f.pool = y.pool
      BY DEF Shared
    <3> QED BY <3>1, <2>3, <2>4
  <2>10. \A y \in D : y.source \notin Signature =>
           /\ \A z \in D : z.pool = y.pool => z = y
           /\ \A c \in m_pools' : c.pool # y.pool
    BY <2>1, <2>3, <2>4 DEF Shared
  <2> QED BY <2>6, <2>8, <2>9, <2>10 DEF Shared
<1>4. CASE \E e \in a.shared :
             /\ x.source \in Signature /\ e.pool = x.pool /\ e.ref_count = 1
             /\ m_pools' = a.shared \ {e}
  <2>1. PICK e \in a.shared :
          /\ x.source \in Signature /\ e.pool = x.pool /\ e.ref_count = 1
          /\ m_pools' = a.shared \ {e}
    BY <1>4
  <2>2. \A f \in m_pools' : f.pool # x.pool /\ f \in a.shared
    BY <2>1 DEF Shared
  <2>3. \A y \in D : y.pool # x.pool
    <3>1. Cardinality(Users(E, x.pool)) = 1
      BY <2>1 DEF Shared
    <3>2. IsFiniteSet(Users(E, x.pool))
      BY <1>0, FS_Subset DEF Users
    <3>3. PICK z : Users(E, x.pool) = {z}
      BY <3>1, <3>2, FS_Singleton
    <3> QED BY <3>3 DEF Users
  <2>4. \A f \in m_pools' : f.ref_count = Cardinality(Users(D, f.pool))
    BY <1>1, <2>2
  <2>5. \A y \in D : y.source \in Signature => \E c \in m_pools' : c.pool = y.pool
    <3> TAKE y \in D
    <3> HAVE y.source \in Signature
    <3>1. PICK f \in a.shared : f.pool = y.pool
      BY DEF Shared
    <3> QED BY <3>1, <2>1, <2>3
  <2> QED BY <2>2, <2>4, <2>5 DEF Shared
<1>5. Released(a, x)
  BY ReleaseCases
<1> QED BY <1>2, <1>3, <1>4, <1>5 DEF Released

\* A pool is given back by the last of its users.
LEMMA DelGivenBack ==
    ASSUME NEW E, NEW a, Listed(E, a.known), Shared(E, a.shared), NEW x \in E,
           NEW size, GivenBack(E, size, callbacks), active \in SUBSET S!Workers,
           S!release(x.source, a)
    PROVE  /\ GivenBack(E \ {x}, size, callbacks')
           /\ \A c \in callbacks' : c \in callbacks \/ c.readers = active
<1> DEFINE D == E \ {x}
<1>0. E \in SUBSET Entry /\ IsFiniteSet(E) /\ x.pool \in Pools /\ x.source \in Sources
  BY DEF Listed, Entry
<1>1. \A c \in callbacks : c.pool # x.pool
  BY <1>0 DEF GivenBack
<1>2. ASSUME callbacks' = callbacks \cup {[pool |-> x.pool, readers |-> active]},
             \A y \in D : y.pool # x.pool
      PROVE  GivenBack(D, size, callbacks')
  <2> DEFINE c == [pool |-> x.pool, readers |-> active]
  <2>1. c \in [pool : Pools \cup {S!Null}, readers : SUBSET S!Workers] /\ c.pool = x.pool
    BY <1>0
  <2>2. callbacks' = callbacks \cup {c}
    BY <1>2
  <2> HIDE DEF c
  <2>3. /\ callbacks' \in SUBSET [pool : Pools \cup {S!Null}, readers : SUBSET S!Workers]
        /\ \A b, d \in callbacks' : b.pool = d.pool /\ b.pool \in Pools => b = d
    BY <1>1, <2>1, <2>2 DEF GivenBack
  <2>4. \A d \in callbacks' : d.pool \in Pools =>
          size[d.pool] > 0 /\ \A y \in D : y.pool # d.pool
    BY <1>2, <2>1, <2>2 DEF GivenBack
  <2>5. ASSUME \A d \in callbacks' : d.pool # S!Null, NEW p \in Pools, size[p] > 0
        PROVE  (\E y \in D : y.pool = p) \/ \E d \in callbacks' : d.pool = p
    <3>1. (\E y \in E : y.pool = p) \/ \E d \in callbacks : d.pool = p
      BY <2>5, <2>2 DEF GivenBack
    <3> QED BY <3>1, <2>1, <2>2
  <2> QED BY <2>3, <2>4, <2>5 DEF GivenBack
<1>3. CASE /\ x.source \notin Signature /\ a.known[x.source] \in {x.pool, S!Null}
           /\ callbacks' = callbacks \cup {[pool |-> a.known[x.source], readers |-> active]}
  <2>1. CASE a.known[x.source] = x.pool
    <3>1. \A y \in D : y.pool # x.pool
      BY <1>3 DEF Shared
    <3> QED BY <1>2, <1>3, <2>1, <3>1
  <2>2. CASE a.known[x.source] = S!Null
    <3> DEFINE c == [pool |-> S!Null, readers |-> active]
    <3>1. c \in [pool : Pools \cup {S!Null}, readers : SUBSET S!Workers] /\ c.pool = S!Null
          /\ c.readers = active
      OBVIOUS
    <3>2. callbacks' = callbacks \cup {c}
      BY <1>3, <2>2
    <3> HIDE DEF c
    <3> QED BY <3>1, <3>2, Nulls DEF GivenBack
  <2> QED BY <1>3, <2>1, <2>2
<1>4. CASE \E e \in a.shared : e.pool = x.pool /\ e.ref_count > 1 /\ callbacks' = callbacks
  <2>1. PICK e \in a.shared : e.pool = x.pool /\ e.ref_count > 1
    BY <1>4
  <2>2. Cardinality(Users(D, x.pool)) # 0
    <3>1. Cardinality(Users(E, x.pool)) > 1
      BY <2>1 DEF Shared
    <3>2. /\ Cardinality(Users(D, x.pool)) = Cardinality(Users(E, x.pool)) - 1
          /\ Cardinality(Users(E, x.pool)) \in Nat
      BY <1>0, UsersGo
    <3> QED BY <3>1, <3>2
  <2>3. PICK z \in D : z.pool = x.pool
    <3>1. Users(D, x.pool) # {}
      BY <2>2, FS_EmptySet
    <3> QED BY <3>1 DEF Users
  <2> QED BY <1>4, <2>3 DEF GivenBack
<1>5. CASE \E e \in a.shared : /\ e.pool = x.pool /\ e.ref_count = 1
                             /\ callbacks' = callbacks \cup {[pool |-> x.pool, readers |-> active]}
  <2>1. PICK e \in a.shared : e.pool = x.pool /\ e.ref_count = 1
    BY <1>5
  <2>2. \A y \in D : y.pool # x.pool
    <3>1. Cardinality(Users(E, x.pool)) = 1
      BY <2>1 DEF Shared
    <3>2. IsFiniteSet(Users(E, x.pool))
      BY <1>0, FS_Subset DEF Users
    <3>3. PICK z : Users(E, x.pool) = {z}
      BY <3>1, <3>2, FS_Singleton
    <3> QED BY <3>3 DEF Users
  <2> QED BY <1>2, <1>5, <2>2
<1>6. \/ /\ x.source \notin Signature /\ a.known[x.source] \in {x.pool, S!Null}
         /\ callbacks' = callbacks \cup {[pool |-> a.known[x.source], readers |-> active]}
      \/ \E e \in a.shared : e.pool = x.pool /\ e.ref_count > 1 /\ callbacks' = callbacks
      \/ \E e \in a.shared : /\ e.pool = x.pool /\ e.ref_count = 1
                            /\ callbacks' = callbacks \cup {[pool |-> x.pool, readers |-> active]}
  <2>1. Released(a, x)
    BY ReleaseCases
  <2> QED BY <2>1 DEF Released
<1>7. \A c \in callbacks' : c \in callbacks \/ c.readers = active
  BY <1>6
<1> QED BY <1>3, <1>4, <1>5, <1>6, <1>7

\* A queue is found for every source: one of the numbers is the least.
LEMMA QueueFound ==
    ASSUME NEW s \in Sources, NEW loads \in [S!Workers -> Nat]
    PROVE  S!get_queue(TargetPort[s], loads) \in PortQueues
<1> DEFINE range == {q \in PortQueues : q[1] = TargetPort[s]}
           lightest(q) == \A r \in range : loads[WorkerOf[q]] <= loads[WorkerOf[r]]
           least == {q \in range : lightest(q)}
           amounts == {loads[WorkerOf[q]] : q \in range}
           numbers == {q[2] : q \in least}
<1>1. range # {} /\ \A q \in range : loads[WorkerOf[q]] \in Nat
  BY SourceConstants DEF S!Workers
<1>2. PICK n \in amounts : \A k \in amounts : n <= k
  <2>1. amounts \subseteq Nat /\ amounts # {}
    BY <1>1
  <2> HIDE DEF amounts
  <2> QED BY <2>1, LeastNumber
<1>3. PICK q \in range : n = loads[WorkerOf[q]]
  OBVIOUS
<1>4. q \in least
  BY <1>2, <1>3
<1>5. PICK m \in numbers : \A k \in numbers : m <= k
  <2>1. numbers \subseteq Nat /\ numbers # {}
    BY <1>4, SourceConstants
  <2> HIDE DEF numbers
  <2> QED BY <2>1, LeastNumber
<1>6. PICK t \in least : m = t[2]
  OBVIOUS
<1>7. \A r \in least : t[2] <= r[2]
  BY <1>5, <1>6
<1>8. S!get_queue(TargetPort[s], loads) = CHOOSE u \in least : \A r \in least : u[2] <= r[2]
  BY DEF S!get_queue
<1> HIDE DEF least
<1>9. S!get_queue(TargetPort[s], loads) \in least
  BY <1>7, <1>8
<1> QED BY <1>9 DEF least

\* An entry comes and its load with it.
LEMMA LoadComes ==
    ASSUME NEW E \in SUBSET Entry, IsFiniteSet(E), NEW loads, Loaded(E, loads),
           NEW n \in Entry, n \notin E
    PROVE  Loaded(E \cup {n}, S!plus_load(loads, WorkerOf[n.pq], n.source))
<1> DEFINE of(w) == {x \in E : WorkerOf[x.pq] = w}
           with(w) == {x \in E \cup {n} : WorkerOf[x.pq] = w}
           v == WorkerOf[n.pq]
           after == S!plus_load(loads, v, n.source)
<1>1. v \in S!Workers /\ Load[n.source] \in Nat /\ loads \in [S!Workers -> Nat]
  BY SourceConstants DEF Entry, S!Workers, Loaded
<1>2. /\ after \in [S!Workers -> Nat] /\ after[v] = loads[v] + Load[n.source]
      /\ \A w \in S!Workers : w # v => after[w] = loads[w]
  BY <1>1 DEF S!plus_load
<1> HIDE DEF after
<1>3. ASSUME NEW w \in S!Workers PROVE after[w] = LoadOf(with(w))
  <2>0. loads[w] = LoadOf(of(w))
    BY DEF Loaded
  <2>1. CASE w # v
    <3>1. with(w) = of(w)
      BY <2>1
    <3> QED BY <2>0, <2>1, <3>1, <1>2
  <2>2. CASE w = v
    <3>1. with(w) = of(w) \cup {n} /\ with(w) \ {n} = of(w)
      BY <2>2
    <3>2. IsFiniteSet(with(w)) /\ with(w) \in SUBSET Entry /\ n \in with(w)
      <4>1. IsFiniteSet(E \cup {n})
        BY FS_AddElement
      <4>2. with(w) \in SUBSET (E \cup {n}) /\ n \in with(w)
        BY <2>2
      <4> QED BY <4>1, <4>2, FS_Subset
    <3> HIDE DEF with, of
    <3>3. LoadOf(with(w)) = Load[n.source] + LoadOf(of(w)) /\ LoadOf(of(w)) \in Nat
      BY <3>1, <3>2, LoadAdds
    <3> QED BY <2>0, <2>2, <3>3, <1>1, <1>2
  <2> QED BY <2>1, <2>2
<1> QED BY <1>2, <1>3 DEF Loaded, after

\* An entry goes and its load with it; there is at least that much.
LEMMA LoadGoes ==
    ASSUME NEW E \in SUBSET Entry, IsFiniteSet(E), NEW loads, Loaded(E, loads), NEW n \in E
    PROVE  Loaded(E \ {n}, S!minus_load(loads, WorkerOf[n.pq], n.source))
<1> DEFINE of(w) == {x \in E : WorkerOf[x.pq] = w}
           less(w) == {x \in E \ {n} : WorkerOf[x.pq] = w}
           v == WorkerOf[n.pq]
           after == S!minus_load(loads, v, n.source)
<1>1. v \in S!Workers /\ Load[n.source] \in Nat /\ loads \in [S!Workers -> Nat]
  BY SourceConstants DEF Entry, S!Workers, Loaded
<1>2. loads[v] = Load[n.source] + LoadOf(less(v)) /\ LoadOf(less(v)) \in Nat
  <2>1. of(v) \ {n} = less(v) /\ n \in of(v)
    OBVIOUS
  <2>2. IsFiniteSet(of(v)) /\ of(v) \in SUBSET Entry
    BY FS_Subset
  <2>3. loads[v] = LoadOf(of(v))
    BY <1>1 DEF Loaded
  <2> HIDE DEF of, less, v
  <2> QED BY <2>1, <2>2, <2>3, LoadAdds
<1>3. /\ after \in [S!Workers -> Nat] /\ after[v] = LoadOf(less(v))
      /\ \A w \in S!Workers : w # v => after[w] = loads[w]
  BY <1>1, <1>2 DEF S!minus_load
<1> HIDE DEF after
<1>4. ASSUME NEW w \in S!Workers PROVE after[w] = LoadOf(less(w))
  <2>1. CASE w # v
    <3>1. less(w) = of(w)
      BY <2>1
    <3>2. loads[w] = LoadOf(of(w))
      BY DEF Loaded
    <3> QED BY <2>1, <3>1, <3>2, <1>3
  <2>2. CASE w = v
    BY <2>2, <1>3
  <2> QED BY <2>1, <2>2
<1> QED BY <1>3, <1>4 DEF Loaded, after

\* Workers go on with what they have when the table and the pools change.
LEMMA WorkKept ==
    ASSUME SInv, UNCHANGED <<active, using, out>>,
           \A p \in Pools : elt_size[p] > 0 => elt_size'[p] > 0,
           \A c \in callbacks' : c \in callbacks \/ c.readers = active
    PROVE  Working'
<1>1. ASSUME NEW w \in S!Workers, using[w] # S!Absent
      PROVE  /\ w \in active /\ elt_size'[using[w]] > 0
             /\ \A c \in callbacks' : c.pool = using[w] => w \in c.readers
  <2>1. using[w] \in Pools /\ w \in active
    BY <1>1 DEF SInv, Working
  <2> QED BY <1>1, <2>1 DEF SInv, Working
<1> QED BY <1>1 DEF SInv, Working

\* acquire() that fails changes no pool; it may leave a nullptr for a source's own pool.
LEMMA AcquireNone ==
    ASSUME NEW q, NEW s \in Sources, NEW a \in S!acquire(q, s), a.pool = S!Null, SInv,
           \A x \in m_tib : x.source # s
    PROVE  /\ a.shared = m_pools /\ a.size = elt_size
           /\ Listed(m_tib, a.known)
<1>0. /\ Listed(m_tib, m_source_pools) /\ Shared(m_tib, m_pools)
      /\ elt_size \in [Pools -> Nat]
  BY DEF SInv, GivenBack
<1>1. CASE s \notin Signature
  <2>1. PICK p \in S!get_mempool :
          a = [pool |-> p, shared |-> m_pools, known |-> S!emplace(s, p), size |-> S!allocate(p, s)]
    BY <1>1 DEF S!acquire
  <2>2. a.shared = m_pools /\ a.size = elt_size /\ a.known = S!emplace(s, S!Null)
    BY <2>1 DEF S!allocate
  <2> DEFINE known == S!emplace(s, S!Null)
  <2>3. /\ known \in [Sources -> Pools \cup {S!Null, S!Absent}]
        /\ known[s] \in Pools => known[s] = m_source_pools[s]
        /\ \A t \in Sources : t # s => known[t] = m_source_pools[t]
    BY <1>0, Nulls DEF Listed, S!emplace
  <2> HIDE DEF known
  <2>4. \A x \in m_tib : x.source # s /\ x.source \in Sources
    BY <1>0 DEF Listed, Entry
  <2>5. \A t \in Sources : known[t] \in Pools =>
           \E x \in m_tib : x.source = t /\ x.pool = known[t]
    BY <1>0, <2>3 DEF Listed
  <2>6. \A x \in m_tib : known[x.source] \in {x.pool, S!Null}
    BY <1>0, <2>3, <2>4 DEF Listed
  <2>7. \A t \in Signature : known[t] # S!Null
    BY <1>0, <1>1, <2>3, SourceConstants DEF Listed
  <2>8. Listed(m_tib, known)
    BY <1>0, <2>3, <2>5, <2>6, <2>7 DEF Listed
  <2> QED BY <2>2, <2>8 DEF known
<1>2. CASE s \in Signature /\ S!matching(q, s) # {}
  <2> DEFINE e == CHOOSE e \in S!matching(q, s) :
                    \A f \in S!matching(q, s) : elt_size[e.pool] <= elt_size[f.pool]
  <2>1. a = [pool |-> e.pool, shared |-> S!share(e), known |-> S!emplace(s, e.pool),
             size |-> elt_size]
    BY <1>2 DEF S!acquire
  <2>2. e \in S!matching(q, s)
    BY <1>0, <1>2, SmallestMatches
  <2> HIDE DEF e
  <2>3. e.pool \in Pools
    BY <1>0, <2>2 DEF S!matching, Shared
  <2> QED BY <2>1, <2>3, Nulls
<1>3. CASE s \in Signature /\ S!matching(q, s) = {}
  <2>1. PICK p \in S!get_mempool :
          a = IF p = S!Null
              THEN [pool |-> S!Null, shared |-> m_pools, known |-> m_source_pools, size |-> elt_size]
              ELSE [pool |-> p,
                    shared |-> m_pools \cup {[pool |-> p, pq |-> q, ref_count |-> 1]},
                    known |-> S!emplace(s, p), size |-> S!allocate(p, s)]
    BY <1>3 DEF S!acquire
  <2>2. p = S!Null
    BY <2>1
  <2>3. a = [pool |-> S!Null, shared |-> m_pools, known |-> m_source_pools, size |-> elt_size]
    BY <2>1, <2>2
  <2> QED BY <1>0, <2>3
<1> QED BY <1>1, <1>2, <1>3

\* acquire() that succeeds, with the entry that the table gets.
LEMMA AcquireKeeps ==
    ASSUME SInv, NEW q \in PortQueues, NEW s \in Sources, \A x \in m_tib : x.source # s,
           NEW a \in S!acquire(q, s), a.pool # S!Null
    PROVE  LET n == S!entry(s, q, a.pool)
           IN  /\ n \in Entry /\ n.source = s /\ n.pq = q /\ n \notin m_tib
               /\ Listed(m_tib \cup {n}, a.known) /\ Shared(m_tib \cup {n}, a.shared)
               /\ GivenBack(m_tib \cup {n}, a.size, callbacks)
               /\ \A p \in Pools : elt_size[p] > 0 => a.size[p] > 0
<1>0. /\ Listed(m_tib, m_source_pools) /\ Shared(m_tib, m_pools)
      /\ GivenBack(m_tib, elt_size, callbacks)
  BY DEF SInv
<1>1. Acquired(a, q, s)
  BY <1>0, AcquireCases DEF GivenBack
<1>2. a.pool \in Pools /\ a.known = S!emplace(s, a.pool)
  BY <1>0, <1>1 DEF Acquired, Shared
<1> DEFINE n == S!entry(s, q, a.pool)
<1>3. n \in Entry /\ n.source = s /\ n.pq = q /\ n.pool = a.pool
  BY <1>2 DEF S!entry, Entry
<1> HIDE DEF n
<1>4. n \notin m_tib
  BY <1>3
<1>5. Listed(m_tib \cup {n}, a.known)
  BY <1>0, <1>2, <1>3, AddListed
<1>6. Shared(m_tib \cup {n}, a.shared)
  BY <1>0, <1>3, AddShared
<1>7. /\ GivenBack(m_tib \cup {n}, a.size, callbacks)
      /\ \A p \in Pools : elt_size[p] > 0 => a.size[p] > 0
  BY <1>0, <1>3, AddGivenBack
<1> QED BY <1>3, <1>4, <1>5, <1>6, <1>7 DEF n

\* A source is added.
LEMMA AddKeeps ==
    ASSUME SInv, NEW s \in Sources, S!add_source(s)
    PROVE  SInv'
<1> DEFINE q == S!get_queue(TargetPort[s], m_tx_loads)
<1>0. q \in PortQueues
  BY QueueFound DEF SInv, Loaded
<1>1. PICK a \in S!acquire(q, s) :
        /\ m_pools' = a.shared /\ m_source_pools' = a.known /\ elt_size' = a.size
        /\ IF a.pool = S!Null
           THEN m_tib' = m_tib /\ m_tx_loads' = m_tx_loads
           ELSE /\ m_tib' = m_tib \cup {S!entry(s, q, a.pool)}
                /\ m_tx_loads' = S!plus_load(m_tx_loads, WorkerOf[q], s)
  BY DEF S!add_source, S!tableVars
<1>2. callbacks' = callbacks /\ UNCHANGED <<active, using, out>> /\ \A x \in m_tib : x.source # s
  BY DEF S!add_source, S!readVars, S!find_queue
<1> HIDE DEF q
<1>3. CASE a.pool # S!Null
  <2> DEFINE n == S!entry(s, q, a.pool)
  <2>1. /\ n \in Entry /\ n.source = s /\ n.pq = q /\ n \notin m_tib
        /\ Listed(m_tib \cup {n}, a.known) /\ Shared(m_tib \cup {n}, a.shared)
        /\ GivenBack(m_tib \cup {n}, a.size, callbacks)
        /\ \A p \in Pools : elt_size[p] > 0 => a.size[p] > 0
    BY <1>0, <1>2, <1>3, AcquireKeeps
  <2>2. m_tib' = m_tib \cup {n} /\ m_tx_loads' = S!plus_load(m_tx_loads, WorkerOf[n.pq], n.source)
    BY <1>1, <1>3, <2>1
  <2> HIDE DEF n
  <2>3. Listed(m_tib', m_source_pools') /\ Shared(m_tib', m_pools')
        /\ GivenBack(m_tib', elt_size', callbacks')
    BY <1>1, <1>2, <2>1, <2>2
  <2>4. Working'
    BY <1>1, <1>2, <2>1, WorkKept
  <2>5. Loaded(m_tib \cup {n}, S!plus_load(m_tx_loads, WorkerOf[n.pq], n.source))
    BY <2>1, LoadComes DEF SInv, Listed
  <2>6. Loaded(m_tib', m_tx_loads')
    BY <2>2, <2>5
  <2> QED BY <2>3, <2>4, <2>6 DEF SInv
<1>4. CASE a.pool = S!Null
  <2>1. a.shared = m_pools /\ a.size = elt_size /\ Listed(m_tib, a.known)
    BY <1>2, <1>4, AcquireNone
  <2>2. m_tib' = m_tib /\ m_tx_loads' = m_tx_loads /\ m_pools' = m_pools /\ elt_size' = elt_size
    BY <1>1, <1>4, <2>1
  <2>3. Listed(m_tib', m_source_pools')
    BY <1>1, <2>1, <2>2
  <2>4. Working'
    BY <1>2, <2>2, WorkKept
  <2> QED BY <1>2, <2>2, <2>3, <2>4 DEF SInv
<1> QED BY <1>3, <1>4

\* A source is deleted.
LEMMA DelKeeps ==
    ASSUME SInv, NEW s \in Sources, S!del_source(s)
    PROVE  SInv'
<1> DEFINE a == [shared |-> m_pools, known |-> m_source_pools]
<1>1. PICK x \in m_tib :
        /\ x.source = s /\ m_tx_loads' = S!minus_load(m_tx_loads, WorkerOf[x.pq], s)
        /\ m_tib' = m_tib \ {x} /\ S!release(s, a)
        /\ elt_size' = elt_size /\ UNCHANGED <<active, using, out>>
  BY DEF S!del_source, S!find_queue, S!readVars
<1>2. a.shared = m_pools /\ a.known = m_source_pools
  OBVIOUS
<1> HIDE DEF a
<1>3. Listed(m_tib, a.known) /\ Shared(m_tib, a.shared) /\ S!release(x.source, a)
  BY <1>1, <1>2 DEF SInv
<1>4. Released(a, x)
  BY <1>3, ReleaseCases
<1>5. Listed(m_tib \ {x}, [a.known EXCEPT ![x.source] = S!Absent])
  BY <1>3, DelListed
<1>6. Listed(m_tib', m_source_pools')
  BY <1>1, <1>4, <1>5 DEF Released
<1>7. Shared(m_tib', m_pools')
  BY <1>1, <1>3, DelShared
<1>8. /\ GivenBack(m_tib', elt_size', callbacks')
      /\ \A c \in callbacks' : c \in callbacks \/ c.readers = active
  BY <1>1, <1>3, DelGivenBack DEF SInv, Working
<1>9. Working'
  BY <1>1, <1>8, WorkKept
<1>10. Loaded(m_tib', m_tx_loads')
  <2>1. Loaded(m_tib \ {x}, S!minus_load(m_tx_loads, WorkerOf[x.pq], x.source))
    BY LoadGoes DEF SInv, Listed
  <2> QED BY <1>1, <2>1
<1> QED BY <1>6, <1>7, <1>8, <1>9, <1>10 DEF SInv

\* A source takes the place of another.
LEMMA SwapKeeps ==
    ASSUME SInv, NEW o \in Sources, NEW i \in Sources, S!swap_source(o, i)
    PROVE  SInv'
<1>1. PICK x \in m_tib : x.source = o /\
        LET loads == S!minus_load(m_tx_loads, WorkerOf[x.pq], o)
            q     == S!get_queue(TargetPort[i], loads)
        IN  \E a \in S!acquire(q, i) :
               IF a.pool = S!Null
               THEN /\ m_tx_loads' = S!plus_load(loads, WorkerOf[x.pq], o)
                    /\ m_source_pools' = a.known
                    /\ UNCHANGED <<m_tib, m_pools, elt_size, callbacks>>
               ELSE /\ m_tx_loads' = S!plus_load(loads, WorkerOf[q], i)
                    /\ m_tib' = (m_tib \ {x}) \cup {S!entry(i, q, a.pool)}
                    /\ elt_size' = a.size
                    /\ S!release(o, a)
  BY DEF S!swap_source, S!find_queue
<1> DEFINE loads == S!minus_load(m_tx_loads, WorkerOf[x.pq], o)
           q     == S!get_queue(TargetPort[i], loads)
<1>2. UNCHANGED <<active, using, out>> /\ \A y \in m_tib : y.source # i
  BY DEF S!swap_source, S!readVars, S!find_queue
<1>3. /\ m_tib \in SUBSET Entry /\ IsFiniteSet(m_tib)
      /\ Loaded(m_tib \ {x}, loads) /\ IsFiniteSet(m_tib \ {x})
  BY <1>1, LoadGoes, FS_RemoveElement DEF SInv, Listed
<1>4. q \in PortQueues
  BY <1>3, QueueFound DEF Loaded
<1>5. PICK a \in S!acquire(q, i) :
        IF a.pool = S!Null
        THEN /\ m_tx_loads' = S!plus_load(loads, WorkerOf[x.pq], o)
             /\ m_source_pools' = a.known
             /\ UNCHANGED <<m_tib, m_pools, elt_size, callbacks>>
        ELSE /\ m_tx_loads' = S!plus_load(loads, WorkerOf[q], i)
             /\ m_tib' = (m_tib \ {x}) \cup {S!entry(i, q, a.pool)}
             /\ elt_size' = a.size
             /\ S!release(o, a)
  BY <1>1
<1> HIDE DEF loads, q
<1>6. CASE a.pool = S!Null
  <2>1. /\ m_tx_loads' = S!plus_load(loads, WorkerOf[x.pq], x.source)
        /\ m_source_pools' = a.known
        /\ UNCHANGED <<m_tib, m_pools, elt_size, callbacks>>
    BY <1>1, <1>5, <1>6
  <2>2. Listed(m_tib, a.known)
    BY <1>2, <1>6, AcquireNone
  <2>3. (m_tib \ {x}) \cup {x} = m_tib /\ x \in Entry /\ x \notin m_tib \ {x}
        /\ m_tib \ {x} \in SUBSET Entry
    BY <1>3
  <2>4. Loaded((m_tib \ {x}) \cup {x}, S!plus_load(loads, WorkerOf[x.pq], x.source))
    BY <1>3, <2>3, LoadComes
  <2>5. Loaded(m_tib', m_tx_loads')
    BY <2>1, <2>3, <2>4
  <2>6. Working'
    BY <1>2, <2>1, WorkKept
  <2>7. Listed(m_tib', m_source_pools')
    BY <2>1, <2>2
  <2> QED BY <2>1, <2>5, <2>6, <2>7 DEF SInv
<1>7. CASE a.pool # S!Null
  <2> DEFINE n == S!entry(i, q, a.pool)
  <2>1. /\ n \in Entry /\ n.source = i /\ n.pq = q /\ n \notin m_tib
        /\ Listed(m_tib \cup {n}, a.known) /\ Shared(m_tib \cup {n}, a.shared)
        /\ GivenBack(m_tib \cup {n}, a.size, callbacks)
        /\ \A p \in Pools : elt_size[p] > 0 => a.size[p] > 0
    BY <1>2, <1>4, <1>7, AcquireKeeps
  <2>2. /\ m_tx_loads' = S!plus_load(loads, WorkerOf[n.pq], n.source)
        /\ m_tib' = (m_tib \ {x}) \cup {n} /\ elt_size' = a.size
        /\ S!release(x.source, a)
    BY <1>1, <1>5, <1>7, <2>1
  <2> HIDE DEF n
  <2> DEFINE E == m_tib \cup {n}
  <2>3. m_tib' = E \ {x} /\ x \in E
    BY <2>1, <2>2
  <2>4. Listed(E, a.known) /\ Shared(E, a.shared) /\ GivenBack(E, a.size, callbacks)
    BY <2>1
  <2> HIDE DEF E
  <2>5. Released(a, x)
    BY <2>2, <2>3, <2>4, ReleaseCases
  <2>6. Listed(E \ {x}, [a.known EXCEPT ![x.source] = S!Absent])
    BY <2>3, <2>4, DelListed
  <2>7. Listed(m_tib', m_source_pools')
    BY <2>3, <2>5, <2>6 DEF Released
  <2>8. Shared(m_tib', m_pools')
    BY <2>2, <2>3, <2>4, DelShared
  <2>9. /\ GivenBack(E \ {x}, a.size, callbacks')
        /\ \A c \in callbacks' : c \in callbacks \/ c.readers = active
    BY <2>2, <2>3, <2>4, DelGivenBack DEF SInv, Working
  <2>10. GivenBack(m_tib', elt_size', callbacks')
    BY <2>2, <2>3, <2>9
  <2>11. Working'
    BY <1>2, <2>1, <2>2, <2>9, WorkKept
  <2>12. Loaded((m_tib \ {x}) \cup {n}, S!plus_load(loads, WorkerOf[n.pq], n.source))
    BY <1>3, <2>1, LoadComes
  <2>13. Loaded(m_tib', m_tx_loads')
    BY <2>2, <2>12
  <2> QED BY <2>7, <2>8, <2>10, <2>11, <2>13 DEF SInv
<1> QED BY <1>6, <1>7

\* The recycler frees a pool that nobody uses.
LEMMA FreeKeeps ==
    ASSUME SInv, NEW c \in callbacks, S!do_mempool_release(c)
    PROVE  SInv'
<1>1. /\ c.readers = {} /\ c.pool # S!Null /\ out[c.pool] = 0
      /\ elt_size' = [elt_size EXCEPT ![c.pool] = 0] /\ callbacks' = callbacks \ {c}
      /\ UNCHANGED <<m_tib, m_tx_loads, m_pools, m_source_pools, active, using, out>>
  BY DEF S!do_mempool_release, S!tableVars, S!readVars
<1>2. c.pool \in Pools /\ \A x \in m_tib : x.pool # c.pool
  BY <1>1 DEF SInv, GivenBack
<1>3. /\ elt_size' \in [Pools -> Nat]
      /\ elt_size'[c.pool] = 0 /\ \A p \in Pools : p # c.pool => elt_size'[p] = elt_size[p]
  BY <1>1, <1>2 DEF SInv, GivenBack
<1>4. \A d \in callbacks' : d \in callbacks /\ d.pool # c.pool
  BY <1>1, <1>2 DEF SInv, GivenBack
<1>5. \A x \in m_tib : x.pool \in Pools
  BY DEF SInv, Listed, Entry
<1>6. GivenBack(m_tib, elt_size', callbacks')
  <2>1. callbacks' \in SUBSET [pool : Pools \cup {S!Null}, readers : SUBSET S!Workers]
    BY <1>1 DEF SInv, GivenBack
  <2>2. \A x \in m_tib : elt_size'[x.pool] > 0
    BY <1>2, <1>3, <1>5 DEF SInv, GivenBack
  <2>3. \A d \in callbacks' : d.pool \in Pools =>
          elt_size'[d.pool] > 0 /\ \A x \in m_tib : x.pool # d.pool
    BY <1>3, <1>4 DEF SInv, GivenBack
  <2>4. \A d, e \in callbacks' : d.pool = e.pool /\ d.pool \in Pools => d = e
    BY <1>4 DEF SInv, GivenBack
  <2>5. ASSUME \A d \in callbacks' : d.pool # S!Null, NEW p \in Pools, elt_size'[p] > 0
        PROVE  (\E x \in m_tib : x.pool = p) \/ \E d \in callbacks' : d.pool = p
    <3>1. p # c.pool /\ elt_size[p] > 0
      BY <1>3, <2>5
    <3>2. \A d \in callbacks : d.pool # S!Null
      BY <1>1, <2>5
    <3> QED BY <1>1, <3>1, <3>2 DEF SInv, GivenBack
  <2> QED BY <1>3, <2>1, <2>2, <2>3, <2>4, <2>5 DEF GivenBack
<1>7. Working'
  <2>1. ASSUME NEW w \in S!Workers, using[w] # S!Absent PROVE using[w] # c.pool /\ using[w] \in Pools
    BY <1>1, <2>1 DEF SInv, Working
  <2>2. \A w \in S!Workers : using[w] # S!Absent =>
          /\ w \in active /\ elt_size'[using[w]] > 0
          /\ \A d \in callbacks' : d.pool = using[w] => w \in d.readers
    BY <1>3, <1>4, <2>1 DEF SInv, Working
  <2>3. \A p \in Pools : out[p] > 0 => elt_size'[p] > 0
    BY <1>1, <1>3 DEF SInv, Working
  <2> QED BY <1>1, <2>2, <2>3 DEF SInv, Working
<1> QED BY <1>1, <1>6, <1>7 DEF SInv

\* A checkpoint is for a worker that uses nothing.
LEMMA CheckpointKeeps ==
    ASSUME SInv, NEW w \in S!Workers, S!checkpoint(w)
    PROVE  SInv'
<1>1. /\ w \in active /\ using[w] = S!Absent /\ active' \in {active, active \ {w}}
      /\ callbacks' = {[c EXCEPT !.readers = @ \ {w}] : c \in callbacks}
      /\ UNCHANGED <<m_tib, m_tx_loads, m_pools, m_source_pools, elt_size, using, out>>
  BY DEF S!checkpoint, S!without, S!tableVars
<1>2. ASSUME NEW d \in callbacks'
      PROVE  \E c \in callbacks : /\ d = [pool |-> c.pool, readers |-> c.readers \ {w}]
                                  /\ d.pool = c.pool /\ d.readers = c.readers \ {w}
  <2>1. PICK c \in callbacks : d = [c EXCEPT !.readers = @ \ {w}]
    BY <1>1
  <2>2. c \in [pool : Pools \cup {S!Null}, readers : SUBSET S!Workers]
    BY DEF SInv, GivenBack
  <2>3. d = [pool |-> c.pool, readers |-> c.readers \ {w}]
    BY <2>1, <2>2
  <2> QED BY <2>3
<1>3. ASSUME NEW c \in callbacks PROVE \E d \in callbacks' : d.pool = c.pool
  <2>1. c \in [pool : Pools \cup {S!Null}, readers : SUBSET S!Workers]
    BY DEF SInv, GivenBack
  <2>2. [c EXCEPT !.readers = @ \ {w}] \in callbacks' /\ [c EXCEPT !.readers = @ \ {w}].pool = c.pool
    BY <1>1, <2>1
  <2> QED BY <2>2
<1>4. GivenBack(m_tib, elt_size, callbacks')
  <2>1. callbacks' \in SUBSET [pool : Pools \cup {S!Null}, readers : SUBSET S!Workers]
    <3> SUFFICES ASSUME NEW d \in callbacks'
                 PROVE  d \in [pool : Pools \cup {S!Null}, readers : SUBSET S!Workers]
      OBVIOUS
    <3>1. PICK c \in callbacks : d = [pool |-> c.pool, readers |-> c.readers \ {w}]
      BY <1>2
    <3>2. c.pool \in Pools \cup {S!Null} /\ c.readers \in SUBSET S!Workers
      BY DEF SInv, GivenBack
    <3> QED BY <3>1, <3>2
  <2>2. \A d \in callbacks' : d.pool \in Pools =>
          elt_size[d.pool] > 0 /\ \A x \in m_tib : x.pool # d.pool
    BY <1>2 DEF SInv, GivenBack
  <2>3. ASSUME NEW d \in callbacks', NEW e \in callbacks', d.pool = e.pool, d.pool \in Pools
        PROVE  d = e
    <3>1. PICK b \in callbacks : d = [pool |-> b.pool, readers |-> b.readers \ {w}] /\ d.pool = b.pool
      BY <1>2
    <3>2. PICK c \in callbacks : e = [pool |-> c.pool, readers |-> c.readers \ {w}] /\ e.pool = c.pool
      BY <1>2
    <3>3. b = c
      BY <2>3, <3>1, <3>2 DEF SInv, GivenBack
    <3> QED BY <3>1, <3>2, <3>3
  <2>4. ASSUME \A d \in callbacks' : d.pool # S!Null, NEW p \in Pools, elt_size[p] > 0
        PROVE  (\E x \in m_tib : x.pool = p) \/ \E d \in callbacks' : d.pool = p
    <3>1. \A d \in callbacks : d.pool # S!Null
      BY <1>3, <2>4
    <3>2. (\E x \in m_tib : x.pool = p) \/ \E d \in callbacks : d.pool = p
      BY <2>4, <3>1 DEF SInv, GivenBack
    <3> QED BY <1>3, <3>2
  <2> QED BY <2>1, <2>2, <2>3, <2>4 DEF SInv, GivenBack
<1>5. Working'
  <2>1. ASSUME NEW v \in S!Workers, using[v] # S!Absent
        PROVE  /\ v \in active'
               /\ \A d \in callbacks' : d.pool = using[v] => v \in d.readers
    <3>1. v # w /\ v \in active
      BY <1>1, <2>1 DEF SInv, Working
    <3>2. ASSUME NEW d \in callbacks', d.pool = using[v] PROVE v \in d.readers
      <4>1. PICK c \in callbacks : d.pool = c.pool /\ d.readers = c.readers \ {w}
        BY <1>2
      <4>2. v \in c.readers
        BY <2>1, <3>2, <4>1 DEF SInv, Working
      <4> QED BY <3>1, <4>1, <4>2
    <3> QED BY <1>1, <3>1, <3>2
  <2>2. active' \in SUBSET S!Workers
    BY <1>1 DEF SInv, Working
  <2> QED BY <1>1, <2>1, <2>2 DEF SInv, Working
<1> QED BY <1>1, <1>4, <1>5 DEF SInv

\* What workers and drivers do otherwise leaves the table and the pools alone.
LEMMA WorkerKeeps ==
    ASSUME SInv,
           \/ \E w \in S!Workers : S!guard(w) \/ S!get_source(w) \/ S!pull(w) \/ S!done(w)
           \/ \E p \in Pools : S!sent(p)
    PROVE  SInv'
<1>1. /\ UNCHANGED <<m_tib, m_tx_loads, m_pools, m_source_pools, elt_size, callbacks>>
  BY DEF S!guard, S!get_source, S!pull, S!done, S!sent, S!tableVars, S!poolVars
<1>2. Working'
  <2>1. ASSUME NEW w \in S!Workers, S!guard(w) PROVE Working'
    <3>1. active' = active \cup {w} /\ using' = using /\ out' = out
      BY <2>1 DEF S!guard
    <3> QED BY <1>1, <3>1 DEF SInv, Working
  <2>2. ASSUME NEW w \in S!Workers, S!get_source(w) PROVE Working'
    <3>1. PICK x \in m_tib : w \in active /\ using' = [using EXCEPT ![w] = x.pool]
                            /\ active' = active /\ out' = out
      BY <2>2 DEF S!get_source
    <3>2. /\ x.pool \in Pools /\ elt_size[x.pool] > 0
          /\ \A c \in callbacks : c.pool # x.pool
      BY DEF SInv, Listed, Entry, GivenBack
    <3>3. /\ using' \in [S!Workers -> Pools \cup {S!Absent}] /\ using'[w] = x.pool
          /\ \A v \in S!Workers : v # w => using'[v] = using[v]
      BY <3>1, <3>2 DEF SInv, Working
    <3> QED BY <1>1, <3>1, <3>2, <3>3 DEF SInv, Working
  <2>3. ASSUME NEW w \in S!Workers, S!pull(w) PROVE Working'
    <3> DEFINE p == using[w]
    <3>1. /\ p # S!Absent /\ out' = [out EXCEPT ![p] = @ + 1]
          /\ using' = using /\ active' = active
      BY <2>3 DEF S!pull
    <3>2. p \in Pools /\ elt_size[p] > 0
      BY <3>1 DEF SInv, Working
    <3>3. out' \in [Pools -> Nat] /\ \A r \in Pools : r # p => out'[r] = out[r]
      BY <3>1, <3>2 DEF SInv, Working
    <3> QED BY <1>1, <3>1, <3>2, <3>3 DEF SInv, Working
  <2>4. ASSUME NEW w \in S!Workers, S!done(w) PROVE Working'
    <3>1. using' = [using EXCEPT ![w] = S!Absent] /\ out' = out /\ active' = active
      BY <2>4 DEF S!done
    <3>2. /\ using' \in [S!Workers -> Pools \cup {S!Absent}] /\ using'[w] = S!Absent
          /\ \A v \in S!Workers : v # w => using'[v] = using[v]
      BY <3>1 DEF SInv, Working
    <3> QED BY <1>1, <3>1, <3>2 DEF SInv, Working
  <2>5. ASSUME NEW p \in Pools, S!sent(p) PROVE Working'
    <3>1. out[p] > 0 /\ out' = [out EXCEPT ![p] = @ - 1] /\ using' = using /\ active' = active
      BY <2>5 DEF S!sent
    <3>2. /\ out' \in [Pools -> Nat] /\ \A r \in Pools : out'[r] > 0 => out[r] > 0
      BY <3>1 DEF SInv, Working
    <3> QED BY <1>1, <3>1, <3>2 DEF SInv, Working
  <2> QED BY <2>1, <2>2, <2>3, <2>4, <2>5
<1> QED BY <1>1, <1>2 DEF SInv

\* At first there are no sources.
LEMMA SourcesInit == S!Init => SInv
<1> SUFFICES ASSUME S!Init PROVE SInv
  OBVIOUS
<1> USE DEF S!Init
<1>1. Listed(m_tib, m_source_pools)
  BY FS_EmptySet, Nulls, SourceConstants DEF Listed
<1>2. Shared(m_tib, m_pools)
  BY DEF Shared
<1>3. GivenBack(m_tib, elt_size, callbacks)
  BY DEF GivenBack
<1>4. Working
  BY DEF Working
<1>5. Loaded(m_tib, m_tx_loads)
  <2>1. LoadOf({}) = 0
    BY LoadAdds, FS_EmptySet
  <2>2. \A w \in S!Workers : {x \in m_tib : WorkerOf[x.pq] = w} = {}
    OBVIOUS
  <2> QED BY <2>1, <2>2 DEF Loaded
<1> QED BY <1>1, <1>2, <1>3, <1>4, <1>5 DEF SInv

\* The steps of the other components leave the sources alone.
LEMMA SourcesStep == SInv /\ [MCNext]_all => SInv'
<1>1. ASSUME SInv, UNCHANGED svars PROVE SInv'
  BY <1>1 DEF svars, SInv, Listed, Shared, GivenBack, Working, Loaded
<1>2. ASSUME SInv, S!Next PROVE SInv'
  <2>1. ASSUME S!server PROVE SInv'
    BY <1>2, <2>1, AddKeeps, DelKeeps, SwapKeeps DEF S!server
  <2>2. ASSUME S!gc PROVE SInv'
    BY <1>2, <2>2, FreeKeeps DEF S!gc
  <2>3. ASSUME NEW w \in S!Workers, S!worker(w) PROVE SInv'
    BY <1>2, <2>3, CheckpointKeeps, WorkerKeeps DEF S!worker
  <2>4. ASSUME NEW p \in Pools, S!sent(p) PROVE SInv'
    BY <1>2, <2>4, WorkerKeeps
  <2> QED BY <1>2, <2>1, <2>2, <2>3, <2>4 DEF S!Next
<1>3. MCNext => S!Next \/ UNCHANGED svars
  BY DEF MCNext
<1>4. UNCHANGED all => UNCHANGED svars
  BY DEF all
<1> QED BY <1>1, <1>2, <1>3, <1>4

\* The invariant says what it should.
LEMMA SourcesMean == SInv => SourcesKept
<1> SUFFICES ASSUME SInv PROVE SourcesKept
  OBVIOUS
<1>1. S!LoadConserved
  BY DEF S!LoadConserved, SInv, Loaded, LoadOf
<1>2. S!RefCounted
  <2>1. ASSUME NEW e \in m_pools PROVE e.ref_count = S!Cardinality({x \in m_tib : x.pool = e.pool})
    <3>1. e.ref_count = Cardinality(Users(m_tib, e.pool))
      BY DEF SInv, Shared
    <3> QED BY <3>1 DEF Users, S!Cardinality, Cardinality
  <2> QED BY <2>1 DEF S!RefCounted, SInv, Shared
<1>3. S!PoolsOutliveUse
  BY DEF S!PoolsOutliveUse, S!live, SInv, GivenBack, Working
<1>4. S!NoPoolLost
  BY DEF S!NoPoolLost, S!live, SInv, GivenBack
<1> QED BY <1>1, <1>2, <1>3, <1>4 DEF SourcesKept

\* After any sequence of adds, deletes and swaps of sources, failed ones included
\* (worker_controller.cpp), the load of each worker is that of its sources; shared pools are
\* counted right, no pool is freed while a table, a worker or a driver has it, and none is
\* lost (tx_mempool_allocator.cpp), for any sources, queues, workers and pools.
THEOREM SourcesSound == MCSpec => []SourcesKept
<1>1. MCInit => SInv
  BY SourcesInit DEF MCInit
<1> QED BY <1>1, SourcesStep, SourcesMean, PTL DEF MCSpec
-----------------------------------------------------------------------------
(* The network task: its event loop.                                       *)

\* The sizes of the task are numbers; the operators of its module are the usual ones.
LEMMA TaskConstants ==
    /\ IsFiniteSet(TaskFds)
    /\ HeaderSize \in Nat \ {0} /\ BlockSize \in Nat \ {0}
    /\ LowWater \in Nat \ {0} /\ SendBuffer \in Nat \ {0} /\ MaxOps \in Nat \ {0}
    /\ HeaderSize <= BlockSize
    /\ SizeMax \in Nat
    /\ SizeMax > T!Max({MaxOps, T!Cardinality(TaskFds)})
    /\ \A c \in TaskConfigs : c.connections \in Nat /\ c.ops_per_connection \in Nat
  BY PortUsersAssumption DEF T!NetworkTaskAssumption, T!IsFiniteSet, IsFiniteSet

LEMMA TaskCardinality == ASSUME NEW s PROVE T!Cardinality(s) = Cardinality(s)
  BY DEF T!Cardinality, Cardinality

LEMMA SmallerOfTwo ==
    ASSUME NEW a \in Int, NEW b \in Int
    PROVE  /\ T!Min({a, b}) \in {a, b} /\ T!Min({a, b}) \in Int
           /\ T!Min({a, b}) <= a /\ T!Min({a, b}) <= b
  BY DEF T!Min

LEMMA LargerOfTwo ==
    ASSUME NEW a \in Int, NEW b \in Int
    PROVE  T!Max({a, b}) \in Int /\ T!Max({a, b}) >= a /\ T!Max({a, b}) >= b
  BY DEF T!Max

\* A loop is a record.
IsLoop(l) ==
    l = [running |-> l.running, edge |-> l.edge, events |-> l.events,
         update_list |-> l.update_list, remove_list |-> l.remove_list,
         epoll |-> l.epoll, fresh |-> l.fresh, nb_epoll_events |-> l.nb_epoll_events]

LEMMA LoopFields ==
    ASSUME NEW running, NEW triggered, NEW events, NEW updates, NEW removals, NEW epoll,
           NEW fresh, NEW count, NEW l,
           l = [running |-> running, edge |-> triggered, events |-> events,
                update_list |-> updates, remove_list |-> removals,
                epoll |-> epoll, fresh |-> fresh, nb_epoll_events |-> count]
    PROVE  /\ IsLoop(l) /\ l.events = events /\ l.update_list = updates
           /\ l.remove_list = removals /\ l.epoll = epoll /\ l.nb_epoll_events = count
           /\ l.running = running /\ l.edge = triggered /\ l.fresh = fresh
  BY DEF IsLoop

\* A loop with the events E, of which some are still to be handled.  Only what
\* was handled is on a list; so nothing can get on the list of updates twice.
Kept(l, E, waiting) ==
    /\ IsLoop(l)
    /\ DOMAIN l.events = E
    /\ DOMAIN l.update_list \subseteq E \ waiting
    /\ \A x \in DOMAIN l.update_list : l.update_list[x] = 1
    /\ l.remove_list \subseteq E \ waiting
    /\ DOMAIN l.epoll \subseteq E
    /\ l.nb_epoll_events = Cardinality(DOMAIN l.epoll)

Added(k, l, E, new, c) ==
    /\ Kept(k, E \union new, {})
    /\ k.remove_list = l.remove_list
    /\ \A x \in new : k.events[x] = c
    /\ \A x \in E : k.events[x] = l.events[x]

Updated(k, l, E, waiting, x, c) ==
    /\ Kept(k, E, waiting \ {x})
    /\ k.remove_list = l.remove_list
    /\ k.events[x] = c
    /\ \A y \in E : y # x => k.events[y] = l.events[y]

\* Descriptors that are new are added.
LEMMA LoopAdds ==
    ASSUME NEW l, NEW E, Kept(l, E, {}), NEW new, new \intersect E = {}, NEW c,
           NEW k, k = T!op_event_loop_add_fds(l, new, c)
    PROVE  Added(k, l, E, new, c)
<1> DEFINE events == T!override([x \in new |-> c], l.events)
           updates == T!(+)(l.update_list, T!SetToBag(new))
<1>1. k = [running |-> l.running, edge |-> l.edge, events |-> events,
           update_list |-> updates, remove_list |-> l.remove_list,
           epoll |-> l.epoll, fresh |-> l.fresh, nb_epoll_events |-> l.nb_epoll_events]
  BY DEF T!op_event_loop_add_fds, Kept, IsLoop
<1>2. /\ DOMAIN events = E \union new
      /\ \A x \in new : events[x] = c
      /\ \A x \in E : events[x] = l.events[x]
  BY DEF T!override, Kept
<1>3. /\ DOMAIN updates = DOMAIN l.update_list \union new
      /\ \A x \in DOMAIN updates : updates[x] = 1
  BY DEF T!(+), T!SetToBag, Kept
<1> HIDE DEF events, updates
<1>4. /\ IsLoop(k) /\ k.events = events /\ k.update_list = updates
      /\ k.remove_list = l.remove_list /\ k.epoll = l.epoll
      /\ k.nb_epoll_events = l.nb_epoll_events
  BY <1>1, LoopFields
<1> QED BY <1>2, <1>3, <1>4 DEF Kept, Added

\* A run begins.
LEMMA LoopRuns ==
    ASSUME NEW l, NEW E, NEW waiting, Kept(l, E, waiting),
           NEW k, k = [l EXCEPT !.running = TRUE]
    PROVE  Kept(k, E, waiting) /\ k.remove_list = l.remove_list /\ k.events = l.events
<1>1. k = [running |-> TRUE, edge |-> l.edge, events |-> l.events,
           update_list |-> l.update_list, remove_list |-> l.remove_list,
           epoll |-> l.epoll, fresh |-> l.fresh, nb_epoll_events |-> l.nb_epoll_events]
  BY DEF Kept, IsLoop
<1> QED BY <1>1 DEF Kept, IsLoop

\* A callback changes the callbacks of its own event.
LEMMA LoopUpdates ==
    ASSUME NEW l, NEW E, NEW waiting, Kept(l, E, waiting), waiting \subseteq E,
           NEW x \in waiting, NEW c,
           NEW k, k = T!op_event_loop_update_fd(l, x, c)
    PROVE  Updated(k, l, E, waiting, x, c)
<1> DEFINE events == [l.events EXCEPT ![x] = c]
           updates == T!(+)(l.update_list, T!SetToBag({x}))
<1>1. k = [running |-> l.running, edge |-> l.edge, events |-> events,
           update_list |-> updates, remove_list |-> l.remove_list,
           epoll |-> l.epoll, fresh |-> l.fresh, nb_epoll_events |-> l.nb_epoll_events]
  BY DEF T!op_event_loop_update_fd, Kept, IsLoop
<1>2. /\ DOMAIN events = E /\ events[x] = c
      /\ \A y \in E : y # x => events[y] = l.events[y]
  BY DEF Kept
<1>3. /\ DOMAIN updates = DOMAIN l.update_list \union {x}
      /\ \A y \in DOMAIN updates : updates[y] = 1
  BY DEF T!(+), T!SetToBag, Kept
<1> HIDE DEF events, updates
<1> QED BY <1>1, <1>2, <1>3 DEF Kept, IsLoop, Updated

\* It may also leave the loop alone, or end its run.
LEMMA LoopExits ==
    ASSUME NEW l, NEW E, NEW waiting, Kept(l, E, waiting), NEW x,
           NEW k, k = l \/ k = T!op_event_loop_exit(l)
    PROVE  /\ Kept(k, E, waiting \ {x})
           /\ k.remove_list = l.remove_list /\ k.events = l.events
<1>1. CASE k = l
  BY <1>1 DEF Kept
<1>2. CASE k = T!op_event_loop_exit(l)
  <2>1. k = [running |-> FALSE, edge |-> l.edge, events |-> l.events,
             update_list |-> l.update_list, remove_list |-> l.remove_list,
             epoll |-> l.epoll, fresh |-> l.fresh, nb_epoll_events |-> l.nb_epoll_events]
    BY <1>2 DEF T!op_event_loop_exit, Kept, IsLoop
  <2> QED BY <2>1 DEF Kept, IsLoop
<1> QED BY <1>1, <1>2

\* An error, or a descriptor that hangs up, puts the event on the list of removals.
LEMMA LoopHandles ==
    ASSUME NEW l, NEW E, NEW waiting, Kept(l, E, waiting),
           NEW x \in E, x \notin waiting, NEW events, NEW error,
           NEW k, k = T!handled(l, x, events, error)
    PROVE  /\ Kept(k, E, waiting) /\ k.events = l.events
           /\ k.remove_list \subseteq l.remove_list \union {x}
           /\ l.remove_list \subseteq k.remove_list
           /\ error => x \in k.remove_list
<1>1. CASE k = l
  BY <1>1 DEF T!handled, T!insert_removal, Kept, IsLoop
<1>2. CASE k = T!insert_removal(l, x)
  <2>1. k = [running |-> l.running, edge |-> l.edge, events |-> l.events,
             update_list |-> l.update_list, remove_list |-> l.remove_list \union {x},
             epoll |-> l.epoll, fresh |-> l.fresh, nb_epoll_events |-> l.nb_epoll_events]
    BY <1>2 DEF T!insert_removal, Kept, IsLoop
  <2> QED BY <2>1 DEF Kept, IsLoop
<1> QED BY <1>1, <1>2 DEF T!handled

\* epoll is told of the updates, and reports some of the events.
LEMMA LoopTurns ==
    ASSUME NEW l, NEW E, IsFiniteSet(E), Kept(l, E, {}), l.remove_list = {},
           NEW waiting, NEW k, k = T!waited(T!_do_event_updates(l))
    PROVE  /\ Kept(k, E, waiting)
           /\ k.remove_list = {} /\ k.events = l.events
           /\ DOMAIN T!_do_event_updates(l).epoll \subseteq E
<1> DEFINE new == DOMAIN l.update_list \ DOMAIN l.epoll
           epoll == T!override([x \in DOMAIN l.update_list |-> T!events_mask(l.events[x])], l.epoll)
           count == l.nb_epoll_events + T!Cardinality(new)
<1>1. DOMAIN epoll = DOMAIN l.epoll \union new
  BY DEF T!override
<1>2. count = Cardinality(DOMAIN epoll)
  <2>1. IsFiniteSet(DOMAIN l.epoll) /\ IsFiniteSet(new) /\ DOMAIN l.epoll \intersect new = {}
    BY FS_Subset DEF Kept
  <2>2. Cardinality(DOMAIN l.epoll \union new) = Cardinality(DOMAIN l.epoll) + Cardinality(new)
    <3>1. Cardinality(DOMAIN l.epoll \union new)
            = Cardinality(DOMAIN l.epoll) + Cardinality(new)
              - Cardinality(DOMAIN l.epoll \intersect new)
      BY <2>1, FS_Union
    <3>2. Cardinality(DOMAIN l.epoll) \in Nat /\ Cardinality(new) \in Nat
      BY <2>1, FS_CardinalityType
    <3>3. Cardinality(DOMAIN l.epoll \intersect new) = 0
      BY <2>1, FS_EmptySet
    <3> QED BY <3>1, <3>2, <3>3
  <2> QED BY <1>1, <2>2, TaskCardinality DEF Kept
<1>3. DOMAIN T!EmptyBag = {}
  BY DEF T!EmptyBag, T!SetToBag
<1>4. T!_do_event_updates(l) =
          [running |-> l.running, edge |-> l.edge, events |-> l.events,
           update_list |-> T!EmptyBag, remove_list |-> l.remove_list,
           epoll |-> epoll, fresh |-> l.fresh \union DOMAIN l.update_list,
           nb_epoll_events |-> count]
  <2>1. l = [running |-> l.running, edge |-> l.edge, events |-> l.events,
             update_list |-> l.update_list, remove_list |-> l.remove_list,
             epoll |-> l.epoll, fresh |-> l.fresh, nb_epoll_events |-> l.nb_epoll_events]
    BY DEF Kept, IsLoop
  <2>2. T!_do_event_updates(l) =
          [l EXCEPT !.update_list = T!EmptyBag, !.epoll = epoll,
                    !.fresh = l.fresh \union DOMAIN l.update_list, !.nb_epoll_events = count]
    BY DEF T!_do_event_updates
  <2> HIDE DEF epoll, count, new
  <2> QED BY <2>1, <2>2
<1>5. k = [running |-> l.running, edge |-> l.edge, events |-> l.events,
           update_list |-> T!EmptyBag, remove_list |-> l.remove_list,
           epoll |-> epoll, fresh |-> {}, nb_epoll_events |-> count]
  <2> HIDE DEF epoll, count, new
  <2> QED BY <1>4 DEF T!waited
<1>6. DOMAIN epoll \subseteq E
  BY <1>1 DEF Kept
<1> HIDE DEF epoll, count, new
<1>7. /\ IsLoop(k) /\ k.events = l.events /\ k.update_list = T!EmptyBag
      /\ k.remove_list = l.remove_list /\ k.epoll = epoll /\ k.nb_epoll_events = count
  BY <1>5, LoopFields
<1>8. T!_do_event_updates(l).epoll = epoll
  BY <1>4, LoopFields
<1> QED BY <1>2, <1>3, <1>6, <1>7, <1>8 DEF Kept

\* Events are removed.
LEMMA LoopRemoves ==
    ASSUME NEW l, NEW E, IsFiniteSet(E), Kept(l, E, {}),
           NEW k, k = T!_do_event_removals(l)
    PROVE  /\ Kept(k, E \ l.remove_list, {})
           /\ k.remove_list = {}
           /\ \A x \in E \ l.remove_list : k.events[x] = l.events[x]
<1> DEFINE gone == l.remove_list
           epoll == T!Restrict(l.epoll, DOMAIN l.epoll \ gone)
           updates == T!Restrict(l.update_list, DOMAIN l.update_list \ gone)
           events == T!Restrict(l.events, DOMAIN l.events \ gone)
           count == l.nb_epoll_events - T!Cardinality(gone \intersect DOMAIN l.epoll)
<1>1. k = [running |-> l.running, edge |-> l.edge, events |-> events,
           update_list |-> updates, remove_list |-> {},
           epoll |-> epoll, fresh |-> l.fresh \ gone, nb_epoll_events |-> count]
  BY DEF T!_do_event_removals, Kept, IsLoop
<1>2. /\ DOMAIN epoll = DOMAIN l.epoll \ gone
      /\ DOMAIN updates = DOMAIN l.update_list \ gone
      /\ \A x \in DOMAIN updates : updates[x] = 1
      /\ DOMAIN events = E \ gone
      /\ \A x \in E \ gone : events[x] = l.events[x]
  BY DEF T!Restrict, Kept
<1>3. count = Cardinality(DOMAIN epoll)
  <2> DEFINE e == DOMAIN l.epoll
  <2>1. IsFiniteSet(e)
    BY FS_Subset DEF Kept
  <2> HIDE DEF e
  <2>2. /\ Cardinality(e \intersect gone) \in Nat /\ Cardinality(e \ gone) \in Nat
        /\ Cardinality(e) = Cardinality(e \ gone) + Cardinality(e \intersect gone)
    <3>1. IsFiniteSet(e \intersect gone) /\ IsFiniteSet(e \ gone)
      BY <2>1, FS_Subset
    <3>2. (e \ gone) \union (e \intersect gone) = e /\ (e \ gone) \intersect (e \intersect gone) = {}
      OBVIOUS
    <3>3. Cardinality((e \ gone) \union (e \intersect gone))
            = Cardinality(e \ gone) + Cardinality(e \intersect gone)
              - Cardinality((e \ gone) \intersect (e \intersect gone))
      BY <3>1, FS_Union
    <3>4. Cardinality(e \ gone) \in Nat /\ Cardinality(e \intersect gone) \in Nat
      BY <3>1, FS_CardinalityType
    <3>5. Cardinality((e \ gone) \intersect (e \intersect gone)) = 0
      BY <3>2, FS_EmptySet
    <3>6. Cardinality((e \ gone) \union (e \intersect gone)) = Cardinality(e)
      BY <3>2
    <3> QED BY <3>3, <3>4, <3>5, <3>6
  <2>3. gone \intersect e = e \intersect gone
    OBVIOUS
  <2>4. count = Cardinality(e) - Cardinality(gone \intersect e)
    BY TaskCardinality DEF Kept, e
  <2>5. DOMAIN epoll = e \ gone
    BY <1>2 DEF e
  <2> HIDE DEF count, epoll, gone
  <2>6. Cardinality(gone \intersect e) = Cardinality(e \intersect gone)
    BY <2>3
  <2>7. Cardinality(DOMAIN epoll) = Cardinality(e \ gone)
    BY <2>5
  <2> QED BY <2>2, <2>4, <2>6, <2>7
<1> HIDE DEF epoll, updates, events, count
<1> QED BY <1>1, <1>2, <1>3 DEF Kept, IsLoop

\* All events are removed.
LEMMA LoopPurges ==
    ASSUME NEW l, NEW E, IsFiniteSet(E), Kept(l, E, {}),
           NEW k, k = T!op_event_loop_purge(l)
    PROVE  Kept(k, {}, {}) /\ k.remove_list = {}
<1> DEFINE j == [l EXCEPT !.remove_list = DOMAIN l.events]
<1>1. j = [running |-> l.running, edge |-> l.edge, events |-> l.events,
           update_list |-> l.update_list, remove_list |-> DOMAIN l.events,
           epoll |-> l.epoll, fresh |-> l.fresh, nb_epoll_events |-> l.nb_epoll_events]
  BY DEF Kept, IsLoop
<1>2. k = T!_do_event_removals(j)
  BY DEF T!op_event_loop_purge
<1> HIDE DEF j
<1>3. Kept(j, E, {}) /\ j.remove_list = E
  BY <1>1 DEF Kept, IsLoop
<1>4. E \ E = {}
  OBVIOUS
<1> QED BY <1>2, <1>3, <1>4, LoopRemoves

-----------------------------------------------------------------------------
(* The network task: its callbacks.                                        *)

\* The most operations that a spin is asked for: MaxOps of the worker, or one for
\* each connection when the task is destroyed.
Quota == T!Max({MaxOps, T!Cardinality(TaskFds)})

Conn == [state : {"INIT", "READING", "WRITING", "ERROR", "DONE"}, bytes_left : Nat, ops_left : Int]

Sock == [state : {"connecting", "open", "reset"}, fin : BOOLEAN, room : Nat,
         received : Nat, pending : Int, owed : Nat]

\* The event of a connection asks for what its state needs.
Expected(e, state) ==
    \/ state = "INIT" /\ e = T!connection_init_state
    \/ state = "READING" /\ e = T!connection_reading_state
    \/ state = "WRITING" /\ e = T!connection_writing_state

\* A connection and its socket agree, unless the peer has closed it.
InStep(c, s) ==
    s.state # "reset" /\ ~s.fin =>
        /\ c.state = "INIT" => s.pending = 0 /\ s.owed = 0 /\ s.received = 0
        /\ c.state = "READING" => c.bytes_left = s.owed + s.received /\ s.pending = 0
        /\ c.state = "WRITING" => c.bytes_left = s.pending /\ s.owed = 0 /\ s.received = 0

\* Nothing is lost, as over TCP, and a socket that says it is writable has room for
\* a header.
Reliable == ~Lossy /\ HeaderSize <= LowWater

\* The inductive invariant.
TInv ==
    /\ m_config \in TaskConfigs
    /\ at \in {"idle", "run", "handle", "gone"}
    /\ m_spin_ops_left \in 0..Quota
    /\ DOMAIN m_connections \subseteq TaskFds
    /\ DOMAIN sock = DOMAIN m_connections
    /\ DOMAIN batch \subseteq DOMAIN m_connections
    /\ Kept(loop, DOMAIN m_connections, DOMAIN batch)
    /\ at # "handle" => DOMAIN batch = {} /\ loop.remove_list = {}
    /\ \A x \in DOMAIN m_connections :
         /\ m_connections[x] \in Conn /\ sock[x] \in Sock
         /\ x \notin loop.remove_list => Expected(loop.events[x], m_connections[x].state)
         /\ Reliable => InStep(m_connections[x], sock[x])
    /\ \A x \in DOMAIN batch :
         "EPOLLOUT" \in batch[x] => sock[x].room >= LowWater \/ sock[x].state = "reset"

\* What a callback of the event x does: an operation is done only if the quota has
\* one left, and the connection goes on in step with its socket, or is removed.
Result(x, c, s, l, done, error) ==
    /\ c \in Conn /\ s \in Sock
    /\ done \in {0, 1} /\ (done = 1 => m_spin_ops_left # 0)
    /\ \/ /\ l = loop \/ l = T!op_event_loop_exit(loop)
          /\ error \/ Expected(loop.events[x], c.state)
       \/ \E e : l = T!op_event_loop_update_fd(loop, x, e) /\ Expected(e, c.state)
    /\ Reliable => InStep(c, s)

Sound(r, x) ==
    \E c, s, l, done : \E error \in BOOLEAN :
        r = T!outcome(c, s, l, done, error) /\ Result(x, c, s, l, done, error)

\* The next operation of a connection.
LEMMA NextOp ==
    ASSUME NEW c \in Conn
    PROVE  /\ T!next_op(c) \in Conn /\ T!next_op(c).state = "INIT"
           /\ T!done_with(T!next_op(c)) \in Conn
           /\ T!done_with(T!next_op(c)).state = "DONE"
<1>1. c.ops_left - 1 \in Int
  BY DEF Conn
<1>2. T!next_op(c) \in Conn /\ T!next_op(c).state = "INIT"
  BY <1>1 DEF Conn, T!next_op
<1>3. \A d \in Conn : T!done_with(d) \in Conn /\ T!done_with(d).state = "DONE"
  BY DEF Conn, T!done_with
<1> QED BY <1>2, <1>3

\* do_init() makes a request.
LEMMA RequestSound ==
    ASSUME TInv, NEW x \in DOMAIN batch, m_connections[x].state = "INIT",
           x \notin loop.remove_list,
           "EPOLLOUT" \in batch[x], m_spin_ops_left # 0, NEW stale \in BOOLEAN
    PROVE  Sound(T!make_request(x, stale), x)
<1> DEFINE c == m_connections[x]
           k == sock[x]
           read == m_config.operation = "READ"
           request == IF read THEN HeaderSize ELSE HeaderSize + BlockSize
           n == T!Min({k.room, request})
           s == T!sent(k, n, request)
           update(e) == T!op_event_loop_update_fd(loop, x, e)
           r == T!make_request(x, stale)
<1>1. /\ c \in Conn /\ k \in Sock /\ c.state = "INIT"
      /\ Expected(loop.events[x], "INIT")
      /\ Reliable => InStep(c, k)
      /\ k.room >= LowWater \/ k.state = "reset"
  BY DEF TInv
<1>2. request \in Nat \ {0} /\ (read => request = HeaderSize) /\ (~read => request > HeaderSize)
  BY TaskConstants
<1>3. n \in Int /\ n <= request /\ n <= k.room /\ n \in {k.room, request}
  <2>1. k.room \in Int /\ request \in Int
    BY <1>1, <1>2 DEF Sock
  <2> HIDE DEF request, k
  <2> QED BY <2>1, SmallerOfTwo
<1>4. /\ s \in Sock /\ s.state = k.state /\ s.fin = k.fin /\ s.received = k.received
      /\ s.pending = request - n
      /\ s.owed = IF request = HeaderSize /\ n = request THEN BlockSize ELSE k.owed
  <2> DEFINE pending == request - n
             owed == IF request = HeaderSize /\ n = request THEN BlockSize ELSE k.owed
  <2>1. k \in Sock /\ k.room - n \in Nat /\ pending \in Int /\ owed \in Nat
    <3> HIDE DEF n, request
    <3> QED BY <1>1, <1>2, <1>3, TaskConstants DEF Sock
  <2>2. s = [k EXCEPT !.room = @ - n, !.pending = pending, !.owed = owed]
    BY DEF T!sent
  <2> HIDE DEF n, request, k, s, pending, owed
  <2>3. /\ s \in Sock /\ s.state = k.state /\ s.fin = k.fin /\ s.received = k.received
        /\ s.pending = pending /\ s.owed = owed
    BY <2>1, <2>2 DEF Sock
  <2> QED BY <2>3 DEF pending, owed
<1>5. Reliable /\ k.state # "reset" => n >= HeaderSize
  <2> HIDE DEF request, n
  <2> QED BY <1>1, <1>2, <1>3, TaskConstants DEF Reliable, Sock
<1> HIDE DEF n, request, s
<1>6. CASE k.state = "reset"
  <2>1. r = T!outcome(T!in_error(c), k, loop, 0, TRUE)
    BY <1>6 DEF T!make_request
  <2>2. Result(x, T!in_error(c), k, loop, 0, TRUE)
    BY <1>1, <1>6 DEF Result, T!in_error, Conn, InStep
  <2> QED BY <2>1, <2>2 DEF Sound
<1>7. CASE k.state # "reset" /\ (n = 0 \/ (n < HeaderSize /\ stale))
  <2>1. r = T!outcome(c, s, loop, 0, FALSE)
    BY <1>7 DEF T!make_request, n, request, s
  <2>2. ~Reliable
    BY <1>3, <1>5, <1>7, TaskConstants
  <2>3. Result(x, c, s, loop, 0, FALSE)
    BY <1>1, <1>4, <2>2 DEF Result
  <2> QED BY <2>1, <2>3 DEF Sound
<1>8. CASE k.state # "reset" /\ ~(n = 0 \/ (n < HeaderSize /\ stale)) /\ n < HeaderSize
  <2>1. r = T!outcome(T!in_error(c), s, loop, 0, TRUE)
    BY <1>8 DEF T!make_request, n, request, s
  <2>2. Result(x, T!in_error(c), s, loop, 0, TRUE)
    BY <1>1, <1>4 DEF Result, T!in_error, Conn, InStep
  <2> QED BY <2>1, <2>2 DEF Sound
<1> DEFINE on == k.state # "reset" /\ n # 0 /\ ~(n < HeaderSize)
<1>9. CASE on /\ read
  <2> DEFINE d == [c EXCEPT !.state = "READING", !.bytes_left = BlockSize]
  <2>1. r = T!outcome(d, s, update(T!connection_reading_state), 0, FALSE)
    BY <1>9 DEF T!make_request, n, request, s
  <2>2. d \in Conn /\ d.state = "READING" /\ d.bytes_left = BlockSize
    BY <1>1, TaskConstants DEF Conn
  <2>3. request = HeaderSize /\ n = request
    BY <1>2, <1>3, <1>9, TaskConstants
  <2>4. Reliable => InStep(d, s)
    BY <1>1, <1>4, <2>2, <2>3, TaskConstants DEF InStep, Sock
  <2>5. Expected(T!connection_reading_state, d.state)
    BY <2>2 DEF Expected
  <2> HIDE DEF d
  <2>6. Result(x, d, s, update(T!connection_reading_state), 0, FALSE)
    BY <1>4, <2>2, <2>4, <2>5 DEF Result
  <2> QED BY <2>1, <2>6 DEF Sound
<1>10. CASE on /\ ~read /\ n < request
  <2> DEFINE d == [c EXCEPT !.state = "WRITING", !.bytes_left = request - n]
  <2>1. r = T!outcome(d, s, update(T!connection_writing_state), 0, FALSE)
    BY <1>10 DEF T!make_request, n, request, s
  <2>2. d \in Conn /\ d.state = "WRITING" /\ d.bytes_left = request - n
    <3>1. request - n \in Nat
      BY <1>2, <1>3, <1>10
    <3> HIDE DEF c
    <3> QED BY <1>1, <3>1 DEF Conn
  <2>3. request # HeaderSize
    BY <1>2, <1>10, TaskConstants
  <2>4. Reliable => InStep(d, s)
    BY <1>1, <1>4, <2>2, <2>3 DEF InStep
  <2>5. Expected(T!connection_writing_state, d.state)
    BY <2>2 DEF Expected
  <2> HIDE DEF d
  <2>6. Result(x, d, s, update(T!connection_writing_state), 0, FALSE)
    BY <1>4, <2>2, <2>4, <2>5 DEF Result
  <2> QED BY <2>1, <2>6 DEF Sound
<1>11. CASE on /\ ~read /\ ~(n < request)
  <2> DEFINE d == T!next_op(c)
  <2>1. /\ d \in Conn /\ d.state = "INIT"
        /\ T!done_with(d) \in Conn /\ T!done_with(d).state = "DONE"
    BY <1>1, NextOp
  <2>2. request # HeaderSize /\ request - n = 0
    BY <1>2, <1>3, <1>11, TaskConstants
  <2>3. Reliable => InStep(d, s) /\ InStep(T!done_with(d), s)
    BY <1>1, <1>4, <2>1, <2>2 DEF InStep
  <2>4. Expected(T!connection_init_state, d.state)
    BY <2>1 DEF Expected
  <2>5. CASE c.ops_left > 1
    <3>1. r = T!outcome(d, s, update(T!connection_init_state), 1, FALSE)
      BY <1>11, <2>5 DEF T!make_request, n, request, s
    <3> HIDE DEF d
    <3>2. Result(x, d, s, update(T!connection_init_state), 1, FALSE)
      BY <1>4, <2>1, <2>3, <2>4 DEF Result
    <3> QED BY <3>1, <3>2 DEF Sound
  <2>6. CASE ~(c.ops_left > 1)
    <3>1. r = T!outcome(T!done_with(d), s, loop, 1, TRUE)
      BY <1>11, <2>6 DEF T!make_request, n, request, s
    <3> HIDE DEF d
    <3>2. Result(x, T!done_with(d), s, loop, 1, TRUE)
      BY <1>4, <2>1, <2>3 DEF Result
    <3> QED BY <3>1, <3>2 DEF Sound
  <2> QED BY <2>5, <2>6
<1> QED BY <1>6, <1>7, <1>8, <1>9, <1>10, <1>11

\* do_read() receives a part of a block.
LEMMA ReceiveSound ==
    ASSUME TInv, NEW x \in DOMAIN batch, m_connections[x].state = "READING",
           x \notin loop.remove_list, m_spin_ops_left # 0, NEW late \in BOOLEAN
    PROVE  Sound(T!receive(x, late), x)
<1> DEFINE c == m_connections[x]
           k == sock[x]
           n == T!Min({k.received, c.bytes_left})
           s == [k EXCEPT !.received = @ - n]
           rest == [c EXCEPT !.bytes_left = @ - n]
           r == T!receive(x, late)
<1>1. /\ c \in Conn /\ k \in Sock /\ c.state = "READING"
      /\ Expected(loop.events[x], "READING")
      /\ Reliable => InStep(c, k)
  BY DEF TInv
<1>2. n \in Int /\ n <= k.received /\ n <= c.bytes_left /\ n \in {k.received, c.bytes_left}
  <2>1. k.received \in Int /\ c.bytes_left \in Int
    BY <1>1 DEF Sock, Conn
  <2> HIDE DEF k, c
  <2> QED BY <2>1, SmallerOfTwo
<1>3. k.received \in Nat /\ c.bytes_left \in Nat /\ k.owed \in Nat
      /\ k.received - n \in Nat /\ c.bytes_left - n \in Nat
  <2> HIDE DEF n
  <2> QED BY <1>1, <1>2 DEF Sock, Conn
<1>4. /\ s \in Sock /\ s.state = k.state /\ s.fin = k.fin /\ s.received = k.received - n
      /\ s.pending = k.pending /\ s.owed = k.owed
  <2> HIDE DEF n, k
  <2> QED BY <1>1, <1>3 DEF Sock
<1>5. rest \in Conn /\ rest.bytes_left = c.bytes_left - n /\ rest.state = "READING"
  <2> HIDE DEF n, c
  <2> QED BY <1>1, <1>3 DEF Conn
<1>6. Reliable => InStep(rest, s)
  <2> HIDE DEF n, c, k, s, rest
  <2> QED BY <1>1, <1>2, <1>3, <1>4, <1>5 DEF InStep
<1>7. Reliable => InStep(c, k)
  BY <1>1
<1>8. CASE c.bytes_left = 0
  <2>1. r = T!outcome(c, s, loop, 0, TRUE)
    BY <1>8 DEF T!receive
  <2>2. n = 0
    <3> HIDE DEF n
    <3> QED BY <1>2, <1>3, <1>8
  <2> HIDE DEF n, s, c, k
  <2>3. Reliable => InStep(c, s)
    BY <1>1, <1>3, <1>4, <2>2 DEF InStep
  <2>4. Result(x, c, s, loop, 0, TRUE)
    BY <1>1, <1>4, <2>3 DEF Result
  <2> QED BY <2>1, <2>4 DEF Sound
<1>9. CASE c.bytes_left # 0 /\ rest.bytes_left = 0
  <2> DEFINE d == T!next_op(rest)
             l == T!op_event_loop_update_fd(loop, x, T!connection_init_state)
  <2>1. r = T!outcome(d, s, l, 1, FALSE)
    BY <1>9 DEF T!receive, T!complete
  <2>2. d \in Conn /\ d.state = "INIT"
    <3> HIDE DEF rest
    <3> QED BY <1>5, NextOp
  <2>3. Expected(T!connection_init_state, d.state)
    <3> HIDE DEF d
    <3> QED BY <2>2 DEF Expected
  <2> HIDE DEF n, s, c, k, rest, d
  <2>4. Reliable => InStep(d, s)
    BY <1>3, <1>4, <1>5, <1>6, <1>9, <2>2 DEF InStep
  <2>5. Result(x, d, s, l, 1, FALSE)
    BY <1>4, <2>2, <2>3, <2>4 DEF Result
  <2> QED BY <2>1, <2>5 DEF Sound
<1>10. CASE c.bytes_left # 0 /\ rest.bytes_left # 0 /\ (s.state = "reset" \/ (late /\ ~s.fin))
  <2> DEFINE d == T!in_error(rest)
  <2>1. r = T!outcome(d, s, loop, 0, TRUE)
    BY <1>10 DEF T!receive
  <2> HIDE DEF n, s, c, k, rest
  <2>2. d \in Conn /\ d.state = "ERROR"
    BY <1>5 DEF T!in_error, Conn
  <2> HIDE DEF d
  <2>3. Result(x, d, s, loop, 0, TRUE)
    BY <1>4, <2>2 DEF Result, InStep
  <2> QED BY <2>1, <2>3 DEF Sound
<1>11. CASE c.bytes_left # 0 /\ rest.bytes_left # 0 /\ ~(s.state = "reset" \/ (late /\ ~s.fin))
            /\ s.fin
  <2> DEFINE d == T!done_with(rest)
  <2>1. r = T!outcome(d, s, loop, 0, TRUE)
    BY <1>11 DEF T!receive
  <2> HIDE DEF n, s, c, k, rest
  <2>2. d \in Conn /\ d.state = "DONE"
    BY <1>5 DEF T!done_with, Conn
  <2> HIDE DEF d
  <2>3. Result(x, d, s, loop, 0, TRUE)
    BY <1>4, <2>2 DEF Result, InStep
  <2> QED BY <2>1, <2>3 DEF Sound
<1>12. CASE c.bytes_left # 0 /\ rest.bytes_left # 0 /\ ~(s.state = "reset" \/ (late /\ ~s.fin))
            /\ ~s.fin
  <2>1. r = T!outcome(rest, s, loop, 0, FALSE)
    BY <1>12 DEF T!receive
  <2> HIDE DEF n, s, c, k, rest
  <2>2. Result(x, rest, s, loop, 0, FALSE)
    BY <1>1, <1>4, <1>5, <1>6 DEF Result
  <2> QED BY <2>1, <2>2 DEF Sound
<1> QED BY <1>8, <1>9, <1>10, <1>11, <1>12

\* The quota is used up: the loop is left.
LEMMA LeaveSound ==
    ASSUME TInv, NEW x \in DOMAIN batch, x \notin loop.remove_list
    PROVE  Sound(T!leave(m_connections[x], sock[x]), x)
<1>1. Result(x, m_connections[x], sock[x], T!op_event_loop_exit(loop), 0, FALSE)
  BY DEF TInv, Result
<1> QED BY <1>1 DEF Sound, T!leave

\* do_write() sends a part of a request.
LEMMA WriteSound ==
    ASSUME TInv, NEW x \in DOMAIN batch, m_connections[x].state = "WRITING",
           x \notin loop.remove_list
    PROVE  Sound(T!do_write(x), x)
<1> DEFINE c == m_connections[x]
           k == sock[x]
           n == T!Min({k.room, c.bytes_left})
           s == [k EXCEPT !.room = @ - n, !.pending = @ - n]
           rest == [c EXCEPT !.bytes_left = @ - n]
           r == T!do_write(x)
<1>1. /\ c \in Conn /\ k \in Sock /\ c.state = "WRITING"
      /\ Expected(loop.events[x], "WRITING")
      /\ Reliable => InStep(c, k)
  BY DEF TInv
<1>2. n \in Int /\ n <= k.room /\ n <= c.bytes_left /\ n \in {k.room, c.bytes_left}
  <2>1. k.room \in Int /\ c.bytes_left \in Int
    BY <1>1 DEF Sock, Conn
  <2> HIDE DEF k, c
  <2> QED BY <2>1, SmallerOfTwo
<1>3. /\ k.room - n \in Nat /\ k.pending - n \in Int /\ k.pending \in Int
      /\ c.bytes_left \in Nat /\ c.bytes_left - n \in Nat
  <2> HIDE DEF n
  <2> QED BY <1>1, <1>2 DEF Sock, Conn
<1>4. /\ s \in Sock /\ s.state = k.state /\ s.fin = k.fin /\ s.received = k.received
      /\ s.pending = k.pending - n /\ s.owed = k.owed
  <2> HIDE DEF n, k
  <2> QED BY <1>1, <1>3 DEF Sock
<1>5. rest \in Conn /\ rest.bytes_left = c.bytes_left - n /\ rest.state = "WRITING"
  <2> HIDE DEF n, c
  <2> QED BY <1>1, <1>3 DEF Conn
<1>6. Reliable => InStep(rest, s)
  <2> HIDE DEF n, c, k, s, rest
  <2> QED BY <1>1, <1>2, <1>3, <1>4, <1>5 DEF InStep
<1>7. CASE m_spin_ops_left = 0
  BY <1>7, LeaveSound DEF T!do_write
<1>8. CASE m_spin_ops_left # 0 /\ c.bytes_left = 0
  <2>1. r = T!outcome(c, s, loop, 0, TRUE)
    BY <1>8 DEF T!do_write
  <2>2. Reliable => InStep(c, s)
    <3>1. k.room \in Nat
      BY <1>1 DEF Sock
    <3> HIDE DEF n, c, k, s, rest
    <3>2. n = 0
      BY <1>2, <1>8, <3>1
    <3> QED BY <1>1, <1>3, <1>4, <1>8, <3>2 DEF InStep
  <2> HIDE DEF n, s, c, k
  <2>3. Result(x, c, s, loop, 0, TRUE)
    BY <1>1, <1>4, <2>2 DEF Result
  <2> QED BY <2>1, <2>3 DEF Sound
<1>9. CASE m_spin_ops_left # 0 /\ c.bytes_left # 0 /\ s.state = "reset"
  <2> DEFINE d == T!in_error(c)
  <2>1. r = T!outcome(d, k, loop, 0, TRUE)
    BY <1>9 DEF T!do_write
  <2> HIDE DEF n, s, c, k, rest
  <2>2. d \in Conn /\ d.state = "ERROR"
    BY <1>1 DEF T!in_error, Conn
  <2> HIDE DEF d
  <2>3. Result(x, d, k, loop, 0, TRUE)
    BY <1>1, <2>2 DEF Result, InStep
  <2> QED BY <2>1, <2>3 DEF Sound
<1>10. CASE m_spin_ops_left # 0 /\ c.bytes_left # 0 /\ s.state # "reset" /\ rest.bytes_left = 0
  <2> DEFINE d == T!next_op(rest)
             l == T!op_event_loop_update_fd(loop, x, T!connection_init_state)
  <2>1. r = T!outcome(d, s, l, 1, FALSE)
    BY <1>10 DEF T!do_write, T!complete
  <2>2. d \in Conn /\ d.state = "INIT"
    <3> HIDE DEF rest
    <3> QED BY <1>5, NextOp
  <2>3. Expected(T!connection_init_state, d.state)
    <3> HIDE DEF d
    <3> QED BY <2>2 DEF Expected
  <2> HIDE DEF n, s, c, k, rest, d
  <2>4. Reliable => InStep(d, s)
    BY <1>3, <1>4, <1>5, <1>6, <1>10, <2>2 DEF InStep
  <2>5. Result(x, d, s, l, 1, FALSE)
    BY <1>4, <1>10, <2>2, <2>3, <2>4 DEF Result
  <2> QED BY <2>1, <2>5 DEF Sound
<1>11. CASE m_spin_ops_left # 0 /\ c.bytes_left # 0 /\ s.state # "reset" /\ rest.bytes_left # 0
  <2>1. r = T!outcome(rest, s, loop, 0, FALSE)
    BY <1>11 DEF T!do_write
  <2> HIDE DEF n, s, c, k, rest
  <2>2. Result(x, rest, s, loop, 0, FALSE)
    BY <1>1, <1>4, <1>5, <1>6 DEF Result
  <2> QED BY <2>1, <2>2 DEF Sound
<1> QED BY <1>7, <1>8, <1>9, <1>10, <1>11

\* Whatever was reported, the callback that runs is that of the connection's state.
LEMMA CallbackSound ==
    ASSUME TInv, NEW x \in DOMAIN batch, NEW late \in BOOLEAN, NEW stale \in BOOLEAN
    PROVE  Sound(T!callback(x, late, stale), x)
<1> DEFINE c == m_connections[x]
           e == loop.events[x]
<1>1. /\ c \in Conn /\ sock[x] \in Sock /\ x \notin loop.remove_list
      /\ Expected(e, c.state)
      /\ Reliable => InStep(c, sock[x])
  BY DEF TInv, Kept
<1>2. /\ e.on_read = "do_read" => c.state = "READING"
      /\ e.on_write = "do_init" => c.state = "INIT"
      /\ e.on_write = "do_write" => c.state = "WRITING"
  BY <1>1 DEF Expected, T!connection_init_state, T!connection_reading_state,
     T!connection_writing_state, T!callbacks
<1>3. e.on_read = "do_read" => e.on_write # "do_init" /\ e.on_write # "do_write"
  BY <1>2
<1>4. CASE "EPOLLIN" \in batch[x] /\ e.on_read = "do_read"
  <2>1. T!callback(x, late, stale) = T!do_read(x, late)
    BY <1>3, <1>4 DEF T!callback
  <2>2. CASE m_spin_ops_left = 0
    BY <1>1, <2>1, <2>2, LeaveSound DEF T!do_read
  <2>3. CASE m_spin_ops_left # 0
    BY <1>1, <1>2, <1>4, <2>1, <2>3, ReceiveSound DEF T!do_read
  <2> QED BY <2>2, <2>3
<1>5. CASE "EPOLLOUT" \in batch[x] /\ e.on_write = "do_init" /\ e.on_read # "do_read"
  <2>1. T!callback(x, late, stale) = T!do_init(x, stale)
    BY <1>5 DEF T!callback
  <2>2. CASE c.ops_left = 0 \/ ~m_active \/ T!surplus
    <3>1. T!do_init(x, stale) = T!outcome(T!done_with(c), sock[x], loop, 0, TRUE)
      BY <2>2 DEF T!do_init
    <3>2. T!done_with(c) \in Conn /\ T!done_with(c).state = "DONE"
      BY <1>1 DEF Conn, T!done_with
    <3>3. Result(x, T!done_with(c), sock[x], loop, 0, TRUE)
      BY <1>1, <3>2 DEF Result, InStep
    <3> QED BY <2>1, <3>1, <3>3 DEF Sound
  <2>3. CASE ~(c.ops_left = 0 \/ ~m_active \/ T!surplus) /\ m_spin_ops_left = 0
    BY <1>1, <2>1, <2>3, LeaveSound DEF T!do_init
  <2>4. CASE ~(c.ops_left = 0 \/ ~m_active \/ T!surplus) /\ m_spin_ops_left # 0
    BY <1>1, <1>2, <1>5, <2>1, <2>4, RequestSound DEF T!do_init
  <2> QED BY <2>2, <2>3, <2>4
<1>6. CASE "EPOLLOUT" \in batch[x] /\ e.on_write = "do_write" /\ e.on_read # "do_read"
  <2>1. T!callback(x, late, stale) = T!do_write(x)
    BY <1>6 DEF T!callback
  <2> QED BY <1>1, <1>2, <1>6, <2>1, WriteSound
<1>7. CASE /\ ~("EPOLLIN" \in batch[x] /\ e.on_read = "do_read")
           /\ ~("EPOLLOUT" \in batch[x] /\ e.on_write = "do_init")
           /\ ~("EPOLLOUT" \in batch[x] /\ e.on_write = "do_write")
  <2>1. T!callback(x, late, stale) = T!outcome(c, sock[x], loop, 0, FALSE)
    BY <1>7 DEF T!callback
  <2>2. Result(x, c, sock[x], loop, 0, FALSE)
    BY <1>1 DEF Result
  <2> QED BY <2>1, <2>2 DEF Sound
<1> QED BY <1>3, <1>4, <1>5, <1>6, <1>7

-----------------------------------------------------------------------------
(* The network task: its steps.                                            *)

LEMMA QuotaType ==
    /\ Quota \in Nat /\ Quota < SizeMax /\ MaxOps <= Quota /\ Cardinality(TaskFds) <= Quota
    /\ Cardinality(TaskFds) \in Nat
<1>1. Cardinality(TaskFds) \in Nat /\ MaxOps \in Nat
  BY TaskConstants, FS_CardinalityType
<1>2. /\ T!Max({MaxOps, Cardinality(TaskFds)}) \in Int
      /\ T!Max({MaxOps, Cardinality(TaskFds)}) >= MaxOps
      /\ T!Max({MaxOps, Cardinality(TaskFds)}) >= Cardinality(TaskFds)
  BY <1>1, LargerOfTwo
<1>3. Quota = T!Max({MaxOps, Cardinality(TaskFds)})
  BY TaskCardinality DEF Quota
<1>4. SizeMax > Quota
  BY TaskConstants DEF Quota
<1> QED BY <1>1, <1>2, <1>3, <1>4

\* worker_spin() opens connections with descriptors that are free.
LEMMA SpinKeeps ==
    ASSUME TInv, NEW n \in 1..MaxOps, T!worker_spin(n)
    PROVE  TInv'
<1> DEFINE E == DOMAIN m_connections
<1>1. PICK opened : LET new == T!free_fds(opened)
         IN /\ sock' = T!override([y \in new |-> T!new_socket], sock)
            /\ m_connections' = T!override([y \in new |-> T!new_connection], m_connections)
            /\ loop' = [T!op_event_loop_add_fds(loop, new, T!connection_init_state)
                            EXCEPT !.running = TRUE]
  BY DEF T!worker_spin
<1> DEFINE new == T!free_fds(opened)
           l == T!op_event_loop_add_fds(loop, new, T!connection_init_state)
<1>2. new \subseteq TaskFds \ DOMAIN sock
  BY DEF T!free_fds
<1>3. /\ T!new_socket \in Sock /\ T!new_connection \in Conn
      /\ T!new_connection.state = "INIT" /\ InStep(T!new_connection, T!new_socket)
  BY TaskConstants DEF TInv, T!new_socket, T!new_connection, Sock, Conn, InStep
<1>4. /\ at = "idle" /\ at' = "run" /\ batch' = batch /\ m_config' = m_config
      /\ m_spin_ops_left' = n
  BY DEF T!worker_spin
<1>5. /\ DOMAIN sock' = E \union new /\ DOMAIN m_connections' = E \union new
      /\ \A y \in new : sock'[y] = T!new_socket /\ m_connections'[y] = T!new_connection
      /\ \A y \in E : sock'[y] = sock[y] /\ m_connections'[y] = m_connections[y]
  <2> HIDE DEF new
  <2> QED BY <1>1, <1>2 DEF T!override, TInv, new
<1>6. /\ Kept(loop', E \union new, {}) /\ loop'.remove_list = {}
      /\ \A y \in new : loop'.events[y] = T!connection_init_state
      /\ \A y \in E : loop'.events[y] = loop.events[y]
  <2>1. Kept(loop, E, {}) /\ loop.remove_list = {}
    BY <1>4 DEF TInv
  <2>2. new \intersect E = {}
    BY <1>2 DEF TInv
  <2>3. loop' = [l EXCEPT !.running = TRUE]
    BY <1>1
  <2>3a. l = T!op_event_loop_add_fds(loop, new, T!connection_init_state)
    OBVIOUS
  <2> HIDE DEF new, E, l
  <2>4. Added(l, loop, E, new, T!connection_init_state)
    BY <2>1, <2>2, <2>3a, LoopAdds
  <2>5. Kept(loop', E \union new, {}) /\ loop'.remove_list = l.remove_list /\ loop'.events = l.events
    BY <2>3, <2>4, LoopRuns DEF Added
  <2> QED BY <2>1, <2>4, <2>5 DEF Added
<1>7. n \in 0..Quota
  BY QuotaType, TaskConstants
<1>8. DOMAIN batch = {}
  BY <1>4 DEF TInv
<1> HIDE DEF new, l
<1>9. \A y \in DOMAIN m_connections' :
         /\ m_connections'[y] \in Conn /\ sock'[y] \in Sock
         /\ Expected(loop'.events[y], m_connections'[y].state)
         /\ Reliable => InStep(m_connections'[y], sock'[y])
  <2>1. \A y \in E :
         /\ m_connections[y] \in Conn /\ sock[y] \in Sock
         /\ Expected(loop.events[y], m_connections[y].state)
         /\ Reliable => InStep(m_connections[y], sock[y])
    BY <1>4 DEF TInv
  <2>2. Expected(T!connection_init_state, T!new_connection.state)
    BY <1>3 DEF Expected
  <2> HIDE DEF E
  <2> QED BY <1>3, <1>5, <1>6, <2>1, <2>2
<1>10. E \union new \subseteq TaskFds
  BY <1>2 DEF TInv
<1> QED BY <1>2, <1>4, <1>5, <1>6, <1>7, <1>8, <1>9, <1>10 DEF TInv

\* One event is handled.
LEMMA HandleKeeps ==
    ASSUME TInv, NEW x, T!handle(x)
    PROVE  TInv'
<1> DEFINE E == DOMAIN m_connections
           W == DOMAIN batch \ {x}
<1>0. x \in DOMAIN batch /\ x \in E /\ at = "handle" /\ at' = at /\ m_config' = m_config
  BY DEF T!handle, TInv
<1>1. PICK late \in BOOLEAN, stale \in BOOLEAN :
         /\ m_connections' = [m_connections EXCEPT ![x] = T!callback(x, late, stale).conn]
         /\ sock' = [sock EXCEPT ![x] = T!callback(x, late, stale).sock]
         /\ loop' = T!handled(T!callback(x, late, stale).loop, x, batch[x],
                              T!callback(x, late, stale).error)
         /\ m_spin_ops_left' = (m_spin_ops_left - T!callback(x, late, stale).done) % (SizeMax + 1)
  BY DEF T!handle
<1>2. Sound(T!callback(x, late, stale), x)
  BY <1>0, CallbackSound
<1>3. PICK c, s, l, done : \E error \in BOOLEAN :
         /\ T!callback(x, late, stale) = T!outcome(c, s, l, done, error)
         /\ Result(x, c, s, l, done, error)
  BY <1>2 DEF Sound
<1>4. PICK error \in BOOLEAN :
         /\ T!callback(x, late, stale) = T!outcome(c, s, l, done, error)
         /\ Result(x, c, s, l, done, error)
  BY <1>3
<1>5. /\ m_connections' = [m_connections EXCEPT ![x] = c]
      /\ sock' = [sock EXCEPT ![x] = s]
      /\ loop' = T!handled(l, x, batch[x], error)
      /\ m_spin_ops_left' = (m_spin_ops_left - done) % (SizeMax + 1)
  BY <1>1, <1>4 DEF T!outcome
<1>6. /\ DOMAIN batch' = W /\ \A y \in W : batch'[y] = batch[y]
  BY DEF T!handle, T!Restrict
<1>7. m_spin_ops_left' \in 0..Quota
  <2>1. m_spin_ops_left - done \in 0..Quota
    <3>1. m_spin_ops_left \in 0..Quota /\ done \in {0, 1} /\ (done = 1 => m_spin_ops_left # 0)
      BY <1>4 DEF Result, TInv
    <3> QED BY <3>1, QuotaType
  <2> QED BY <1>5, <2>1, QuotaType, TaskConstants
<1>8. /\ Kept(l, E, W) /\ l.remove_list = loop.remove_list
      /\ \A y \in E : y # x => l.events[y] = loop.events[y]
      /\ error \/ Expected(l.events[x], c.state)
  <2>1. Kept(loop, E, DOMAIN batch) /\ DOMAIN batch \subseteq E
    BY DEF TInv
  <2>2. CASE (l = loop \/ l = T!op_event_loop_exit(loop)) /\ (error \/ Expected(loop.events[x], c.state))
    <3>1. Kept(l, E, W) /\ l.remove_list = loop.remove_list /\ l.events = loop.events
      BY <2>1, <2>2, LoopExits
    <3> QED BY <2>2, <3>1
  <2>3. CASE \E e : l = T!op_event_loop_update_fd(loop, x, e) /\ Expected(e, c.state)
    <3>1. PICK e : l = T!op_event_loop_update_fd(loop, x, e) /\ Expected(e, c.state)
      BY <2>3
    <3>2. Updated(l, loop, E, DOMAIN batch, x, e)
      <4>1. x \in DOMAIN batch
        BY <1>0
      <4> HIDE DEF E
      <4> QED BY <2>1, <3>1, <4>1, LoopUpdates
    <3> QED BY <3>1, <3>2 DEF Updated
  <2> QED BY <1>4, <2>2, <2>3 DEF Result
<1>9. /\ Kept(loop', E, W) /\ loop'.events = l.events
      /\ l.remove_list \subseteq loop'.remove_list
      /\ error => x \in loop'.remove_list
  <2> HIDE DEF E
  <2> QED BY <1>0, <1>5, <1>8, LoopHandles
<1>10. DOMAIN m_connections' = E /\ DOMAIN sock' = E
  BY <1>5 DEF TInv
<1>11. \A y \in E :
         /\ m_connections'[y] \in Conn /\ sock'[y] \in Sock
         /\ y \notin loop'.remove_list => Expected(loop'.events[y], m_connections'[y].state)
         /\ Reliable => InStep(m_connections'[y], sock'[y])
  <2> TAKE y \in E
  <2>1. CASE y = x
    <3>1. m_connections'[x] = c /\ sock'[x] = s
      BY <1>0, <1>5 DEF TInv
    <3> QED BY <1>4, <1>8, <1>9, <2>1, <3>1 DEF Result
  <2>2. CASE y # x
    <3>1. m_connections'[y] = m_connections[y] /\ sock'[y] = sock[y]
      BY <1>5, <2>2 DEF TInv
    <3>2. /\ m_connections[y] \in Conn /\ sock[y] \in Sock
          /\ y \notin loop.remove_list => Expected(loop.events[y], m_connections[y].state)
          /\ Reliable => InStep(m_connections[y], sock[y])
      BY DEF TInv
    <3>3. loop'.events[y] = loop.events[y]
      BY <1>8, <1>9, <2>2
    <3>4. y \notin loop'.remove_list => y \notin loop.remove_list
      BY <1>8, <1>9
    <3> QED BY <3>1, <3>2, <3>3, <3>4
  <2> QED BY <2>1, <2>2
<1>12. \A y \in W :
         "EPOLLOUT" \in batch'[y] => sock'[y].room >= LowWater \/ sock'[y].state = "reset"
  <2> TAKE y \in W
  <2>1. y # x /\ y \in DOMAIN batch /\ y \in E
    BY DEF TInv
  <2>2. sock'[y] = sock[y] /\ batch'[y] = batch[y]
    BY <1>5, <1>6, <2>1 DEF TInv
  <2> QED BY <2>1, <2>2 DEF TInv
<1>13. W \subseteq E /\ E \subseteq TaskFds /\ m_config \in TaskConfigs
  BY DEF TInv
<1> HIDE DEF E, W
<1> QED BY <1>0, <1>6, <1>7, <1>9, <1>10, <1>11, <1>12, <1>13 DEF TInv

\* A turn of the loop begins, or the loop ends.
LEMMA RunKeeps == TInv /\ T!run_timeout => TInv'
<1> SUFFICES ASSUME TInv, T!run_timeout PROVE TInv'
  OBVIOUS
<1> DEFINE E == DOMAIN m_connections
           l == T!_do_event_updates(loop)
           k == T!waited(l)
           set == [y \in DOMAIN sock |-> T!ready(sock[y])]
           b == T!epoll_wait(l, set)
<1>1. /\ at = "run" /\ m_config' = m_config /\ m_connections' = m_connections
      /\ m_spin_ops_left' = m_spin_ops_left /\ sock' = sock
  BY DEF T!run_timeout
<1>2. Kept(loop, E, {}) /\ loop.remove_list = {} /\ DOMAIN batch = {} /\ IsFiniteSet(E)
  BY <1>1, FS_Subset, TaskConstants DEF TInv
<1>3. \A waiting : Kept(k, E, waiting)
  <2> HIDE DEF E
  <2> QED BY <1>2, LoopTurns
<1>4. k.remove_list = {} /\ k.events = loop.events /\ DOMAIN l.epoll \subseteq E
  <2> HIDE DEF E
  <2> QED BY <1>2, LoopTurns
<1>5. DOMAIN T!NoEvents = {}
  BY DEF T!NoEvents
<1>6. DOMAIN b \subseteq E /\ \A y \in DOMAIN b : b[y] \subseteq T!ready(sock[y])
  <2>1. DOMAIN b \subseteq DOMAIN l.epoll
    <3> HIDE DEF l, set
    <3> QED BY DEF T!epoll_wait
  <2>2. \A y \in DOMAIN b : b[y] \subseteq set[y]
    <3> HIDE DEF l, set
    <3> QED BY DEF T!epoll_wait
  <2> HIDE DEF b, l
  <2> QED BY <1>4, <2>1, <2>2 DEF TInv
<1>7. \A y \in E : "EPOLLOUT" \in T!ready(sock[y])
                     => sock[y].room >= LowWater \/ sock[y].state = "reset"
  BY DEF T!ready
<1>8. \A y \in E :
         /\ m_connections[y] \in Conn /\ sock[y] \in Sock
         /\ Expected(loop.events[y], m_connections[y].state)
         /\ Reliable => InStep(m_connections[y], sock[y])
  BY <1>2 DEF TInv
<1>9. E \subseteq TaskFds /\ m_config \in TaskConfigs /\ DOMAIN sock = E
      /\ m_spin_ops_left \in 0..Quota
  BY DEF TInv
<1>10. CASE ~loop.running
  <2>1. at' = "idle" /\ batch' = batch /\ loop' = loop
    BY <1>10 DEF T!run_timeout
  <2> QED BY <1>1, <1>2, <2>1 DEF TInv
<1>11. CASE batch' = T!NoEvents /\ loop' = T!op_event_loop_exit(k) /\ at' = "idle"
  <2>1. Kept(loop', E, {} \ {0}) /\ loop'.remove_list = {} /\ loop'.events = loop.events
    <3> HIDE DEF k, E
    <3> QED BY <1>3, <1>4, <1>11, LoopExits
  <2>2. {} \ {0} = {} /\ DOMAIN batch' = {}
    BY <1>5, <1>11
  <2> HIDE DEF E
  <2>3. Kept(loop', E, {})
    BY <2>1, <2>2
  <2> QED BY <1>1, <1>8, <1>9, <1>11, <2>1, <2>2, <2>3 DEF TInv, E
<1>12. CASE batch' = b /\ loop' = k /\ at' = "handle"
  <2>1. Kept(loop', E, DOMAIN batch') /\ loop'.remove_list = {} /\ loop'.events = loop.events
    <3> HIDE DEF k, E, b
    <3> QED BY <1>3, <1>4, <1>12
  <2>2. /\ DOMAIN batch' \subseteq E
        /\ \A y \in DOMAIN batch' :
             "EPOLLOUT" \in batch'[y] => sock[y].room >= LowWater \/ sock[y].state = "reset"
    <3> HIDE DEF b, E
    <3> QED BY <1>6, <1>7, <1>12
  <2> QED BY <1>1, <1>8, <1>9, <1>12, <2>1, <2>2 DEF TInv
<1> HIDE DEF E
<1> QED BY <1>10, <1>11, <1>12 DEF T!run_timeout

\* Sockets and connections are closed.
LEMMA ShutdownDomains ==
    ASSUME TInv, NEW closed, T!do_shutdown(closed)
    PROVE  /\ DOMAIN sock' = DOMAIN m_connections \ closed
           /\ DOMAIN m_connections' = DOMAIN m_connections \ closed
           /\ \A y \in DOMAIN m_connections \ closed :
                sock'[y] = sock[y] /\ m_connections'[y] = m_connections[y]
  BY DEF T!do_shutdown, T!Restrict, TInv

LEMMA RemovalsKeep == TInv /\ T!removals => TInv'
<1> SUFFICES ASSUME TInv, T!removals PROVE TInv'
  OBVIOUS
<1> DEFINE E == DOMAIN m_connections
           gone == loop.remove_list
<1>1. /\ at = "handle" /\ at' = "run" /\ m_config' = m_config /\ batch' = batch
      /\ m_spin_ops_left' = m_spin_ops_left /\ batch = T!NoEvents
      /\ T!do_shutdown(gone) /\ loop' = T!_do_event_removals(loop)
  BY DEF T!removals
<1>2. DOMAIN batch = {} /\ IsFiniteSet(E) /\ Kept(loop, E, {})
  <2>1. DOMAIN batch = {}
    BY <1>1 DEF T!NoEvents
  <2> QED BY <2>1, FS_Subset, TaskConstants DEF TInv
<1>3. /\ Kept(loop', E \ gone, {}) /\ loop'.remove_list = {}
      /\ \A y \in E \ gone : loop'.events[y] = loop.events[y]
  <2> HIDE DEF E
  <2> QED BY <1>1, <1>2, LoopRemoves
<1>4. /\ DOMAIN sock' = E \ gone /\ DOMAIN m_connections' = E \ gone
      /\ \A y \in E \ gone : sock'[y] = sock[y] /\ m_connections'[y] = m_connections[y]
  BY <1>1, ShutdownDomains
<1>5. \A y \in E \ gone :
         /\ m_connections[y] \in Conn /\ sock[y] \in Sock
         /\ Expected(loop.events[y], m_connections[y].state)
         /\ Reliable => InStep(m_connections[y], sock[y])
  BY DEF TInv
<1>6. E \subseteq TaskFds /\ m_config \in TaskConfigs /\ m_spin_ops_left \in 0..Quota
  BY DEF TInv
<1>7. E \ gone \subseteq TaskFds
  BY <1>6
<1> HIDE DEF E, gone
<1> QED BY <1>1, <1>2, <1>3, <1>4, <1>5, <1>6, <1>7 DEF TInv

LEMMA PurgeKeeps == TInv /\ T!purge => TInv'
<1> SUFFICES ASSUME TInv, T!purge PROVE TInv'
  OBVIOUS
<1> DEFINE E == DOMAIN m_connections
<1>1. /\ at = "idle" /\ at' = "gone" /\ m_config' = m_config /\ batch' = batch
      /\ m_spin_ops_left' = m_spin_ops_left
      /\ T!do_shutdown(DOMAIN loop.events) /\ loop' = T!op_event_loop_purge(loop)
  BY DEF T!purge
<1>2. DOMAIN batch = {} /\ IsFiniteSet(E) /\ Kept(loop, E, {})
  BY <1>1, FS_Subset, TaskConstants DEF TInv
<1>3. Kept(loop', {}, {}) /\ loop'.remove_list = {}
  <2> HIDE DEF E
  <2> QED BY <1>1, <1>2, LoopPurges
<1>4. DOMAIN sock' = {} /\ DOMAIN m_connections' = {}
  <2>1. DOMAIN loop.events = E
    BY <1>2 DEF Kept
  <2> QED BY <1>1, <2>1, ShutdownDomains
<1> QED BY <1>1, <1>2, <1>3, <1>4 DEF TInv

\* The task is destroyed: an operation for each connection may still end.
LEMMA DestroyKeeps == TInv /\ T!destroy => TInv'
<1> SUFFICES ASSUME TInv, T!destroy PROVE TInv'
  OBVIOUS
<1> DEFINE E == DOMAIN m_connections
           count == T!Cardinality(DOMAIN loop.events)
<1>1. /\ at = "idle" /\ m_config' = m_config /\ batch' = batch
      /\ m_connections' = m_connections /\ sock' = sock
  BY DEF T!destroy
<1>2. DOMAIN batch = {} /\ loop.remove_list = {} /\ Kept(loop, E, {})
  BY <1>1 DEF TInv
<1>3. count \in 0..Quota
  <2>1. E \subseteq TaskFds /\ DOMAIN loop.events = E
    BY <1>2 DEF TInv, Kept
  <2>2. Cardinality(E) \in Nat /\ Cardinality(E) <= Cardinality(TaskFds)
    BY <2>1, TaskConstants, FS_Subset, FS_CardinalityType
  <2>3. count = Cardinality(E)
    BY <2>1, TaskCardinality
  <2> HIDE DEF count, E
  <2> QED BY <2>2, <2>3, QuotaType
<1> HIDE DEF count
<1>4. CASE at' = "gone" /\ UNCHANGED <<m_spin_ops_left, loop>>
  BY <1>1, <1>2, <1>4 DEF TInv
<1>5. CASE m_spin_ops_left' = count /\ loop' = [loop EXCEPT !.running = TRUE] /\ at' = "run"
  <2>1. Kept(loop', E, {}) /\ loop'.remove_list = {} /\ loop'.events = loop.events
    <3> HIDE DEF E
    <3> QED BY <1>2, <1>5, LoopRuns
  <2> QED BY <1>1, <1>2, <1>3, <1>5, <2>1 DEF TInv
<1> QED BY <1>4, <1>5 DEF T!destroy, count

\* Another configuration, or a new task.
LEMMA ConfigKeeps == TInv /\ (T!new_task \/ \E c \in TaskConfigs : T!config(c)) => TInv'
<1> SUFFICES ASSUME TInv, T!new_task \/ \E c \in TaskConfigs : T!config(c) PROVE TInv'
  OBVIOUS
<1>1. /\ m_config' \in TaskConfigs /\ m_spin_ops_left' \in {0, m_spin_ops_left}
      /\ at' = "idle" /\ at # "handle"
      /\ m_connections' = m_connections /\ loop' = loop /\ batch' = batch /\ sock' = sock
  BY DEF T!new_task, T!config
<1>2. m_spin_ops_left' \in 0..Quota
  BY <1>1, QuotaType DEF TInv
<1> QED BY <1>1, <1>2 DEF TInv

\* What the network and the peer may do to a socket.
LEMMA NetworkKeeps ==
    ASSUME TInv, NEW x \in DOMAIN sock, T!Network(x)
    PROVE  TInv'
<1> DEFINE k == sock[x]
           c == m_connections[x]
<1>1. k \in Sock /\ c \in Conn /\ (Reliable => InStep(c, k))
  BY DEF TInv
<1>2. \E s \in Sock :
         /\ T!network(x, s)
         /\ Reliable => InStep(c, s)
         /\ k.room >= LowWater \/ k.state = "reset" => s.room >= LowWater \/ s.state = "reset"
  <2>1. CASE T!Established(x)
    <3> DEFINE s == [k EXCEPT !.state = "open"]
    <3>1. k.state = "connecting" /\ T!network(x, s)
      BY <2>1 DEF T!Established
    <3> HIDE DEF k
    <3>2. /\ s \in Sock /\ s.fin = k.fin /\ s.room = k.room /\ s.received = k.received
          /\ s.pending = k.pending /\ s.owed = k.owed
      BY <1>1 DEF Sock
    <3> HIDE DEF s, c
    <3> QED BY <1>1, <3>1, <3>2 DEF InStep
  <2>2. CASE T!Taken(x)
    <3> DEFINE s == [k EXCEPT !.room = SendBuffer]
    <3>1. k.state = "open" /\ k.room < SendBuffer /\ T!network(x, s)
      BY <2>2 DEF T!Taken
    <3> HIDE DEF k
    <3>2. /\ s \in Sock /\ s.fin = k.fin /\ s.room = SendBuffer /\ s.received = k.received
          /\ s.pending = k.pending /\ s.owed = k.owed /\ s.state = k.state
      BY <1>1, TaskConstants DEF Sock
    <3>3. k.room \in Nat
      BY <1>1 DEF Sock
    <3> HIDE DEF s, c
    <3> QED BY <1>1, <3>1, <3>2, <3>3, TaskConstants DEF InStep
  <2>3. CASE T!Answered(x)
    <3> DEFINE s == [k EXCEPT !.owed = @ - 1, !.received = @ + 1]
    <3>1. k.state = "open" /\ k.owed > 0 /\ T!network(x, s)
      BY <2>3 DEF T!Answered
    <3>2. k.owed \in Nat /\ k.received \in Nat /\ k.owed - 1 \in Nat /\ k.received + 1 \in Nat
      BY <1>1, <3>1 DEF Sock
    <3> HIDE DEF k
    <3>3. /\ s \in Sock /\ s.fin = k.fin /\ s.room = k.room /\ s.received = k.received + 1
          /\ s.pending = k.pending /\ s.owed = k.owed - 1 /\ s.state = k.state
      BY <1>1, <3>2 DEF Sock
    <3> HIDE DEF s, c
    <3>4. c.state # "READING" /\ InStep(c, k) /\ k.state # "reset" /\ ~k.fin
            => c.state \notin {"INIT", "WRITING"}
      BY <3>1, <3>2 DEF InStep
    <3>5. Reliable => InStep(c, s)
      BY <1>1, <3>1, <3>2, <3>3, <3>4 DEF InStep
    <3> QED BY <3>1, <3>3, <3>5
  <2>4. CASE T!Lost(x)
    <3> DEFINE s == [k EXCEPT !.owed = 0]
    <3>1. ~Reliable /\ T!network(x, s)
      BY <2>4 DEF T!Lost, Reliable
    <3> HIDE DEF k
    <3>2. s \in Sock /\ s.room = k.room /\ s.state = k.state
      BY <1>1 DEF Sock
    <3> HIDE DEF s, c
    <3> QED BY <3>1, <3>2
  <2>5. CASE T!Closed(x)
    <3> DEFINE s == [k EXCEPT !.fin = TRUE, !.owed = 0]
    <3>1. T!network(x, s)
      BY <2>5 DEF T!Closed
    <3> HIDE DEF k
    <3>2. s \in Sock /\ s.room = k.room /\ s.state = k.state /\ s.fin
      BY <1>1 DEF Sock
    <3> HIDE DEF s, c
    <3> QED BY <3>1, <3>2 DEF InStep
  <2>6. CASE T!Reset(x)
    <3> DEFINE s == [k EXCEPT !.state = "reset", !.owed = 0]
    <3>1. T!network(x, s)
      BY <2>6 DEF T!Reset
    <3> HIDE DEF k
    <3>2. s \in Sock /\ s.state = "reset"
      BY <1>1 DEF Sock
    <3> HIDE DEF s, c
    <3> QED BY <3>1, <3>2 DEF InStep
  <2> QED BY <2>1, <2>2, <2>3, <2>4, <2>5, <2>6 DEF T!Network
<1>3. PICK s \in Sock :
         /\ T!network(x, s)
         /\ Reliable => InStep(c, s)
         /\ k.room >= LowWater \/ k.state = "reset" => s.room >= LowWater \/ s.state = "reset"
  BY <1>2
<1>4. /\ sock' = [sock EXCEPT ![x] = s] /\ m_config' = m_config
      /\ m_connections' = m_connections /\ m_spin_ops_left' = m_spin_ops_left
      /\ loop' = loop /\ batch' = batch /\ at' = at
  BY <1>3 DEF T!network
<1>5. DOMAIN sock' = DOMAIN sock /\ sock'[x] = s /\ \A y \in DOMAIN sock : y # x => sock'[y] = sock[y]
  BY <1>4
<1>6. \A y \in DOMAIN m_connections :
         /\ m_connections[y] \in Conn /\ sock'[y] \in Sock
         /\ y \notin loop.remove_list => Expected(loop.events[y], m_connections[y].state)
         /\ Reliable => InStep(m_connections[y], sock'[y])
  <2> TAKE y \in DOMAIN m_connections
  <2>1. CASE y = x
    BY <1>3, <1>5, <2>1 DEF TInv
  <2>2. CASE y # x
    BY <1>5, <2>2 DEF TInv
  <2> QED BY <2>1, <2>2
<1>7. \A y \in DOMAIN batch :
         "EPOLLOUT" \in batch[y] => sock'[y].room >= LowWater \/ sock'[y].state = "reset"
  <2> TAKE y \in DOMAIN batch
  <2>1. y \in DOMAIN sock
           /\ ("EPOLLOUT" \in batch[y] => sock[y].room >= LowWater \/ sock[y].state = "reset")
    BY DEF TInv
  <2>2. CASE y = x
    BY <1>3, <1>5, <2>1, <2>2
  <2>3. CASE y # x
    BY <1>5, <2>1, <2>3
  <2> QED BY <2>2, <2>3
<1> QED BY <1>4, <1>5, <1>6, <1>7 DEF TInv

\* At first there are no connections.
LEMMA TasksInit == T!Init => TInv
<1> SUFFICES ASSUME T!Init PROVE TInv
  OBVIOUS
<1>1. /\ m_config \in TaskConfigs /\ m_spin_ops_left = 0 /\ at = "idle"
      /\ DOMAIN m_connections = {} /\ DOMAIN sock = {} /\ DOMAIN batch = {}
      /\ loop = T!op_event_loop_allocate(FALSE)
  BY DEF T!Init, T!NoEvents
<1>2. Kept(loop, {}, {}) /\ loop.remove_list = {}
  <2>1. /\ IsLoop(loop) /\ loop.events = << >> /\ loop.update_list = T!EmptyBag
        /\ loop.remove_list = {} /\ loop.epoll = << >> /\ loop.nb_epoll_events = 0
    BY <1>1 DEF T!op_event_loop_allocate, IsLoop
  <2>2. DOMAIN T!EmptyBag = {}
    BY DEF T!EmptyBag, T!SetToBag
  <2>3. DOMAIN << >> = {}
    OBVIOUS
  <2>4. Cardinality({}) = 0
    BY FS_EmptySet
  <2> QED BY <2>1, <2>2, <2>3, <2>4 DEF Kept
<1>3. m_spin_ops_left \in 0..Quota
  BY <1>1, QuotaType
<1>4. Kept(loop, DOMAIN m_connections, DOMAIN batch)
  BY <1>1, <1>2
<1> QED BY <1>1, <1>2, <1>3, <1>4 DEF TInv

\* Every step of the task keeps the invariant.
LEMMA TasksStep == TInv /\ [MCNext]_all => TInv'
<1>1. ASSUME TInv, UNCHANGED taskVars PROVE TInv'
  BY <1>1 DEF taskVars, TInv
<1>2. ASSUME TInv, T!Next PROVE TInv'
  <2>1. CASE \E n \in 1..MaxOps : T!worker_spin(n)
    BY <1>2, <2>1, SpinKeeps
  <2>2. CASE T!Run
    BY <1>2, <2>2, RunKeeps, HandleKeeps, RemovalsKeep, PurgeKeeps DEF T!Run
  <2>3. CASE T!destroy
    BY <1>2, <2>3, DestroyKeeps
  <2>4. CASE T!new_task \/ \E c \in TaskConfigs : T!config(c)
    BY <1>2, <2>4, ConfigKeeps
  <2>5. CASE \E x \in DOMAIN sock : T!Network(x)
    BY <1>2, <2>5, NetworkKeeps
  <2> QED BY <1>2, <2>1, <2>2, <2>3, <2>4, <2>5 DEF T!Next
<1>3. MCNext => T!Next \/ UNCHANGED taskVars
  BY DEF MCNext
<1>4. UNCHANGED all => UNCHANGED taskVars
  BY DEF all
<1> QED BY <1>1, <1>2, <1>3, <1>4

\* The invariant says what it should.
LEMMA TasksMean == TInv => T!QuotaKept /\ T!ConnectionsKept /\ (Reliable => T!Aligned)
<1> SUFFICES ASSUME TInv PROVE T!QuotaKept /\ T!ConnectionsKept /\ (Reliable => T!Aligned)
  OBVIOUS
<1>1. T!QuotaKept
  <2>1. m_spin_ops_left \in 0..Quota
    BY DEF TInv
  <2> QED BY <2>1, QuotaType DEF T!QuotaKept, Quota
<1>2. T!ConnectionsKept
  BY TaskCardinality DEF TInv, Kept, T!ConnectionsKept, T!LoopSound
<1>3. Reliable => T!Aligned
  BY DEF TInv, T!Aligned, InStep
<1> QED BY <1>1, <1>2, <1>3

\* No spin of a network task does more operations than it was asked for, and
\* connections, events and descriptors stay the same (task.cpp, op_event_loop_epoll.c),
\* whatever the peers and the network do.
THEOREM TasksKept == MCSpec => [](T!QuotaKept /\ T!ConnectionsKept)
<1>1. MCInit => TInv
  BY TasksInit DEF MCInit
<1> QED BY <1>1, TasksStep, TasksMean, PTL DEF MCSpec

\* Where nothing is lost and there is room for a header in a socket that says it is
\* writable, what is left of one operation is never taken for a part of the next
\* (task.cpp:405-605) either, for any sizes, configurations, descriptors and quotas.
THEOREM TasksSound ==
    ASSUME ~Lossy, HeaderSize <= LowWater
    PROVE  MCSpec => []TasksAligned
<1>1. MCInit => TInv
  BY TasksInit DEF MCInit
<1>2. TInv => TasksAligned
  BY TasksMean DEF TasksAligned, Reliable
<1> QED BY <1>1, <1>2, TasksStep, PTL DEF MCSpec
-----------------------------------------------------------------------------
(* Captures: their results and transfers.                                  *)

SinkRecord == [id : CaptureIds \union {C!Null}, where : {"listed", "lost", "trash", "freed"},
               m_results : C!Results \union {C!Null}, m_packet_count : Int]
ResultRecord == [parent : C!Sinks \union {C!Null}, where : {"listed", "trash", "freed"},
                 state : C!States, timer : BOOLEAN, packets : Int]
TransferRecord == [phase : {"attached", "sending", "done", "gone"}, results : SUBSET C!Results]
StopRecord == [sink : C!Sinks \union {C!Null}, result : C!Results \union {C!Null},
               cur : C!States]
PushRecord == [pc : {"idle", "state", "load", "exchange", "write", "count"},
               sink : C!Sinks \union {C!Null}, result : C!Results \union {C!Null},
               to : C!States, cur : C!States, count : Int, burst : Nat]

CTyped ==
    /\ conf \in CaptureConfs
    /\ sinks \in [C!Sinks -> SinkRecord]
    /\ results \in [C!Results -> ResultRecord]
    /\ transfers \in [C!Transfers -> TransferRecord]
    /\ stopping \in StopRecord
    /\ push \in [CaptureWorkers -> PushRecord]
    /\ \A w \in CaptureWorkers :
         push[w].pc # "idle" => push[w].sink \in C!Sinks /\ push[w].result \in C!Results
    /\ stopping.sink # C!Null => stopping.result \in C!Results

\* A listed result is of a capture that is listed, or that only workers have any more.
Parented ==
    \A r \in C!Results : results[r].where = "listed" =>
        results[r].parent \in C!Sinks /\ sinks[results[r].parent].where \in {"listed", "lost"}

\* Without a start trigger a result that has not stopped is its capture's, only
\* memory that was freed looks armed, and a stop that has loaded the state of a result
\* will leave it stopped.
Current ==
    ~conf.start_trigger =>
        /\ \A r \in C!Results : results[r].where = "listed" /\ results[r].state # "STOPPED"
             => sinks[results[r].parent].m_results = r
        /\ \A r \in C!Results : results[r].where # "freed" => results[r].state # "ARMED"
        /\ \A w \in CaptureWorkers : push[w].pc \in {"load", "exchange"} /\ push[w].to # "STOPPED"
             => results[push[w].result].where = "freed"
        /\ stopping.sink # C!Null =>
             /\ sinks[stopping.sink].m_results = stopping.result
             /\ results[stopping.result].where # "freed" =>
                  /\ stopping.cur # "ARMED"
                  /\ stopping.cur = "STOPPED" => results[stopping.result].state = "STOPPED"

CInv == CTyped /\ Parented /\ Current /\ C!TransfersKept

LEMMA CaptureConstants ==
    /\ MaxSinks \in Nat /\ MaxResults \in Nat /\ MaxTransfers \in Nat /\ CaptureBurst \in Nat
    /\ \A c \in CaptureConfs : c.packet_count \in Nat
    /\ C!Null \notin C!Results /\ C!Null \notin C!Sinks
  BY PortUsersAssumption DEF C!CaptureAssumption, C!Null, C!Results, C!Sinks

\* The slot that is used next is a free one.
LEMMA FirstFree == ASSUME NEW E, E \subseteq Nat, E # {} PROVE C!first(E) \in E
<1>1. \E n \in E : \A m \in E : n <= m
  BY LeastNumber
<1> QED BY <1>1 DEF C!first

\* Memory that is free, and threads that do nothing.
LEMMA CaptureRecords ==
    /\ C!NoSink \in SinkRecord /\ C!NoResult \in ResultRecord /\ C!NoTransfer \in TransferRecord
    /\ C!NotStopping \in StopRecord /\ C!Idle \in PushRecord
    /\ C!NoSink.where = "freed" /\ C!NoSink.m_results = C!Null
    /\ C!NoResult.where = "freed"
    /\ C!NoTransfer.phase = "gone" /\ C!NotStopping.sink = C!Null
    /\ C!Idle.pc = "idle" /\ C!Idle.to = "STOPPED"
  BY DEF C!NoSink, C!NoResult, C!NoTransfer, C!NotStopping, C!Idle, C!Null, C!States,
     SinkRecord, ResultRecord, TransferRecord, StopRecord, PushRecord

LEMMA CapturesInit == C!Init => CInv
<1> SUFFICES ASSUME C!Init PROVE CInv
  OBVIOUS
<1>1. /\ conf \in CaptureConfs
      /\ sinks = [s \in C!Sinks |-> C!NoSink] /\ results = [r \in C!Results |-> C!NoResult]
      /\ transfers = [t \in C!Transfers |-> C!NoTransfer]
      /\ stopping = C!NotStopping /\ push = [w \in CaptureWorkers |-> C!Idle]
  BY DEF C!Init
<1>2. CTyped
  BY <1>1, CaptureRecords DEF CTyped
<1>3. Parented
  BY <1>1, CaptureRecords DEF Parented
<1>4. Current
  BY <1>1, CaptureRecords DEF Current
<1>5. C!TransfersKept
  BY <1>1, CaptureRecords DEF C!TransfersKept
<1> QED BY <1>2, <1>3, <1>4, <1>5 DEF CInv

\* A step of a worker changes its own place, and of captures and results no more than
\* counters, and states: to STOPPED, or of memory that was freed.
Goes(w, p) ==
    /\ push' = [push EXCEPT ![w] = p] /\ p \in PushRecord
    /\ p.pc # "idle" => p.sink \in C!Sinks /\ p.result \in C!Results
    /\ ~conf.start_trigger /\ p.pc \in {"load", "exchange"} /\ p.to # "STOPPED"
         => results[p.result].where = "freed"
    /\ p.pc # "idle" =>
         \/ push[w].pc # "idle" /\ p.sink = push[w].sink /\ p.result = push[w].result
         \/ sinks[p.sink].where \in {"listed", "lost"} /\ sinks[p.sink].m_results = p.result

Harmless ==
    /\ conf' = conf /\ transfers' = transfers /\ stopping' = stopping
    /\ sinks' \in [C!Sinks -> SinkRecord]
    /\ \A s \in C!Sinks :
         /\ sinks'[s].where = sinks[s].where /\ sinks'[s].m_results = sinks[s].m_results
         /\ sinks'[s].id = sinks[s].id
    /\ results' \in [C!Results -> ResultRecord]
    /\ \A r \in C!Results :
         /\ results'[r].where = results[r].where /\ results'[r].parent = results[r].parent
         /\ \/ results'[r].state \in {results[r].state, "STOPPED"}
            \/ ~conf.start_trigger => results[r].where = "freed"

LEMMA WorkersKeep ==
    ASSUME CInv, NEW w \in CaptureWorkers, NEW p, Goes(w, p), Harmless
    PROVE  CInv'
<1> USE DEF Goes, Harmless
<1>1. CTyped'
  BY DEF CInv, CTyped
<1>2. Parented'
  BY DEF CInv, Parented
<1>3. C!TransfersKept'
  BY DEF CInv, CTyped, C!TransfersKept, TransferRecord
<1>4. ASSUME ~conf.start_trigger
      PROVE  /\ \A r \in C!Results : results'[r].where = "listed" /\ results'[r].state # "STOPPED"
                  => sinks'[results'[r].parent].m_results = r
             /\ \A r \in C!Results : results'[r].where # "freed" => results'[r].state # "ARMED"
  BY <1>4 DEF CInv, CTyped, Current, Parented
<1>5. ASSUME ~conf.start_trigger, NEW v \in CaptureWorkers,
             push'[v].pc \in {"load", "exchange"}, push'[v].to # "STOPPED"
      PROVE  results'[push'[v].result].where = "freed"
  <2>1. CASE v = w
    BY <1>5, <2>1 DEF CInv, CTyped
  <2>2. CASE v # w
    BY <1>5, <2>2 DEF CInv, CTyped, Current
  <2> QED BY <2>1, <2>2
<1>6. ASSUME ~conf.start_trigger, stopping'.sink # C!Null
      PROVE  /\ sinks'[stopping'.sink].m_results = stopping'.result
             /\ results'[stopping'.result].where # "freed" =>
                  /\ stopping'.cur # "ARMED"
                  /\ stopping'.cur = "STOPPED" => results'[stopping'.result].state = "STOPPED"
  <2>1. stopping.sink \in C!Sinks /\ stopping.result \in C!Results
    BY <1>6 DEF CInv, CTyped, StopRecord
  <2> QED BY <1>6, <2>1 DEF CInv, Current
<1>7. Current'
  BY <1>4, <1>5, <1>6 DEF Current
<1> QED BY <1>1, <1>2, <1>3, <1>7 DEF CInv

LEMMA Unharmed ==
    ASSUME CInv, UNCHANGED <<conf, sinks, results, transfers, stopping>>
    PROVE  Harmless
  BY DEF CInv, CTyped, Harmless

\* A worker goes on after it has set a state, or stops the capture, or does not.
LEMMA AfterState ==
    ASSUME CInv, NEW w \in CaptureWorkers, push[w].pc # "idle",
           push' = [push EXCEPT ![w] = C!after_set_state(w)]
    PROVE  \E p : Goes(w, p)
<1> DEFINE q == push[w]
           p == [q EXCEPT !.pc = "write", !.cur = "STOPPED"]
<1>1. q \in PushRecord /\ q.sink \in C!Sinks /\ q.result \in C!Results
  BY DEF CInv, CTyped
<1>2. CASE push' = [push EXCEPT ![w] = p]
  <2>1. p \in PushRecord /\ p.pc = "write" /\ p.sink = q.sink /\ p.result = q.result
    <3> HIDE DEF q
    <3> QED BY <1>1 DEF PushRecord, C!States
  <2> HIDE DEF p
  <2>2. Goes(w, p)
    BY <1>1, <1>2, <2>1 DEF Goes
  <2> QED BY <2>2
<1>3. CASE push' = [push EXCEPT ![w] = C!Idle]
  <2>1. Goes(w, C!Idle)
    BY <1>3, CaptureRecords DEF Goes
  <2> QED BY <2>1
<1> QED BY <1>2, <1>3 DEF C!after_set_state

LEMMA StopOrNot ==
    ASSUME CInv, NEW w \in CaptureWorkers, push[w].pc # "idle", NEW must, C!stop_or_not(w, must)
    PROVE  \E p : Goes(w, p)
<1> DEFINE q == push[w]
           p == [q EXCEPT !.pc = "load", !.to = "STOPPED", !.count = 0, !.burst = 0]
<1>1. q \in PushRecord /\ q.sink \in C!Sinks /\ q.result \in C!Results
  BY DEF CInv, CTyped
<1>2. CASE push' = [push EXCEPT ![w] = p]
  <2>1. /\ p \in PushRecord /\ p.pc = "load" /\ p.sink = q.sink /\ p.result = q.result
        /\ p.to = "STOPPED"
    <3> DEFINE a == [q EXCEPT !.pc = "load", !.to = "STOPPED"]
               b == [a EXCEPT !.count = 0]
    <3>1. a \in PushRecord /\ a.pc = "load" /\ a.to = "STOPPED"
          /\ a.sink = q.sink /\ a.result = q.result
      <4> HIDE DEF q
      <4> QED BY <1>1 DEF PushRecord, C!States
    <3>2. p = [b EXCEPT !.burst = 0]
      OBVIOUS
    <3> HIDE DEF a
    <3>3. b \in PushRecord /\ b.pc = "load" /\ b.to = "STOPPED"
          /\ b.sink = q.sink /\ b.result = q.result
      BY <3>1 DEF PushRecord
    <3> HIDE DEF b, p, q
    <3> QED BY <3>2, <3>3 DEF PushRecord
  <2> HIDE DEF p
  <2>2. Goes(w, p)
    BY <1>1, <1>2, <2>1 DEF Goes
  <2> QED BY <2>2
<1>3. CASE push' = [push EXCEPT ![w] = C!Idle]
  <2>1. Goes(w, C!Idle)
    BY <1>3, CaptureRecords DEF Goes
  <2> QED BY <2>1
<1> QED BY <1>2, <1>3 DEF C!stop_or_not, C!goto

\* The steps of sink::push().
LEMMA PushGoes ==
    ASSUME CInv, NEW w \in CaptureWorkers, C!push_begin(w) \/ C!Push(w)
    PROVE  Harmless /\ \E p : Goes(w, p)
<1> DEFINE q == push[w]
<1>1. /\ q \in PushRecord /\ conf.packet_count \in Nat
      /\ q.pc # "idle" => q.sink \in C!Sinks /\ q.result \in C!Results
      /\ \A r \in C!Results : results[r] \in ResultRecord /\ results[r].state \in C!States
      /\ \A s \in C!Sinks : sinks[s] \in SinkRecord
      /\ sinks \in [C!Sinks -> SinkRecord] /\ results \in [C!Results -> ResultRecord]
  BY CaptureConstants DEF CInv, CTyped, ResultRecord
<1>2. CASE C!push_begin(w)
  <2>1. PICK s \in C!in_workers :
          /\ sinks[s].m_results # C!Null
          /\ push' = [push EXCEPT ![w] = [C!Idle EXCEPT !.pc = "state", !.sink = s,
                                                 !.result = sinks[s].m_results]]
    BY <1>2 DEF C!push_begin, C!goto
  <2>2. /\ s \in C!Sinks /\ sinks[s].m_results \in C!Results
        /\ sinks[s].where \in {"listed", "lost"}
    BY <1>1, <2>1 DEF C!in_workers, SinkRecord
  <2> DEFINE p == [C!Idle EXCEPT !.pc = "state", !.sink = s, !.result = sinks[s].m_results]
  <2>3. p \in PushRecord /\ p.pc = "state" /\ p.sink = s /\ p.result = sinks[s].m_results
    BY <2>2, CaptureRecords DEF PushRecord
  <2>4. UNCHANGED <<conf, sinks, results, transfers, stopping>>
    BY <1>2 DEF C!push_begin
  <2>5. push' = [push EXCEPT ![w] = p]
    BY <2>1
  <2> HIDE DEF p
  <2>6. Goes(w, p)
    BY <2>2, <2>3, <2>5 DEF Goes
  <2> QED BY <2>4, <2>6, Unharmed
<1>3. CASE C!push_state(w)
  <2>0. /\ q.pc = "state" /\ UNCHANGED <<conf, sinks, results, transfers, stopping>>
        /\ q.sink \in C!Sinks /\ q.result \in C!Results
    BY <1>1, <1>3 DEF C!push_state
  <2>1. CASE push' = [push EXCEPT ![w] = [q EXCEPT !.pc = "write"]]
    <3> DEFINE p == [q EXCEPT !.pc = "write"]
    <3>1. p \in PushRecord /\ p.pc = "write" /\ p.sink = q.sink /\ p.result = q.result
      <4> HIDE DEF q
      <4> QED BY <1>1 DEF PushRecord
    <3>2. push' = [push EXCEPT ![w] = p]
      BY <2>1
    <3> HIDE DEF p
    <3>3. Goes(w, p)
      BY <2>0, <3>1, <3>2 DEF Goes
    <3> QED BY <2>0, <3>3, Unharmed
  <2>2. CASE results[q.result].state = "ARMED"
             /\ push' = [push EXCEPT ![w] = [q EXCEPT !.pc = "load", !.to = "RUNNING"]]
    <3> DEFINE p == [q EXCEPT !.pc = "load", !.to = "RUNNING"]
    <3>1. p \in PushRecord /\ p.pc = "load" /\ p.sink = q.sink /\ p.result = q.result
      <4> HIDE DEF q
      <4> QED BY <1>1 DEF PushRecord, C!States
    <3>2. push' = [push EXCEPT ![w] = p]
      BY <2>2
    <3>3. ~conf.start_trigger => results[q.result].where = "freed"
      BY <2>0, <2>2 DEF CInv, Current
    <3> HIDE DEF p
    <3>4. Goes(w, p)
      BY <2>0, <3>1, <3>2, <3>3 DEF Goes
    <3> QED BY <2>0, <3>4, Unharmed
  <2>3. CASE push' = [push EXCEPT ![w] = C!Idle]
    <3>1. Goes(w, C!Idle)
      BY <2>3, CaptureRecords DEF Goes
    <3> QED BY <2>0, <3>1, Unharmed
  <2> QED BY <1>3, <2>1, <2>2, <2>3 DEF C!push_state, C!goto

<1>4. CASE C!push_load(w)
  <2> DEFINE state == results[q.result].state
             p == [q EXCEPT !.pc = "exchange", !.cur = state]
  <2>0. /\ q.pc = "load" /\ UNCHANGED <<conf, sinks, results, transfers, stopping>>
        /\ q.sink \in C!Sinks /\ q.result \in C!Results /\ state \in C!States
    BY <1>1, <1>4 DEF C!push_load
  <2>1. CASE push' = [push EXCEPT ![w] = C!after_set_state(w)]
    <3>1. \E o : Goes(w, o)
      BY <2>0, <2>1, AfterState
    <3> QED BY <2>0, <3>1, Unharmed
  <2>2. CASE push' = [push EXCEPT ![w] = p]
    <3>1. ~conf.start_trigger /\ q.to # "STOPPED" => results[q.result].where = "freed"
      BY <2>0 DEF CInv, Current
    <3> HIDE DEF state
    <3>2. /\ p \in PushRecord /\ p.pc = "exchange" /\ p.sink = q.sink /\ p.result = q.result
          /\ p.to = q.to
      <4> HIDE DEF q
      <4> QED BY <1>1, <2>0 DEF PushRecord
    <3> HIDE DEF p
    <3>3. Goes(w, p)
      BY <2>0, <2>2, <3>1, <3>2 DEF Goes
    <3> QED BY <2>0, <3>3, Unharmed
  <2> QED BY <1>4, <2>1, <2>2 DEF C!push_load, C!goto
<1>5. CASE C!push_exchange(w)
  <2> DEFINE r == q.result
  <2>0. /\ q.pc = "exchange" /\ conf' = conf /\ sinks' = sinks /\ transfers' = transfers
        /\ stopping' = stopping
        /\ q.sink \in C!Sinks /\ q.result \in C!Results /\ q.to \in C!States
        /\ push' = [push EXCEPT ![w] = C!after_set_state(w)]
    BY <1>1, <1>5 DEF C!push_exchange, C!goto, PushRecord
  <2>1. \E o : Goes(w, o)
    BY <2>0, AfterState
  <2>2. results' = results \/ results' = [results EXCEPT ![r].state = q.to]
    BY <1>5 DEF C!push_exchange, C!set_state
  <2>3. ~conf.start_trigger /\ q.to # "STOPPED" => results[r].where = "freed"
    BY <2>0 DEF CInv, Current
  <2>4. /\ results' \in [C!Results -> ResultRecord]
        /\ \A o \in C!Results :
             /\ results'[o].where = results[o].where /\ results'[o].parent = results[o].parent
             /\ o # r => results'[o].state = results[o].state
        /\ results'[r].state \in {results[r].state, q.to}
    <3> HIDE DEF q
    <3>1. CASE results' = results
      BY <1>1, <3>1
    <3>2. CASE results' = [results EXCEPT ![r].state = q.to]
      BY <1>1, <2>0, <3>2 DEF ResultRecord
    <3> QED BY <2>2, <3>1, <3>2
  <2>5. Harmless
    <3> HIDE DEF q
    <3> QED BY <1>1, <2>0, <2>3, <2>4 DEF Harmless
  <2> QED BY <2>1, <2>5
<1>6. CASE C!push_write(w)
  <2>0. /\ q.pc = "write" /\ UNCHANGED <<conf, sinks, results, transfers, stopping>>
        /\ q.sink \in C!Sinks /\ q.result \in C!Results
        /\ sinks[q.sink].m_packet_count \in Int
    BY <1>1, <1>6 DEF C!push_write, SinkRecord
  <2>1. CASE C!stop_or_not(w, FALSE)
    <3>1. \E o : Goes(w, o)
      BY <2>0, <2>1, StopOrNot
    <3> QED BY <2>0, <3>1, Unharmed
  <2>2. ASSUME NEW n \in 1..CaptureBurst,
               push' = [push EXCEPT ![w] = [q EXCEPT !.pc = "count", !.burst = n,
                                               !.count = sinks[q.sink].m_packet_count]]
        PROVE  Harmless /\ \E o : Goes(w, o)
    <3> DEFINE m == sinks[q.sink].m_packet_count
               a == [q EXCEPT !.pc = "count", !.burst = n]
               p == [q EXCEPT !.pc = "count", !.burst = n, !.count = m]
    <3>1. p \in PushRecord /\ p.pc = "count" /\ p.sink = q.sink /\ p.result = q.result
      <4> HIDE DEF q
      <4>1. m \in Int /\ n \in Nat
        BY <2>0, CaptureConstants
      <4> HIDE DEF m
      <4>2. a \in PushRecord /\ a.pc = "count" /\ a.sink = q.sink /\ a.result = q.result
        BY <1>1, <4>1 DEF PushRecord
      <4>3. p = [a EXCEPT !.count = m]
        OBVIOUS
      <4> HIDE DEF a, p
      <4> QED BY <4>1, <4>2, <4>3 DEF PushRecord
    <3>2. push' = [push EXCEPT ![w] = p]
      BY <2>2
    <3> HIDE DEF p
    <3>3. Goes(w, p)
      BY <2>0, <3>1, <3>2 DEF Goes
    <3> QED BY <2>0, <3>3, Unharmed
  <2> QED BY <1>6, <2>1, <2>2 DEF C!push_write, C!goto
<1>7. CASE C!push_count(w)
  <2> DEFINE next == IF q.count + q.burst > conf.packet_count THEN conf.packet_count
                     ELSE q.count + q.burst
             n == next - q.count
  <2>0. /\ q.pc = "count" /\ conf' = conf /\ transfers' = transfers /\ stopping' = stopping
        /\ q.sink \in C!Sinks /\ q.result \in C!Results
        /\ sinks[q.sink].m_packet_count \in Int
        /\ q.count \in Int /\ q.burst \in Int
    BY <1>1, <1>7 DEF C!push_count, SinkRecord, PushRecord
  <2>1. next \in Int /\ n \in Int
    BY <1>1, <2>0
  <2>2. CASE /\ push' = [push EXCEPT ![w] = [q EXCEPT !.count = sinks[q.sink].m_packet_count]]
             /\ UNCHANGED <<sinks, results>>
    <3> DEFINE p == [q EXCEPT !.count = sinks[q.sink].m_packet_count]
    <3>1. p \in PushRecord /\ p.pc = "count" /\ p.sink = q.sink /\ p.result = q.result
      <4> HIDE DEF q
      <4> QED BY <1>1, <2>0 DEF PushRecord
    <3>2. push' = [push EXCEPT ![w] = p] /\ UNCHANGED <<conf, sinks, results, transfers, stopping>>
      BY <2>0, <2>2
    <3> HIDE DEF p
    <3>3. Goes(w, p)
      BY <2>0, <3>1, <3>2 DEF Goes
    <3> QED BY <3>2, <3>3, Unharmed
  <2>3. CASE /\ sinks' = [sinks EXCEPT ![q.sink].m_packet_count = next]
             /\ results' = IF results[q.result].where = "freed" THEN results
                           ELSE [results EXCEPT ![q.result].packets = @ + n]
             /\ C!stop_or_not(w, n < q.burst)
    <3>1. \E o : Goes(w, o)
      BY <2>0, <2>3, StopOrNot
    <3> HIDE DEF q, next, n
    <3>2. /\ sinks' \in [C!Sinks -> SinkRecord]
          /\ \A s \in C!Sinks :
               /\ sinks'[s].where = sinks[s].where /\ sinks'[s].m_results = sinks[s].m_results
               /\ sinks'[s].id = sinks[s].id
      BY <1>1, <2>0, <2>1, <2>3 DEF SinkRecord
    <3>3. /\ results' \in [C!Results -> ResultRecord]
          /\ \A r \in C!Results :
               /\ results'[r].where = results[r].where /\ results'[r].parent = results[r].parent
               /\ results'[r].state = results[r].state
      <4>1. CASE results' = results
        BY <1>1, <4>1
      <4>2. CASE results' = [results EXCEPT ![q.result].packets = @ + n]
        <5>1. results[q.result].packets + n \in Int
          BY <1>1, <2>0, <2>1 DEF ResultRecord
        <5> QED BY <1>1, <2>0, <4>2, <5>1 DEF ResultRecord
      <4> QED BY <2>3, <4>1, <4>2
    <3>4. Harmless
      BY <2>0, <3>2, <3>3 DEF Harmless
    <3> QED BY <3>1, <3>4
  <2> QED BY <1>7, <2>2, <2>3 DEF C!push_count, C!goto
<1> QED BY <1>2, <1>3, <1>4, <1>5, <1>6, <1>7 DEF C!Push

LEMMA PushKeeps ==
    ASSUME CInv, NEW w \in CaptureWorkers, C!push_begin(w) \/ C!Push(w)
    PROVE  CInv'
  BY PushGoes, WorkersKeep

\* What a request may do to results and captures besides starting and stopping them:
\* results become memory that is free, or move to the trash; the captures of those
\* that stay are left alone; and what a transfer needs is kept.
Sheds ==
    /\ stopping.sink = C!Null /\ UNCHANGED <<conf, stopping, push>>
    /\ results' \in [C!Results -> ResultRecord]
    /\ \A r \in C!Results :
         \/ results'[r].where = "freed"
         \/ /\ results[r].where # "freed" /\ results'[r].where \in {results[r].where, "trash"}
            /\ results'[r].parent = results[r].parent /\ results'[r].state = results[r].state
            /\ results'[r].packets = results[r].packets
    /\ sinks' \in [C!Sinks -> SinkRecord]
    /\ \A s \in C!Sinks :
         /\ sinks'[s].id = sinks[s].id /\ sinks'[s].m_packet_count = sinks[s].m_packet_count
         /\ sinks'[s].where \in {"listed", "lost"} =>
              sinks[s].where \in {"listed", "lost"} /\ sinks'[s].m_results = sinks[s].m_results
    /\ \A r \in C!Results : results'[r].where = "listed" =>
         /\ sinks'[results[r].parent].where \in {"listed", "lost"}
         /\ sinks'[results[r].parent].m_results = sinks[results[r].parent].m_results
    /\ transfers' \in [C!Transfers -> TransferRecord]
    /\ C!TransfersKept'

LEMMA ShedsKeep == ASSUME CInv, Sheds PROVE CInv'
<1> USE DEF Sheds
<1>1. CTyped'
  BY DEF CInv, CTyped
<1>2. Parented'
  BY DEF CInv, CTyped, Parented
<1>3. ASSUME ~conf.start_trigger
      PROVE  /\ \A r \in C!Results : results'[r].where = "listed" /\ results'[r].state # "STOPPED"
                  => sinks'[results'[r].parent].m_results = r
             /\ \A r \in C!Results : results'[r].where # "freed" => results'[r].state # "ARMED"
  BY <1>3 DEF CInv, CTyped, Current, Parented
<1>4. ASSUME ~conf.start_trigger, NEW v \in CaptureWorkers,
             push[v].pc \in {"load", "exchange"}, push[v].to # "STOPPED"
      PROVE  results'[push[v].result].where = "freed"
  <2>1. push[v].result \in C!Results /\ results[push[v].result].where = "freed"
    BY <1>4 DEF CInv, CTyped, Current
  <2> QED BY <2>1
<1>5. Current'
  BY <1>3, <1>4 DEF Current
<1> QED BY <1>1, <1>2, <1>5 DEF CInv

LEMMA FreedResult ==
    ASSUME NEW r, NEW g \in C!States
    PROVE  C!freed(r, g) \in ResultRecord /\ C!freed(r, g).where = "freed"
<1> DEFINE h == IF C!referenced(r) THEN g ELSE "STOPPED"
<1>1. h \in C!States /\ C!freed(r, g) = [C!NoResult EXCEPT !.state = h]
  BY DEF C!States, C!freed
<1> HIDE DEF h
<1> QED BY <1>1, CaptureRecords DEF C!NoResult, ResultRecord

\* Results that leave m_results.
LEMMA Disposed ==
    ASSUME CInv, NEW gone \in SUBSET C!Results, NEW kept \in SUBSET C!Results,
           gone \union kept \subseteq C!in_results, C!dispose(gone, kept)
    PROVE  /\ results' \in [C!Results -> ResultRecord]
           /\ \A r \in C!Results :
                \/ results'[r].where = "freed"
                \/ /\ results[r].where # "freed"
                   /\ results'[r].where \in {results[r].where, "trash"}
                   /\ results'[r].parent = results[r].parent
                   /\ results'[r].state = results[r].state
                   /\ results'[r].packets = results[r].packets
           /\ \A r \in C!Results \ gone : results'[r].where = "freed" => results[r].where = "freed"
           /\ \A r \in gone \union kept : results'[r].where # "listed"
<1> DEFINE away(r) == [results[r] EXCEPT !.where = "trash", !.timer = FALSE]
<1>1. PICK g \in C!States :
        results' = [r \in C!Results |-> IF r \in gone THEN C!freed(r, g)
                                        ELSE IF r \in kept THEN away(r) ELSE results[r]]
  BY DEF C!dispose
<1>2. \A r \in C!Results : results[r] \in ResultRecord
  BY DEF CInv, CTyped
<1>3. \A r \in C!Results : /\ away(r) \in ResultRecord /\ away(r).where = "trash"
                           /\ away(r).parent = results[r].parent
                           /\ away(r).state = results[r].state
                           /\ away(r).packets = results[r].packets
  BY <1>2 DEF ResultRecord
<1>4. \A r \in C!Results : C!freed(r, g) \in ResultRecord /\ C!freed(r, g).where = "freed"
  BY FreedResult
<1>5. \A r \in gone \union kept : results[r].where = "listed"
  BY DEF C!in_results
<1> HIDE DEF away
<1>6. ASSUME NEW r \in C!Results
      PROVE  \/ r \in gone /\ results'[r] = C!freed(r, g)
             \/ r \notin gone /\ r \in kept /\ results'[r] = away(r)
             \/ r \notin gone \union kept /\ results'[r] = results[r]
  BY <1>1
<1>7. results' \in [C!Results -> ResultRecord]
  BY <1>1, <1>2, <1>3, <1>4
<1>8. ASSUME NEW r \in C!Results
      PROVE  /\ \/ results'[r].where = "freed"
                \/ /\ results[r].where # "freed"
                   /\ results'[r].where \in {results[r].where, "trash"}
                   /\ results'[r].parent = results[r].parent
                   /\ results'[r].state = results[r].state
                   /\ results'[r].packets = results[r].packets
             /\ r \notin gone /\ results'[r].where = "freed" => results[r].where = "freed"
             /\ r \in gone \union kept => results'[r].where # "listed"
  BY <1>3, <1>4, <1>5, <1>6
<1> QED BY <1>7, <1>8

\* The requests that delete captures: some are deleted, others are lost.
LEMMA Deletions ==
    ASSUME NEW s, C!delete_capture(s) \/ C!delete_captures
    PROVE  \E D : \E lost \in SUBSET C!listed : C!delete(D, lost)
<1>1. C!behind(s) \in SUBSET C!listed /\ {} \in SUBSET C!listed
  BY DEF C!behind
<1>2. CASE C!delete_capture(s)
  BY <1>1, <1>2, Zenon DEF C!delete_capture
<1>3. CASE C!delete_captures
  BY <1>1, <1>3, Zenon DEF C!delete_captures
<1> QED BY <1>2, <1>3

LEMMA DeleteSheds ==
    ASSUME CInv, stopping = C!NotStopping, NEW D, NEW lost \in SUBSET C!listed,
           C!delete(D, lost) \/ C!delete_results(D)
    PROVE  Sheds
<1>0. stopping.sink = C!Null
  BY CaptureRecords
<1>1. /\ sinks \in [C!Sinks -> SinkRecord] /\ transfers \in [C!Transfers -> TransferRecord]
      /\ \A t \in C!Transfers : transfers[t].results \subseteq C!Results
  BY DEF CInv, CTyped, TransferRecord
<1>2. CASE C!delete_results(D)
  <2> DEFINE gone == {r \in D : ~C!in_use(r)}
             kept == {r \in D : C!in_use(r)}
  <2>1. /\ D \subseteq C!in_results /\ C!dispose(gone, kept)
        /\ UNCHANGED <<conf, sinks, transfers, stopping, push>>
    BY <1>2 DEF C!delete_results
  <2>2. /\ gone \in SUBSET C!Results /\ kept \in SUBSET C!Results
        /\ gone \union kept \subseteq C!in_results
    BY <2>1 DEF C!in_results
  <2>3. ASSUME NEW t \in C!Transfers, NEW r \in transfers[t].results PROVE r \notin gone
    BY DEF C!in_use
  <2> HIDE DEF gone, kept
  <2>4. /\ results' \in [C!Results -> ResultRecord]
        /\ \A r \in C!Results :
             \/ results'[r].where = "freed"
             \/ /\ results[r].where # "freed"
                /\ results'[r].where \in {results[r].where, "trash"}
                /\ results'[r].parent = results[r].parent
                /\ results'[r].state = results[r].state
                /\ results'[r].packets = results[r].packets
        /\ \A r \in C!Results \ gone : results'[r].where = "freed" => results[r].where = "freed"
    BY <2>1, <2>2, Disposed
  <2>5. C!TransfersKept'
    BY <1>1, <2>1, <2>3, <2>4 DEF CInv, C!TransfersKept
  <2>6. \A r \in C!Results : results'[r].where = "listed" =>
          sinks[results[r].parent].where \in {"listed", "lost"}
    BY <2>4 DEF CInv, Parented
  <2>7. Sheds
    BY <1>0, <1>1, <2>1, <2>4, <2>5, <2>6 DEF Sheds
  <2> QED BY <2>7
<1>3. CASE C!delete(D, lost)
  <2> DEFINE deferred == {s \in D : C!has_transfer(s)}
             of(a) == {r \in C!in_results : results[r].parent \in a}
             replaced == {s \in C!Sinks : /\ sinks[s].where = "trash"
                                          /\ \E d \in deferred : sinks[d].id = sinks[s].id}
             gone == of(D \ deferred)
             kept == of(deferred)
             away(s) == [sinks[s] EXCEPT !.where = "trash"]
             off(s) == [sinks[s] EXCEPT !.where = "freed", !.m_results = C!Null]
             left(s) == [sinks[s] EXCEPT !.where = "lost"]
  <2>1. /\ D \subseteq C!listed /\ C!dispose(gone, kept)
        /\ UNCHANGED <<conf, transfers, stopping, push>>
        /\ sinks' = [s \in C!Sinks |-> IF s \in deferred THEN away(s)
                                       ELSE IF s \in D \union replaced THEN off(s)
                                       ELSE IF s \in lost THEN left(s) ELSE sinks[s]]
    BY <1>3 DEF C!delete
  <2>2. /\ gone \in SUBSET C!Results /\ kept \in SUBSET C!Results
        /\ gone \union kept \subseteq C!in_results
    BY DEF C!in_results
  <2>3. ASSUME NEW t \in C!Transfers, NEW r \in transfers[t].results PROVE r \notin gone
    BY DEF C!has_transfer, C!in_use
  <2>4. ASSUME NEW r \in C!in_results, results[r].parent \in D PROVE r \in gone \union kept
    BY <2>4
  <2>5. deferred \subseteq D /\ \A s \in replaced : sinks[s].where = "trash"
    OBVIOUS
  <2>6. \A s \in C!Sinks :
          /\ away(s) \in SinkRecord /\ away(s).where = "trash" /\ away(s).id = sinks[s].id
          /\ away(s).m_packet_count = sinks[s].m_packet_count
          /\ off(s) \in SinkRecord /\ off(s).where = "freed" /\ off(s).id = sinks[s].id
          /\ off(s).m_packet_count = sinks[s].m_packet_count
          /\ left(s) \in SinkRecord /\ left(s).where = "lost" /\ left(s).id = sinks[s].id
          /\ left(s).m_packet_count = sinks[s].m_packet_count
          /\ left(s).m_results = sinks[s].m_results
    BY <1>1 DEF SinkRecord
  <2> HIDE DEF gone, kept, deferred, replaced, away, off, left
  <2>12. \A s \in lost : sinks[s].where = "listed"
    BY DEF C!listed
  <2>7. /\ sinks' \in [C!Sinks -> SinkRecord]
        /\ \A s \in C!Sinks :
             /\ sinks'[s].id = sinks[s].id /\ sinks'[s].m_packet_count = sinks[s].m_packet_count
             /\ sinks'[s].where \in {"listed", "lost"} =>
                  sinks[s].where \in {"listed", "lost"} /\ sinks'[s].m_results = sinks[s].m_results
    BY <1>1, <2>1, <2>6, <2>12
  <2>8. /\ results' \in [C!Results -> ResultRecord]
        /\ \A r \in C!Results :
             \/ results'[r].where = "freed"
             \/ /\ results[r].where # "freed"
                /\ results'[r].where \in {results[r].where, "trash"}
                /\ results'[r].parent = results[r].parent
                /\ results'[r].state = results[r].state
                /\ results'[r].packets = results[r].packets
        /\ \A r \in C!Results \ gone : results'[r].where = "freed" => results[r].where = "freed"
        /\ \A r \in gone \union kept : results'[r].where # "listed"
    BY <2>1, <2>2, Disposed
  <2>9. C!TransfersKept'
    BY <1>1, <2>1, <2>3, <2>8 DEF CInv, C!TransfersKept
  <2>10. ASSUME NEW r \in C!Results, results'[r].where = "listed"
         PROVE  /\ sinks'[results[r].parent].where \in {"listed", "lost"}
                /\ sinks'[results[r].parent].m_results = sinks[results[r].parent].m_results
    <3>1. results[r].where = "listed" /\ r \in C!in_results
      BY <2>8, <2>10 DEF C!in_results
    <3>2. results[r].parent \in C!Sinks /\ sinks[results[r].parent].where \in {"listed", "lost"}
      BY <3>1 DEF CInv, Parented
    <3>3. results[r].parent \notin D \union replaced
      BY <2>4, <2>5, <2>8, <2>10, <3>1, <3>2
    <3>4. sinks'[results[r].parent] \in {sinks[results[r].parent], left(results[r].parent)}
      BY <2>1, <2>5, <3>2, <3>3
    <3> QED BY <2>6, <3>2, <3>4
  <2>11. Sheds
    BY <1>0, <1>1, <2>1, <2>7, <2>8, <2>9, <2>10 DEF Sheds
  <2> QED BY <2>11
<1> QED BY <1>2, <1>3

\* garbage_collect() frees what no transfer that goes on reads, and nothing listed.
LEMMA CollectSheds ==
    ASSUME CInv, stopping = C!NotStopping, NEW ts \in [C!Transfers -> TransferRecord],
           \A t \in C!Transfers : ts[t].phase \in {"attached", "sending"} => ts[t] = transfers[t],
           NEW map, NEW P, NEW R, C!garbage_collect(ts, map, P, R),
           UNCHANGED <<conf, stopping, push>>
    PROVE  Sheds
<1> DEFINE over == {t \in C!Transfers : ts[t].phase \in {"done", "gone"}}
           busy == {r \in C!in_trash : \E t \in C!Transfers \ over : r \in ts[t].results}
           gone == {r \in C!in_trash : C!empty(sinks[results[r].parent].id, busy)}
           off(s) == [sinks[s] EXCEPT !.where = "freed", !.m_results = C!Null]
<1>0. stopping.sink = C!Null
  BY CaptureRecords
<1>1. /\ sinks \in [C!Sinks -> SinkRecord] /\ results \in [C!Results -> ResultRecord]
      /\ \A t \in C!Transfers : ts[t] \in TransferRecord /\ ts[t].results \subseteq C!Results
  BY DEF CInv, CTyped, TransferRecord
<1>2. transfers' = [t \in C!Transfers |-> IF t \in over THEN C!NoTransfer ELSE ts[t]]
  BY DEF C!garbage_collect
<1>3. PICK g \in C!States :
        results' = [r \in C!Results |-> IF r \in gone THEN C!freed(r, g) ELSE results[r]]
  BY DEF C!garbage_collect
<1>4. /\ sinks' \in [C!Sinks -> SinkRecord]
      /\ \A s \in C!Sinks : sinks[s].where \in {"listed", "lost"} => sinks'[s] = sinks[s]
      /\ \A s \in C!Sinks :
           /\ sinks'[s].id = sinks[s].id /\ sinks'[s].m_packet_count = sinks[s].m_packet_count
           /\ sinks'[s].where \in {"listed", "lost"} =>
                sinks[s].where \in {"listed", "lost"} /\ sinks'[s].m_results = sinks[s].m_results
  <2>1. \A s \in C!Sinks :
          /\ off(s) \in SinkRecord /\ off(s).where = "freed" /\ off(s).id = sinks[s].id
          /\ off(s).m_packet_count = sinks[s].m_packet_count
    BY <1>1 DEF SinkRecord
  <2>2. sinks' = [s \in C!Sinks |->
                    IF sinks[s].where = "trash" /\ C!empty(sinks[s].id, busy)
                    THEN off(s) ELSE sinks[s]]
    BY DEF C!garbage_collect
  <2> HIDE DEF off, busy
  <2> QED BY <1>1, <2>1, <2>2
<1>5. transfers' \in [C!Transfers -> TransferRecord]
  BY <1>1, <1>2, CaptureRecords
<1>6. \A r \in gone : r \in C!Results /\ results[r].where = "trash" /\ r \notin busy
  BY DEF C!in_trash, C!empty
<1>7. ASSUME NEW r \in C!Results
      PROVE  \/ r \in gone /\ results'[r] \in ResultRecord /\ results'[r].where = "freed"
             \/ r \notin gone /\ results'[r] = results[r]
  BY <1>3, FreedResult
<1>8. results' \in [C!Results -> ResultRecord]
  BY <1>1, <1>3, FreedResult
<1>9. C!TransfersKept'
  <2> SUFFICES ASSUME NEW t \in C!Transfers, transfers'[t].phase \in {"attached", "sending"},
                      NEW r \in transfers'[t].results
               PROVE  results'[r].where # "freed"
    BY DEF C!TransfersKept
  <2>1. t \notin over /\ transfers'[t] = ts[t]
    BY <1>2, CaptureRecords
  <2>2. ts[t] = transfers[t] /\ r \in C!Results /\ results[r].where # "freed"
    BY <1>1, <2>1 DEF CInv, C!TransfersKept
  <2>3. results[r].where = "trash" => r \in busy
    BY <2>1, <2>2 DEF C!in_trash
  <2> QED BY <1>6, <1>7, <2>2, <2>3
<1>10. ASSUME NEW r \in C!Results, results'[r].where = "listed"
       PROVE  /\ results[r].where = "listed" /\ results'[r] = results[r]
              /\ sinks'[results[r].parent] = sinks[results[r].parent]
              /\ sinks[results[r].parent].where \in {"listed", "lost"}
  BY <1>4, <1>7, <1>10 DEF CInv, Parented
<1> HIDE DEF gone, busy, over
<1>11. Sheds
  BY <1>0, <1>1, <1>5, <1>4, <1>7, <1>8, <1>9, <1>10 DEF Sheds
<1> QED BY <1>11

LEMMA CreateKeeps ==
    ASSUME CInv, stopping = C!NotStopping, NEW c \in CaptureIds, C!create_capture(c)
    PROVE  CInv'
<1> DEFINE n == C!first(C!fresh_sinks)
           s0 == [C!NoSink EXCEPT !.id = c, !.where = "listed"]
<1>1. n \in C!fresh_sinks
  <2>1. C!fresh_sinks \subseteq Nat /\ C!fresh_sinks # {}
    BY CaptureConstants DEF C!create_capture, C!fresh_sinks, C!Sinks
  <2> QED BY <2>1, FirstFree
<1>2. /\ n \in C!Sinks /\ sinks[n].where = "freed"
      /\ \A w \in CaptureWorkers : push[w].sink # n
  BY <1>1 DEF C!fresh_sinks
<1>3. s0 \in SinkRecord
  BY CaptureRecords DEF C!NoSink, SinkRecord
<1>4. /\ sinks' = [sinks EXCEPT ![n] = s0]
      /\ UNCHANGED <<conf, results, transfers, stopping, push>> /\ stopping.sink = C!Null
  BY CaptureRecords DEF C!create_capture
<1>5. sinks \in [C!Sinks -> SinkRecord] /\ results \in [C!Results -> ResultRecord]
      /\ transfers \in [C!Transfers -> TransferRecord]
  BY DEF CInv, CTyped
<1> HIDE DEF n, s0
<1>6. /\ sinks' \in [C!Sinks -> SinkRecord]
      /\ \A s \in C!Sinks \ {n} : sinks'[s] = sinks[s]
  BY <1>2, <1>3, <1>4, <1>5
<1>7. \A r \in C!Results : results[r].where = "listed" =>
        results[r].parent \in C!Sinks \ {n} /\ sinks[results[r].parent].where \in {"listed", "lost"}
  BY <1>2 DEF CInv, Parented
<1>8. CTyped'
  BY <1>4, <1>6 DEF CInv, CTyped
<1>9. Parented'
  BY <1>4, <1>6, <1>7 DEF Parented
<1>10. Current'
  BY <1>4, <1>6, <1>7 DEF CInv, Current
<1>11. C!TransfersKept'
  BY <1>4 DEF CInv, C!TransfersKept
<1> QED BY <1>8, <1>9, <1>10, <1>11 DEF CInv

\* A capture that is not active has no result that runs: the new one is its only one.
LEMMA StartKeeps ==
    ASSUME CInv, stopping = C!NotStopping, NEW s \in C!Sinks, C!start_capture(s)
    PROVE  CInv'
<1> DEFINE n == C!first(C!fresh_results)
           state == IF conf.start_trigger THEN "ARMED" ELSE "RUNNING"
           r0 == [C!NoResult EXCEPT !.parent = s, !.where = "listed", !.state = state]
<1>1. n \in C!fresh_results
  <2>1. C!fresh_results \subseteq Nat /\ C!fresh_results # {}
    BY CaptureConstants DEF C!start_capture, C!fresh_results, C!Results
  <2> QED BY <2>1, FirstFree
<1>2. /\ n \in C!Results /\ results[n].where = "freed"
      /\ \A w \in CaptureWorkers : push[w].result # n
      /\ \A t \in C!Transfers : n \notin transfers[t].results
  BY <1>1 DEF C!fresh_results, C!referenced
<1>3. /\ r0 \in ResultRecord /\ r0.parent = s /\ r0.where = "listed" /\ r0.state = state
  <2>1. state \in C!States
    BY DEF C!States
  <2> HIDE DEF state
  <2> QED BY <2>1, CaptureRecords DEF C!NoResult, ResultRecord
<1>4. /\ sinks[s].where \in {"listed", "lost"}
      /\ sinks[s].m_results = C!Null \/ results[sinks[s].m_results].state = "STOPPED"
  BY DEF C!start_capture, C!active, C!listed
<1>5. /\ results' = [results EXCEPT ![n] = r0] /\ sinks' = [sinks EXCEPT ![s].m_results = n]
      /\ UNCHANGED <<conf, transfers, stopping, push>> /\ stopping.sink = C!Null
  BY CaptureRecords DEF C!start_capture
<1>6. sinks \in [C!Sinks -> SinkRecord] /\ results \in [C!Results -> ResultRecord]
      /\ transfers \in [C!Transfers -> TransferRecord]
  BY DEF CInv, CTyped
<1>7. ~conf.start_trigger => state = "RUNNING"
  OBVIOUS
<1> HIDE DEF n, r0, state
<1>8. /\ sinks' \in [C!Sinks -> SinkRecord]
      /\ \A o \in C!Sinks \ {s} : sinks'[o] = sinks[o]
      /\ sinks'[s].m_results = n /\ sinks'[s].where \in {"listed", "lost"}
  BY <1>2, <1>4, <1>5, <1>6 DEF SinkRecord
<1>9. /\ results' \in [C!Results -> ResultRecord]
      /\ \A o \in C!Results \ {n} : results'[o] = results[o]
      /\ results'[n] = r0
  BY <1>2, <1>3, <1>5, <1>6
<1>10. CTyped'
  BY <1>5, <1>8, <1>9 DEF CInv, CTyped
<1>11. Parented'
  BY <1>3, <1>8, <1>9 DEF CInv, Parented
<1>12. ASSUME ~conf.start_trigger
       PROVE  /\ \A r \in C!Results : results'[r].where = "listed" /\ results'[r].state # "STOPPED"
                   => sinks'[results'[r].parent].m_results = r
              /\ \A r \in C!Results : results'[r].where # "freed" => results'[r].state # "ARMED"
  <2>1. ASSUME NEW r \in C!Results, r # n, results[r].where = "listed",
               results[r].state # "STOPPED"
        PROVE  results[r].parent \in C!Sinks \ {s} /\ sinks[results[r].parent].m_results = r
    BY <1>4, <1>12, <2>1, CaptureConstants DEF CInv, Current, Parented
  <2> QED BY <1>3, <1>7, <1>8, <1>9, <1>12, <2>1 DEF CInv, Current
<1>13. ASSUME ~conf.start_trigger, NEW w \in CaptureWorkers,
              push[w].pc \in {"load", "exchange"}, push[w].to # "STOPPED"
       PROVE  results'[push[w].result].where = "freed"
  <2>1. /\ push[w].result \in C!Results \ {n}
        /\ results[push[w].result].where = "freed"
    BY <1>2, <1>13 DEF CInv, CTyped, Current
  <2> QED BY <1>9, <2>1
<1>14. Current'
  BY <1>5, <1>12, <1>13 DEF Current
<1>15. C!TransfersKept'
  BY <1>2, <1>5, <1>6, <1>9 DEF CInv, C!TransfersKept, TransferRecord
<1> QED BY <1>10, <1>11, <1>14, <1>15 DEF CInv

\* A step that changes only timers, and perhaps begins to stop a capture.
Stops(s) ==
    /\ s \in C!Sinks /\ sinks[s].m_results \in C!Results /\ C!stop(s)

LEMMA TimersKeep ==
    ASSUME CInv, stopping = C!NotStopping, NEW r \in C!Results, NEW b \in BOOLEAN,
           results' = [results EXCEPT ![r].timer = b],
           UNCHANGED <<conf, sinks, transfers, push>>,
           stopping' = stopping \/ \E s : Stops(s)
    PROVE  CInv'
<1>1. /\ results \in [C!Results -> ResultRecord] /\ transfers \in [C!Transfers -> TransferRecord]
      /\ \A w \in CaptureWorkers : push[w] \in PushRecord
      /\ stopping.sink = C!Null
  BY CaptureRecords DEF CInv, CTyped
<1>2. /\ results' \in [C!Results -> ResultRecord]
      /\ \A o \in C!Results : /\ results'[o].where = results[o].where
                              /\ results'[o].parent = results[o].parent
                              /\ results'[o].state = results[o].state
  BY <1>1 DEF ResultRecord
<1>3. /\ stopping' \in StopRecord
      /\ stopping'.sink # C!Null => stopping'.result \in C!Results
      /\ stopping'.sink # C!Null => /\ sinks[stopping'.sink].m_results = stopping'.result
                                    /\ stopping'.cur = results[stopping'.result].state
  <2>1. CASE stopping' = stopping
    BY <1>1, <2>1 DEF CInv, CTyped
  <2>2. ASSUME NEW s, Stops(s)
        PROVE  /\ stopping' \in StopRecord /\ stopping'.result \in C!Results
               /\ sinks[stopping'.sink].m_results = stopping'.result
               /\ stopping'.cur = results[stopping'.result].state
    BY <1>1, <2>2 DEF Stops, C!stop, StopRecord, ResultRecord
  <2> QED BY <2>1, <2>2
<1>4. CTyped'
  BY <1>2, <1>3 DEF CInv, CTyped
<1>5. Parented'
  BY <1>2 DEF CInv, Parented
<1>6. ASSUME ~conf.start_trigger, NEW w \in CaptureWorkers,
             push[w].pc \in {"load", "exchange"}, push[w].to # "STOPPED"
      PROVE  results'[push[w].result].where = "freed"
  BY <1>2, <1>6 DEF CInv, CTyped, Current
<1>7. ASSUME ~conf.start_trigger
      PROVE  /\ \A o \in C!Results : results'[o].where = "listed" /\ results'[o].state # "STOPPED"
                  => sinks'[results'[o].parent].m_results = o
             /\ \A o \in C!Results : results'[o].where # "freed" => results'[o].state # "ARMED"
  BY <1>2, <1>7 DEF CInv, Current
<1>8. Current'
  BY <1>2, <1>3, <1>6, <1>7 DEF Current
<1>9. C!TransfersKept'
  BY <1>1, <1>2 DEF CInv, C!TransfersKept, TransferRecord
<1> QED BY <1>4, <1>5, <1>8, <1>9 DEF CInv

\* stop() has loaded the state: whatever happened since, the result is stopped when the
\* capture gives it up.
LEMMA StopEndKeeps == ASSUME CInv, C!stop_end PROVE CInv'
<1> DEFINE s == stopping.sink
           n == stopping.result
<1>1. /\ s \in C!Sinks /\ n \in C!Results /\ stopping' = C!NotStopping
      /\ stopping'.sink = C!Null
      /\ sinks' = [sinks EXCEPT ![s].m_results = C!Null]
      /\ UNCHANGED <<conf, transfers, push>>
  BY CaptureRecords DEF CInv, CTyped, StopRecord, C!stop_end
<1>2. \/ results' = results /\ (stopping.cur = "STOPPED" \/ results[n].state # stopping.cur)
      \/ results' = [results EXCEPT ![n].state = "STOPPED"]
  BY DEF C!stop_end, C!set_state
<1>3. /\ sinks \in [C!Sinks -> SinkRecord] /\ results \in [C!Results -> ResultRecord]
      /\ transfers \in [C!Transfers -> TransferRecord] /\ stopping.cur \in C!States
      /\ \A r \in C!Results : results[r].state \in C!States
  BY DEF CInv, CTyped, StopRecord, ResultRecord
<1>4. /\ sinks' \in [C!Sinks -> SinkRecord]
      /\ \A o \in C!Sinks : sinks'[o].where = sinks[o].where
      /\ \A o \in C!Sinks \ {s} : sinks'[o] = sinks[o]
  <2> HIDE DEF s
  <2> QED BY <1>1, <1>3 DEF SinkRecord
<1>5. /\ results' \in [C!Results -> ResultRecord]
      /\ \A r \in C!Results : /\ results'[r].where = results[r].where
                              /\ results'[r].parent = results[r].parent
                              /\ results'[r].state \in {results[r].state, "STOPPED"}
  <2>1. CASE results' = results
    BY <1>3, <2>1
  <2>2. CASE results' = [results EXCEPT ![n].state = "STOPPED"]
    <3> HIDE DEF n
    <3> QED BY <1>1, <1>3, <2>2 DEF ResultRecord, C!States
  <2> QED BY <1>2, <2>1, <2>2
<1>6. ~conf.start_trigger /\ results[n].where # "freed" => results'[n].state = "STOPPED"
  <2>1. CASE results' = [results EXCEPT ![n].state = "STOPPED"]
    <3> HIDE DEF n
    <3> QED BY <1>1, <1>3, <2>1 DEF ResultRecord
  <2>2. CASE results' = results /\ (stopping.cur = "STOPPED" \/ results[n].state # stopping.cur)
    BY <1>1, <1>3, <2>2, CaptureConstants DEF CInv, Current, C!States
  <2> QED BY <1>2, <2>1, <2>2
<1>7. ~conf.start_trigger => sinks[s].m_results = n
  BY <1>1, CaptureConstants DEF CInv, Current
<1>8. C!NotStopping \in StopRecord
  BY CaptureRecords
<1>9. CTyped'
  BY <1>1, <1>4, <1>5, <1>8 DEF CInv, CTyped
<1> HIDE DEF s, n
<1>10. Parented'
  BY <1>4, <1>5 DEF CInv, Parented
<1>11. ASSUME ~conf.start_trigger
       PROVE  /\ \A r \in C!Results : results'[r].where = "listed" /\ results'[r].state # "STOPPED"
                   => sinks'[results'[r].parent].m_results = r
              /\ \A r \in C!Results : results'[r].where # "freed" => results'[r].state # "ARMED"
  <2>1. ASSUME NEW r \in C!Results, results'[r].where = "listed", results'[r].state # "STOPPED"
        PROVE  sinks'[results'[r].parent].m_results = r
    <3>1. /\ results[r].where = "listed" /\ results[r].state # "STOPPED"
          /\ results'[r].parent = results[r].parent
      BY <1>5, <2>1
    <3>2. results[r].parent \in C!Sinks /\ sinks[results[r].parent].m_results = r
      BY <1>11, <3>1 DEF CInv, Parented, Current
    <3>3. results[r].parent # s
      BY <1>6, <1>7, <1>11, <2>1, <3>1, <3>2
    <3> QED BY <1>4, <3>1, <3>2, <3>3
  <2>2. \A r \in C!Results : results'[r].where # "freed" => results'[r].state # "ARMED"
    BY <1>5, <1>11 DEF CInv, Current
  <2> QED BY <2>1, <2>2
<1>12. ASSUME ~conf.start_trigger, NEW w \in CaptureWorkers,
              push[w].pc \in {"load", "exchange"}, push[w].to # "STOPPED"
       PROVE  results'[push[w].result].where = "freed"
  BY <1>5, <1>12 DEF CInv, CTyped, Current
<1>13. Current'
  BY <1>1, <1>11, <1>12 DEF Current
<1>14. C!TransfersKept'
  BY <1>1, <1>3, <1>5 DEF CInv, C!TransfersKept, TransferRecord
<1> QED BY <1>9, <1>10, <1>13, <1>14 DEF CInv

\* A transfer is created, starts, or ends.
LEMMA TransfersStep ==
    ASSUME CInv, UNCHANGED <<conf, sinks, results, stopping, push>>,
           NEW t \in C!Transfers, NEW x \in TransferRecord,
           transfers' = [transfers EXCEPT ![t] = x],
           x.phase \in {"attached", "sending"} =>
               \A r \in x.results : results[r].where # "freed"
    PROVE  CInv'
<1>1. transfers' \in [C!Transfers -> TransferRecord] /\ transfers'[t] = x
      /\ \A o \in C!Transfers \ {t} : transfers'[o] = transfers[o]
  BY DEF CInv, CTyped
<1>2. CTyped'
  BY <1>1 DEF CInv, CTyped
<1>3. Parented'
  BY DEF CInv, Parented
<1>4. Current'
  BY DEF CInv, Current
<1>5. C!TransfersKept'
  BY <1>1 DEF CInv, C!TransfersKept
<1> QED BY <1>2, <1>3, <1>4, <1>5 DEF CInv

LEMMA DeleteTransferSheds ==
    ASSUME CInv, stopping = C!NotStopping, NEW t \in C!Transfers, C!delete_capture_transfer(t)
    PROVE  Sheds
<1> DEFINE ts == [transfers EXCEPT ![t] = C!NoTransfer]
<1>0. transfers \in [C!Transfers -> TransferRecord]
  BY DEF CInv, CTyped
<1>1. /\ C!garbage_collect(ts, m_triggers, polled, ready) /\ UNCHANGED <<conf, stopping, push>>
  BY DEF C!delete_capture_transfer
<1>2. /\ ts \in [C!Transfers -> TransferRecord]
      /\ \A o \in C!Transfers : ts[o].phase \in {"attached", "sending"} => ts[o] = transfers[o]
  BY <1>0, CaptureRecords
<1> HIDE DEF ts
<1> QED BY <1>1, <1>2, CollectSheds

LEMMA TransferKeeps ==
    ASSUME CInv
    PROVE  /\ \A R \in SUBSET C!in_results : C!create_capture_transfer(R) => CInv'
           /\ \A t \in C!Transfers : C!transfer_start(t) \/ C!transfer_done(t) => CInv'
           /\ stopping = C!NotStopping =>
                \A t \in C!Transfers : C!delete_capture_transfer(t) => CInv'
<1>0. transfers \in [C!Transfers -> TransferRecord]
  BY DEF CInv, CTyped
<1>1. ASSUME NEW R \in SUBSET C!in_results, C!create_capture_transfer(R) PROVE CInv'
  <2> DEFINE n == C!first(C!fresh_transfers)
             x == [phase |-> "attached", results |-> R]
  <2>1. n \in C!fresh_transfers
    <3>1. C!fresh_transfers \subseteq Nat /\ C!fresh_transfers # {}
      BY <1>1, CaptureConstants DEF C!create_capture_transfer, C!fresh_transfers, C!Transfers
    <3> QED BY <3>1, FirstFree
  <2>2. n \in C!Transfers /\ transfers' = [transfers EXCEPT ![n] = x]
        /\ UNCHANGED <<conf, sinks, results, stopping, push>>
    BY <1>1, <2>1 DEF C!create_capture_transfer, C!fresh_transfers
  <2>3. x \in TransferRecord /\ \A r \in x.results : results[r].where # "freed"
    BY DEF TransferRecord, C!in_results
  <2> HIDE DEF n, x
  <2> QED BY <2>2, <2>3, TransfersStep
<1>2. ASSUME NEW t \in C!Transfers, C!transfer_start(t) PROVE CInv'
  <2> DEFINE x == [transfers[t] EXCEPT !.phase = "sending"]
  <2>1. /\ transfers[t].phase = "attached" /\ transfers' = [transfers EXCEPT ![t] = x]
        /\ UNCHANGED <<conf, sinks, results, stopping, push>>
    BY <1>2 DEF C!transfer_start
  <2>2. x \in TransferRecord /\ x.results = transfers[t].results
    BY <1>0 DEF TransferRecord
  <2>3. \A r \in x.results : results[r].where # "freed"
    BY <2>1, <2>2 DEF CInv, C!TransfersKept
  <2> HIDE DEF x
  <2> QED BY <2>1, <2>2, <2>3, TransfersStep
<1>3. ASSUME NEW t \in C!Transfers, C!transfer_done(t) PROVE CInv'
  <2> DEFINE x == [transfers[t] EXCEPT !.phase = "done"]
  <2>1. /\ transfers' = [transfers EXCEPT ![t] = x]
        /\ UNCHANGED <<conf, sinks, results, stopping, push>>
    BY <1>3 DEF C!transfer_done
  <2>2. x \in TransferRecord /\ x.phase = "done"
    BY <1>0 DEF TransferRecord
  <2> HIDE DEF x
  <2> QED BY <2>1, <2>2, TransfersStep
<1>4. ASSUME stopping = C!NotStopping, NEW t \in C!Transfers, C!delete_capture_transfer(t)
      PROVE  CInv'
  BY <1>4, DeleteTransferSheds, ShedsKeep
<1> QED BY <1>1, <1>2, <1>3, <1>4

\* Events and timers of the server.
LEMMA EventsKeep ==
    ASSUME CInv, stopping = C!NotStopping
    PROVE  /\ \A f \in CaptureFds : C!handle_event_trigger(f) => CInv'
           /\ \A r \in C!Results : C!handle_capture_stop_timer(r) => CInv'
           /\ \A s \in C!Sinks : C!stop_capture(s) => CInv'
<1>0. /\ transfers \in [C!Transfers -> TransferRecord]
      /\ results \in [C!Results -> ResultRecord]
      /\ \A s \in C!Sinks : sinks[s].m_results \in C!Results \union {C!Null}
  BY DEF CInv, CTyped, SinkRecord
<1>1. ASSUME NEW f \in CaptureFds, C!handle_event_trigger(f) PROVE CInv'
  <2>0. UNCHANGED <<conf, stopping, push>>
    BY <1>1 DEF C!handle_event_trigger
  <2>1. CASE UNCHANGED <<sinks, results, transfers>>
    BY <2>0, <2>1 DEF CInv, CTyped, Parented, Current, C!TransfersKept
  <2>2. ASSUME NEW r \in C!Results, C!state_changed(r, f) PROVE CInv'
    <3>1. UNCHANGED <<sinks, transfers>>
      BY <2>2 DEF C!state_changed
    <3>2. \/ results' = results
          \/ results' = [results EXCEPT ![r].timer = TRUE]
          \/ results' = [results EXCEPT ![r].timer = FALSE]
      BY <2>2 DEF C!state_changed
    <3>3. CASE results' = results
      BY <2>1, <3>1, <3>3
    <3>4. CASE results' = [results EXCEPT ![r].timer = TRUE]
      BY <2>0, <3>1, <3>4, TimersKeep
    <3>5. CASE results' = [results EXCEPT ![r].timer = FALSE]
      BY <2>0, <3>1, <3>5, TimersKeep
    <3> QED BY <3>2, <3>3, <3>4, <3>5
  <2>3. ASSUME NEW map, NEW P, NEW R, C!garbage_collect(transfers, map, P, R) PROVE CInv'
    BY <1>0, <2>0, <2>3, CollectSheds, ShedsKeep
  <2> QED BY <1>1, <2>1, <2>2, <2>3 DEF C!handle_event_trigger
<1>2. ASSUME NEW r \in C!Results, C!handle_capture_stop_timer(r) PROVE CInv'
  <2>1. /\ results[r].where = "listed"
        /\ results' = [results EXCEPT ![r].timer = FALSE]
        /\ UNCHANGED <<conf, sinks, transfers, push>>
    BY <1>2 DEF C!handle_capture_stop_timer, C!in_results
  <2>2. results[r].parent \in C!Sinks
    BY <2>1 DEF CInv, Parented
  <2>3. stopping' = stopping \/ Stops(results[r].parent)
    BY <1>0, <1>2, <2>2 DEF C!handle_capture_stop_timer, Stops
  <2> QED BY <2>1, <2>3, TimersKeep
<1>3. ASSUME NEW s \in C!Sinks, C!stop_capture(s) PROVE CInv'
  <2>1. /\ sinks[s].m_results \in C!Results
        /\ results' = [results EXCEPT ![sinks[s].m_results].timer = FALSE]
        /\ UNCHANGED <<conf, sinks, transfers, push>> /\ Stops(s)
    BY <1>0, <1>3 DEF C!stop_capture, Stops
  <2> QED BY <2>1, TimersKeep
<1> QED BY <1>1, <1>2, <1>3

LEMMA CapturesNext == CInv /\ [C!Next]_(C!vars) => CInv'
<1> SUFFICES ASSUME CInv, [C!Next]_(C!vars) PROVE CInv'
  OBVIOUS
<1>1. CASE UNCHANGED C!vars
  BY <1>1 DEF C!vars, CInv, CTyped, Parented, Current, C!TransfersKept
<1>2. ASSUME stopping = C!NotStopping, C!Requests PROVE CInv'
  <2>1. CASE C!read_only
    BY <1>1, <2>1 DEF C!read_only
  <2>2. ASSUME NEW c \in CaptureIds, C!create_capture(c) PROVE CInv'
    BY <1>2, <2>2, CreateKeeps
  <2>3. ASSUME NEW s \in C!Sinks, C!start_capture(s) PROVE CInv'
    BY <1>2, <2>3, StartKeeps
  <2>4. ASSUME NEW s \in C!Sinks, C!stop_capture(s) PROVE CInv'
    BY <1>2, <2>4, EventsKeep
  <2>5. ASSUME NEW D, NEW lost \in SUBSET C!listed, C!delete(D, lost) \/ C!delete_results(D)
        PROVE  CInv'
    BY <1>2, <2>5, DeleteSheds, ShedsKeep
  <2>6. ASSUME NEW R \in SUBSET C!in_results, C!create_capture_transfer(R) PROVE CInv'
    BY <2>6, TransferKeeps
  <2>7. ASSUME NEW s, C!delete_capture(s) \/ C!delete_captures PROVE CInv'
    BY <2>5, <2>7, Deletions
  <2> QED BY <1>2, <2>1, <2>2, <2>3, <2>4, <2>5, <2>6, <2>7 DEF C!Requests
<1>3. CASE C!Server
  <2>1. CASE C!stop_end
    BY <2>1, StopEndKeeps
  <2>2. ASSUME stopping = C!NotStopping, NEW t \in C!Transfers, C!delete_capture_transfer(t)
        PROVE  CInv'
    BY <2>2, TransferKeeps
  <2>3. ASSUME stopping = C!NotStopping, NEW f \in CaptureFds, C!handle_event_trigger(f)
        PROVE  CInv'
    BY <2>3, EventsKeep
  <2>4. ASSUME stopping = C!NotStopping, NEW r \in C!Results, C!handle_capture_stop_timer(r)
        PROVE  CInv'
    BY <2>4, EventsKeep
  <2> QED BY <1>2, <1>3, <2>1, <2>2, <2>3, <2>4 DEF C!Server
<1>4. ASSUME NEW w \in CaptureWorkers, C!push_begin(w) \/ C!Push(w) PROVE CInv'
  BY <1>4, PushKeeps
<1>5. ASSUME NEW t \in C!Transfers, C!transfer_start(t) \/ C!transfer_done(t) PROVE CInv'
  BY <1>5, TransferKeeps
<1> QED BY <1>1, <1>3, <1>4, <1>5 DEF C!Next

\* A timer that ends with a step that begins to stop a capture is the one of the result
\* that is stopped.
LEMMA TimerStep ==
    ASSUME CInv, [C!Next]_(C!vars), NEW r \in C!Results,
           ~conf.start_trigger, results[r].timer, ~results'[r].timer, stopping' # stopping
    PROVE  stopping'.result = r
<1>0. results \in [C!Results -> ResultRecord]
  BY DEF CInv, CTyped
<1>1. CASE \E s \in C!Sinks : C!stop_capture(s)
  <2>1. PICK s \in C!Sinks : C!stop_capture(s)
    BY <1>1
  <2>2. /\ results' = [results EXCEPT ![sinks[s].m_results].timer = FALSE]
        /\ stopping'.result = sinks[s].m_results
    BY <2>1 DEF C!stop_capture, C!stop
  <2> QED BY <1>0, <2>2
<1>2. CASE \E n \in C!Results : C!handle_capture_stop_timer(n)
  <2>1. PICK n \in C!Results : C!handle_capture_stop_timer(n)
    BY <1>2
  <2>2. /\ results[n].where = "listed" /\ results[n].state # "STOPPED"
        /\ results' = [results EXCEPT ![n].timer = FALSE]
        /\ stopping'.result = sinks[results[n].parent].m_results
    BY <2>1 DEF C!handle_capture_stop_timer, C!in_results, C!due, C!stop
  <2>3. sinks[results[n].parent].m_results = n
    BY <2>2 DEF CInv, Current
  <2> QED BY <1>0, <2>2, <2>3
<1>3. CASE C!stop_end
  <2>1. \/ results' = results \/ results' = [results EXCEPT ![stopping.result].state = "STOPPED"]
    BY <1>3 DEF C!stop_end, C!set_state
  <2>2. stopping.result \in C!Results
    BY <1>3 DEF C!stop_end, CInv, CTyped
  <2>3. results'[r].timer = results[r].timer
    BY <1>0, <2>1, <2>2 DEF ResultRecord
  <2> QED BY <2>3
<1>4. CASE UNCHANGED stopping
  BY <1>4
<1>5. \/ UNCHANGED stopping \/ C!stop_end
      \/ \E s \in C!Sinks : C!stop_capture(s)
      \/ \E n \in C!Results : C!handle_capture_stop_timer(n)
  <2>1. CASE C!Next
    <3>1. CASE C!Server
      BY <3>1 DEF C!Server, C!Requests, C!read_only, C!vars, C!create_capture, C!start_capture,
         C!delete_capture, C!delete_captures, C!delete, C!delete_results, C!create_capture_transfer,
         C!delete_capture_transfer, C!handle_event_trigger
    <3>2. ASSUME NEW w \in CaptureWorkers, C!push_begin(w) \/ C!Push(w) PROVE UNCHANGED stopping
      BY <3>2 DEF C!push_begin, C!Push, C!push_state, C!push_load, C!push_exchange,
         C!push_write, C!push_count
    <3>3. ASSUME NEW t \in C!Transfers, C!transfer_start(t) \/ C!transfer_done(t)
          PROVE  UNCHANGED stopping
      BY <3>3 DEF C!transfer_start, C!transfer_done
    <3> QED BY <2>1, <3>1, <3>2, <3>3 DEF C!Next
  <2>2. CASE UNCHANGED C!vars
    BY <2>2 DEF C!vars
  <2> QED BY <2>1, <2>2
<1> QED BY <1>1, <1>2, <1>3, <1>4, <1>5

LEMMA CapturesInductive == C!Spec => []CInv
  BY CapturesInit, CapturesNext, PTL DEF C!Spec

\* capture/server.cpp: without a start trigger the timer of one start never stops a
\* later one.
THEOREM TimersSound == C!Spec => TimerEndsOwn
<1>1. CInv /\ [C!Next]_(C!vars) =>
        [\A r \in C!Results :
           ~conf.start_trigger /\ results[r].timer /\ ~results'[r].timer /\ stopping' # stopping
               => stopping'.result = r]_(C!vars)
  BY TimerStep
<1> QED BY <1>1, CapturesInductive, PTL DEF C!Spec, TimerEndsOwn, C!TimerEndsOwn

-----------------------------------------------------------------------------
(* Captures: how many packets they hold.                                   *)

\* The packets of a capture in each result, and the sums of the first n.
PacketsOf(s) ==
    [r \in C!Results |-> IF results[r].where # "freed" /\ results[r].parent = s
                         THEN results[r].packets ELSE 0]
Prefix(f, v) == f = [n \in 0..MaxResults |-> IF n = 0 THEN 0 ELSE f[n - 1] + v[n]]

\* No term of v is greater than that of u, but one by at most d.
NearlyBelow(v, u, j, d) ==
    \A i \in C!Results : v[i] <= u[i] \/ (i = j /\ v[i] <= u[i] + d)

LEMMA PrefixDefined ==
    ASSUME NEW v \in [C!Results -> Nat]
    PROVE  \E f \in [0..MaxResults -> Nat] : Prefix(f, v)
<1> DEFINE step(f, n) == IF n = 0 THEN 0 ELSE f[n - 1] + v[n]
           good(f, n) == \A i \in 0..MaxResults : i <= n => f[i] = step(f, i)
           bad == {n \in Nat : ~ \E f \in [0..MaxResults -> Nat] : good(f, n)}
<1>0. MaxResults \in Nat /\ \A i \in 0..MaxResults : i # 0 => i \in C!Results
  BY CaptureConstants DEF C!Results
<1>1. bad = {}
  <2> SUFFICES ASSUME bad # {} PROVE FALSE
    OBVIOUS
  <2>1. PICK n \in bad : \A y \in bad : n <= y
    BY LeastNumber
  <2>2. bad \subseteq Nat /\ n \in bad /\ n \in Nat
    OBVIOUS
  <2>3. CASE n = 0
    <3> DEFINE f == [i \in 0..MaxResults |-> 0]
    <3>1. f \in [0..MaxResults -> Nat] /\ good(f, 0)
      BY <1>0
    <3> QED BY <2>3, <3>1
  <2>4. CASE n # 0
    <3>1. n - 1 \in Nat /\ n - 1 \notin bad
      <4> HIDE DEF bad
      <4> QED BY <2>1, <2>2, <2>4
    <3>2. PICK f \in [0..MaxResults -> Nat] : good(f, n - 1)
      BY <3>1
    <3> DEFINE g == [i \in 0..MaxResults |-> IF i < n THEN f[i] ELSE step(f, i)]
    <3>3. ASSUME NEW i \in 0..MaxResults PROVE step(f, i) \in Nat
      <4>1. CASE i = 0
        BY <4>1
      <4>2. CASE i # 0
        BY <1>0, <4>2
      <4> QED BY <4>1, <4>2
    <3>4. g \in [0..MaxResults -> Nat]
      <4> HIDE DEF step
      <4> QED BY <3>3
    <3>5. ASSUME NEW i \in 0..MaxResults, i <= n PROVE g[i] = step(g, i)
      <4>1. g[i] = step(f, i)
        <5> HIDE DEF step, bad
        <5> QED BY <2>2, <3>2, <3>5
      <4>2. CASE i = 0
        BY <4>1, <4>2
      <4>3. CASE i # 0
        <5>1. i - 1 \in 0..MaxResults /\ i - 1 < n
          <6> HIDE DEF bad, g, good, step
          <6> QED BY <1>0, <2>2, <3>5, <4>3
        <5>2. g[i - 1] = f[i - 1]
          <6> HIDE DEF step, bad, good
          <6> QED BY <5>1
        <5> HIDE DEF g, bad, good
        <5> QED BY <4>1, <4>3, <5>2
      <4> QED BY <4>2, <4>3
    <3> QED BY <2>2, <3>4, <3>5
  <2> QED BY <2>3, <2>4
<1>2. PICK f \in [0..MaxResults -> Nat] : good(f, MaxResults)
  BY <1>0, <1>1
<1>3. \A i \in 0..MaxResults : f[i] = step(f, i)
  BY <1>0, <1>2
<1>4. f = [i \in 0..MaxResults |-> f[i]]
  OBVIOUS
<1>5. f = [i \in 0..MaxResults |-> step(f, i)]
  BY <1>3, <1>4
<1> QED BY <1>5 DEF Prefix

\* A sum grows by no more than its terms do.
LEMMA PrefixGrows ==
    ASSUME NEW v \in [C!Results -> Nat], NEW u \in [C!Results -> Nat],
           NEW f, Prefix(f, v), NEW g, Prefix(g, u), NEW j, NEW d \in Nat,
           NearlyBelow(v, u, j, d)
    PROVE  f[MaxResults] \in Nat /\ g[MaxResults] \in Nat
           /\ f[MaxResults] <= g[MaxResults] + d
<1> DEFINE right(n) == /\ f[n] \in Nat /\ g[n] \in Nat
                       /\ f[n] <= g[n] + d /\ (j \notin 1..n => f[n] <= g[n])
           bad == {n \in 0..MaxResults : ~right(n)}
<1>0. /\ MaxResults \in Nat /\ \A i \in 0..MaxResults : i # 0 => i \in C!Results
      /\ \A i \in C!Results : i \in Nat
  BY CaptureConstants DEF C!Results
<1>1. \A n \in 0..MaxResults : /\ f[n] = IF n = 0 THEN 0 ELSE f[n - 1] + v[n]
                               /\ g[n] = IF n = 0 THEN 0 ELSE g[n - 1] + u[n]
  BY DEF Prefix
<1>2. bad = {}
  <2> SUFFICES ASSUME bad # {} PROVE FALSE
    OBVIOUS
  <2>0. bad \subseteq Nat
    BY <1>0
  <2>1. PICK n \in bad : \A y \in bad : n <= y
    <3> HIDE DEF bad
    <3> QED BY <2>0, LeastNumber
  <2>2. n \in 0..MaxResults /\ ~right(n)
    OBVIOUS
  <2>3. CASE n = 0
    <3>1. f[0] = 0 /\ g[0] = 0
      BY <1>0, <1>1
    <3> QED BY <2>2, <2>3, <3>1
  <2>4. CASE n # 0
    <3>1. n - 1 \in 0..MaxResults /\ n \in C!Results
      BY <1>0, <2>2, <2>4
    <3>2. right(n - 1)
      <4>1. n - 1 \notin bad
        <5> HIDE DEF bad
        <5> QED BY <1>0, <2>1, <2>2, <3>1
      <4> HIDE DEF right
      <4> QED BY <3>1, <4>1
    <3>3. f[n] = f[n - 1] + v[n] /\ g[n] = g[n - 1] + u[n] /\ v[n] \in Nat /\ u[n] \in Nat
      BY <1>1, <2>2, <2>4, <3>1
    <3>4. n = j => j \notin 1..(n - 1)
      BY <2>2
    <3>5. j \notin 1..n => j \notin 1..(n - 1) /\ j # n
      BY <2>2, <2>4
    <3>6. v[n] <= u[n] \/ (n = j /\ v[n] <= u[n] + d)
      BY <3>1 DEF NearlyBelow
    <3>7. f[n] \in Nat /\ g[n] \in Nat
      BY <3>2, <3>3
    <3>8. f[n] <= g[n] + d
      BY <3>2, <3>3, <3>4, <3>6
    <3>9. j \notin 1..n => f[n] <= g[n]
      BY <3>2, <3>3, <3>5, <3>6
    <3> QED BY <2>2, <3>7, <3>8, <3>9
  <2> QED BY <2>3, <2>4
<1>3. right(MaxResults)
  BY <1>0, <1>2
<1> QED BY <1>3

\* A capture counts what its results got, and no more than it may; what a capture or a
\* worker refers to is a result of that capture, unless its memory was freed.
Filled(s) ==
    /\ sinks[s].m_packet_count \in Nat /\ sinks[s].m_packet_count <= conf.packet_count
    /\ \A f : Prefix(f, PacketsOf(s)) => f[MaxResults] <= sinks[s].m_packet_count
Owned ==
    /\ \A s \in C!Sinks :
         /\ sinks[s].where \in {"listed", "lost"} /\ sinks[s].m_results # C!Null
         /\ results[sinks[s].m_results].where # "freed"
         => results[sinks[s].m_results].parent = s
    /\ \A w \in CaptureWorkers :
         push[w].pc # "idle" /\ results[push[w].result].where # "freed"
         => results[push[w].result].parent = push[w].sink
    /\ \A r \in C!Results : results[r].where # "freed" => results[r].packets \in Nat
PInv == conf.packet_count # 0 => Owned /\ \A s \in C!Sinks : Filled(s)

LEMMA FilledGrows ==
    ASSUME Owned, Owned', NEW s, Filled(s), UNCHANGED conf, NEW j, NEW d \in Nat,
           sinks'[s].m_packet_count = sinks[s].m_packet_count + d,
           sinks[s].m_packet_count + d <= conf.packet_count,
           \A r \in C!Results : \/ PacketsOf(s)'[r] <= PacketsOf(s)[r]
                                \/ r = j /\ PacketsOf(s)'[r] <= PacketsOf(s)[r] + d
    PROVE  Filled(s)'
<1> DEFINE u == PacketsOf(s)
           v == PacketsOf(s)'
<1>0. NearlyBelow(v, u, j, d)
  BY DEF NearlyBelow
<1>1. u \in [C!Results -> Nat] /\ v \in [C!Results -> Nat]
  BY DEF Owned, PacketsOf
<1>2. PICK g : Prefix(g, u)
  BY <1>1, PrefixDefined
<1>3. g[MaxResults] <= sinks[s].m_packet_count
  BY <1>2 DEF Filled
<1>4. sinks[s].m_packet_count \in Nat
  BY DEF Filled
<1> HIDE DEF u
<1>5. ASSUME NEW f, Prefix(f, v) PROVE f[MaxResults] <= sinks'[s].m_packet_count
  <2> HIDE DEF v
  <2>2. f[MaxResults] \in Nat /\ g[MaxResults] \in Nat /\ f[MaxResults] <= g[MaxResults] + d
    BY <1>0, <1>1, <1>2, <1>5, PrefixGrows
  <2> QED BY <1>3, <1>4, <2>2
<1>6. \A f : Prefix(f, PacketsOf(s))' => f[MaxResults] <= sinks'[s].m_packet_count
  BY <1>5 DEF Prefix
<1> QED BY <1>4, <1>6 DEF Filled

\* Steps that give no result a packet more.
Fewer ==
    /\ UNCHANGED conf
    /\ \A r \in C!Results :
         \/ results'[r].where = "freed"
         \/ /\ results[r].where # "freed" /\ results'[r].parent = results[r].parent
            /\ results'[r].packets = results[r].packets
    /\ \A s \in C!Sinks :
         /\ sinks'[s].m_packet_count = sinks[s].m_packet_count
         /\ sinks'[s].where \in {"listed", "lost"} /\ sinks'[s].m_results # C!Null =>
              sinks[s].where \in {"listed", "lost"} /\ sinks'[s].m_results = sinks[s].m_results
    /\ \A w \in CaptureWorkers : push'[w].pc # "idle" =>
         \/ /\ push[w].pc # "idle" /\ push'[w].sink = push[w].sink
            /\ push'[w].result = push[w].result
         \/ /\ push'[w].sink \in C!Sinks /\ push'[w].result \in C!Results
            /\ sinks[push'[w].sink].where \in {"listed", "lost"}
            /\ sinks[push'[w].sink].m_results = push'[w].result

LEMMA FewerKeep == ASSUME CInv, PInv, Fewer PROVE PInv'
<1> SUFFICES ASSUME conf.packet_count # 0 PROVE (Owned /\ \A s \in C!Sinks : Filled(s))'
  BY DEF PInv, Fewer
<1>0. Owned /\ \A s \in C!Sinks : Filled(s)
  BY DEF PInv
<1>1. /\ \A s \in C!Sinks : sinks[s].m_results \in C!Results \union {C!Null}
      /\ \A w \in CaptureWorkers : push[w].pc # "idle" => push[w].result \in C!Results
  BY DEF CInv, CTyped, SinkRecord
<1>2. \A s \in C!Sinks :
        /\ sinks'[s].where \in {"listed", "lost"} /\ sinks'[s].m_results # C!Null
        /\ results'[sinks'[s].m_results].where # "freed"
        => results'[sinks'[s].m_results].parent = s
  BY <1>0, <1>1 DEF Owned, Fewer
<1>3. ASSUME NEW w \in CaptureWorkers, push'[w].pc # "idle",
             results'[push'[w].result].where # "freed"
      PROVE  results'[push'[w].result].parent = push'[w].sink
  <2>1. CASE push[w].pc # "idle" /\ push'[w].sink = push[w].sink
             /\ push'[w].result = push[w].result
    BY <1>0, <1>1, <1>3, <2>1 DEF Owned, Fewer
  <2>2. CASE /\ push'[w].sink \in C!Sinks /\ push'[w].result \in C!Results
             /\ sinks[push'[w].sink].where \in {"listed", "lost"}
             /\ sinks[push'[w].sink].m_results = push'[w].result
    <3>1. push'[w].result # C!Null
      BY <2>2, CaptureConstants
    <3> QED BY <1>0, <1>3, <2>2, <3>1 DEF Owned, Fewer
  <2> QED BY <1>3, <2>1, <2>2 DEF Fewer
<1>4. \A r \in C!Results : results'[r].where # "freed" => results'[r].packets \in Nat
  BY <1>0 DEF Owned, Fewer
<1>5. Owned'
  BY <1>2, <1>3, <1>4 DEF Owned
<1>6. ASSUME NEW s \in C!Sinks PROVE Filled(s)'
  <2>1. \A r \in C!Results : PacketsOf(s)'[r] <= PacketsOf(s)[r]
    BY <1>0, <1>4 DEF PacketsOf, Fewer, Owned
  <2>2. Filled(s) /\ sinks[s].m_packet_count \in Nat
    BY <1>0 DEF Filled
  <2>3. sinks'[s].m_packet_count = sinks[s].m_packet_count + 0
        /\ sinks[s].m_packet_count + 0 <= conf.packet_count
    BY <2>2 DEF Fewer, Filled
  <2>4. UNCHANGED conf /\ 0 \in Nat
    BY DEF Fewer
  <2> QED BY <1>0, <1>5, <2>1, <2>2, <2>3, <2>4, FilledGrows
<1> QED BY <1>5, <1>6

\* A sum of nothing.
LEMMA PrefixZero ==
    ASSUME NEW v, v = [r \in C!Results |-> 0], NEW f, Prefix(f, v) PROVE f[MaxResults] = 0
<1> DEFINE g == [n \in 0..MaxResults |-> 0]
<1>0. MaxResults \in Nat /\ \A i \in 0..MaxResults : i # 0 => i \in C!Results
  BY CaptureConstants DEF C!Results
<1>1. v \in [C!Results -> Nat]
  OBVIOUS
<1>2. Prefix(g, v)
  BY <1>0 DEF Prefix
<1>3. NearlyBelow(v, v, 0, 0)
  BY DEF NearlyBelow
<1>4. g[MaxResults] = 0
  BY <1>0
<1> HIDE DEF g
<1>5. f[MaxResults] \in Nat /\ f[MaxResults] <= g[MaxResults] + 0
  BY <1>1, <1>2, <1>3, PrefixGrows
<1> QED BY <1>4, <1>5

LEMMA PacketsInit == C!Init => PInv
<1> SUFFICES ASSUME C!Init PROVE Owned /\ \A s \in C!Sinks : Filled(s)
  BY DEF PInv
<1>1. /\ sinks = [s \in C!Sinks |-> C!NoSink] /\ results = [r \in C!Results |-> C!NoResult]
      /\ push = [w \in CaptureWorkers |-> C!Idle] /\ conf.packet_count \in Nat
  BY CaptureConstants DEF C!Init
<1>2. Owned
  BY <1>1, CaptureRecords DEF Owned
<1>3. ASSUME NEW s \in C!Sinks PROVE Filled(s)
  <2>1. PacketsOf(s) = [r \in C!Results |-> 0]
    BY <1>1, CaptureRecords DEF PacketsOf
  <2>2. sinks[s].m_packet_count = 0
    BY <1>1 DEF C!NoSink
  <2> HIDE DEF Owned
  <2>3. \A f : Prefix(f, PacketsOf(s)) => f[MaxResults] = 0
    BY <2>1, PrefixZero
  <2> QED BY <1>1, <2>2, <2>3 DEF Filled
<1> QED BY <1>2, <1>3

LEMMA CreatePackets ==
    ASSUME CInv, PInv, NEW c \in CaptureIds, C!create_capture(c)
    PROVE  PInv'
<1> DEFINE n == C!first(C!fresh_sinks)
           s0 == [C!NoSink EXCEPT !.id = c, !.where = "listed"]
<1>1. n \in C!fresh_sinks
  <2>1. C!fresh_sinks \subseteq Nat /\ C!fresh_sinks # {}
    BY CaptureConstants DEF C!create_capture, C!fresh_sinks, C!Sinks
  <2> QED BY <2>1, FirstFree
<1>2. /\ n \in C!Sinks /\ \A w \in CaptureWorkers : push[w].sink # n
      /\ \A r \in C!Results : results[r].where # "freed" => results[r].parent # n
  <2>1. \A r \in C!Results : results[r].where \in {"listed", "trash", "freed"}
    BY DEF CInv, CTyped, ResultRecord
  <2> QED BY <1>1, <2>1 DEF C!fresh_sinks, C!in_results, C!in_trash
<1>3. s0.m_results = C!Null /\ s0.m_packet_count = 0
  BY DEF C!NoSink
<1>4. /\ sinks' = [sinks EXCEPT ![n] = s0]
      /\ UNCHANGED <<conf, results, push>>
  BY DEF C!create_capture
<1>5. sinks \in [C!Sinks -> SinkRecord] /\ conf.packet_count \in Nat
  BY CaptureConstants DEF CInv, CTyped
<1> HIDE DEF n, s0
<1>6. sinks'[n] = s0 /\ \A s \in C!Sinks \ {n} : sinks'[s] = sinks[s]
  BY <1>2, <1>4, <1>5
<1> SUFFICES ASSUME conf.packet_count # 0 PROVE (Owned /\ \A s \in C!Sinks : Filled(s))'
  BY <1>4 DEF PInv
<1>7. Owned /\ \A s \in C!Sinks : Filled(s)
  BY DEF PInv
<1>8. Owned'
  BY <1>3, <1>4, <1>6, <1>7 DEF Owned
<1>9. ASSUME NEW s \in C!Sinks PROVE Filled(s)'
  <2>1. PacketsOf(s)' = PacketsOf(s)
    BY <1>4 DEF PacketsOf
  <2>2. CASE s = n
    <3>1. PacketsOf(s)' = [r \in C!Results |-> 0]
      BY <1>2, <1>4, <2>2 DEF PacketsOf
    <3>2. ASSUME NEW f, Prefix(f, PacketsOf(s)') PROVE f[MaxResults] = 0
      BY <3>1, <3>2, PrefixZero
    <3>3. \A f : Prefix(f, PacketsOf(s))' => f[MaxResults] = 0
      BY <3>2 DEF Prefix
    <3> QED BY <1>3, <1>4, <1>5, <1>6, <2>2, <3>3 DEF Filled
  <2>3. CASE s # n
    <3>1. \A f : Prefix(f, PacketsOf(s))' => Prefix(f, PacketsOf(s))
      BY <2>1 DEF Prefix
    <3> QED BY <1>4, <1>6, <1>7, <2>3, <3>1 DEF Filled
  <2> QED BY <2>2, <2>3
<1> QED BY <1>8, <1>9

LEMMA StartPackets ==
    ASSUME CInv, PInv, NEW s \in C!Sinks, C!start_capture(s)
    PROVE  PInv'
<1> DEFINE n == C!first(C!fresh_results)
           state == IF conf.start_trigger THEN "ARMED" ELSE "RUNNING"
           r0 == [C!NoResult EXCEPT !.parent = s, !.where = "listed", !.state = state]
<1>1. n \in C!fresh_results
  <2>1. C!fresh_results \subseteq Nat /\ C!fresh_results # {}
    BY CaptureConstants DEF C!start_capture, C!fresh_results, C!Results
  <2> QED BY <2>1, FirstFree
<1>2. /\ n \in C!Results /\ results[n].where = "freed"
      /\ \A w \in CaptureWorkers : push[w].result # n
      /\ \A x \in C!Sinks : sinks[x].where # "freed" => sinks[x].m_results # n
  BY <1>1 DEF C!fresh_results, C!referenced
<1>3. r0.parent = s /\ r0.where = "listed" /\ r0.packets = 0
  BY DEF C!NoResult
<1>4. /\ results' = [results EXCEPT ![n] = r0] /\ sinks' = [sinks EXCEPT ![s].m_results = n]
      /\ UNCHANGED <<conf, push>>
  BY DEF C!start_capture
<1>5. /\ sinks \in [C!Sinks -> SinkRecord] /\ results \in [C!Results -> ResultRecord]
      /\ \A w \in CaptureWorkers : push[w].pc # "idle" => push[w].result \in C!Results
      /\ \A x \in C!Sinks : sinks[x].m_results \in C!Results \union {C!Null}
  BY DEF CInv, CTyped, SinkRecord
<1> HIDE DEF n, r0, state
<1>6. /\ \A x \in C!Sinks \ {s} : sinks'[x] = sinks[x]
      /\ sinks'[s].m_results = n /\ sinks'[s].m_packet_count = sinks[s].m_packet_count
  BY <1>4, <1>5 DEF SinkRecord
<1>7. results'[n] = r0 /\ \A r \in C!Results \ {n} : results'[r] = results[r]
  BY <1>2, <1>4, <1>5
<1> SUFFICES ASSUME conf.packet_count # 0 PROVE (Owned /\ \A x \in C!Sinks : Filled(x))'
  BY <1>4 DEF PInv
<1>8. Owned /\ \A x \in C!Sinks : Filled(x)
  BY DEF PInv
<1>9. Owned'
  <2>1. ASSUME NEW x \in C!Sinks, sinks'[x].where \in {"listed", "lost"}, sinks'[x].m_results # C!Null,
               results'[sinks'[x].m_results].where # "freed"
        PROVE  results'[sinks'[x].m_results].parent = x
    <3>1. CASE x = s
      BY <1>3, <1>6, <1>7, <3>1
    <3>2. CASE x # s
      <4>0. sinks'[x] = sinks[x] /\ sinks[x].where \in {"listed", "lost"} /\ sinks[x].m_results # C!Null
        BY <1>6, <2>1, <3>2
      <4>1. sinks'[x] = sinks[x] /\ sinks[x].m_results \in C!Results \ {n}
        BY <1>2, <1>5, <4>0
      <4>2. results'[sinks'[x].m_results] = results[sinks[x].m_results]
        BY <1>7, <4>1
      <4> QED BY <1>8, <2>1, <4>1, <4>2 DEF Owned
    <3> QED BY <3>1, <3>2
  <2>2. ASSUME NEW w \in CaptureWorkers, push'[w].pc # "idle",
               results'[push'[w].result].where # "freed"
        PROVE  results'[push'[w].result].parent = push'[w].sink
    BY <1>2, <1>4, <1>5, <1>7, <1>8, <2>2 DEF Owned
  <2>3. \A r \in C!Results : results'[r].where # "freed" => results'[r].packets \in Nat
    BY <1>3, <1>7, <1>8 DEF Owned
  <2> QED BY <2>1, <2>2, <2>3 DEF Owned
<1>10. ASSUME NEW x \in C!Sinks PROVE Filled(x)'
  <2>1. \A r \in C!Results : PacketsOf(x)'[r] <= PacketsOf(x)[r]
    <3>1. \A r \in C!Results \ {n} : PacketsOf(x)'[r] = PacketsOf(x)[r] /\ PacketsOf(x)[r] \in Nat
      BY <1>7, <1>8 DEF PacketsOf, Owned
    <3>2. PacketsOf(x)'[n] = 0 /\ PacketsOf(x)[n] = 0
      BY <1>2, <1>3, <1>7 DEF PacketsOf
    <3> QED BY <3>1, <3>2
  <2>2. Filled(x) /\ sinks[x].m_packet_count \in Nat
    BY <1>8 DEF Filled
  <2>3. sinks'[x].m_packet_count = sinks[x].m_packet_count + 0
        /\ sinks[x].m_packet_count + 0 <= conf.packet_count
    BY <1>6, <2>2 DEF Filled
  <2> QED BY <1>4, <1>8, <1>9, <2>1, <2>2, <2>3, FilledGrows
<1> QED BY <1>9, <1>10

\* increment_counter() grants what is left, and the result gets as much.
LEMMA CountPackets ==
    ASSUME CInv, PInv, NEW w \in CaptureWorkers, C!push_count(w)
    PROVE  PInv'
<1> DEFINE q == push[w]
           most == IF q.count + q.burst > conf.packet_count THEN conf.packet_count
                   ELSE q.count + q.burst
           n == most - q.count
<1> SUFFICES ASSUME conf'.packet_count # 0 PROVE PInv'
  BY DEF PInv
<1>1. Harmless /\ \E p : Goes(w, p)
  BY PushGoes DEF C!Push
<1>2. PICK p : Goes(w, p)
  BY <1>1
<1>3. /\ conf' = conf /\ conf.packet_count \in Nat /\ q.pc = "count" /\ q \in PushRecord
      /\ q.sink \in C!Sinks /\ q.result \in C!Results
      /\ sinks \in [C!Sinks -> SinkRecord] /\ results \in [C!Results -> ResultRecord]
      /\ push \in [CaptureWorkers -> PushRecord] /\ p \in PushRecord
  BY <1>2, CaptureConstants DEF C!push_count, CInv, CTyped, Goes
<1>4. Owned /\ \A s \in C!Sinks : Filled(s)
  BY <1>3 DEF PInv
<1>5. \A v \in CaptureWorkers : push'[v].pc # "idle" =>
         \/ /\ push[v].pc # "idle" /\ push'[v].sink = push[v].sink
            /\ push'[v].result = push[v].result
         \/ /\ push'[v].sink \in C!Sinks /\ push'[v].result \in C!Results
            /\ sinks[push'[v].sink].where \in {"listed", "lost"}
            /\ sinks[push'[v].sink].m_results = push'[v].result
  BY <1>2, <1>3 DEF Goes
<1>6. CASE UNCHANGED <<sinks, results>>
  <2>1. Fewer
    BY <1>3, <1>5, <1>6 DEF Fewer
  <2> QED BY <2>1, FewerKeep
<1>7. CASE /\ C!unchanged_count(w)
           /\ sinks' = [sinks EXCEPT ![q.sink].m_packet_count = most]
           /\ results' = IF results[q.result].where = "freed" THEN results
                         ELSE [results EXCEPT ![q.result].packets = @ + n]
  <2>1. /\ q.count = sinks[q.sink].m_packet_count /\ q.count \in Nat /\ q.burst \in Nat
        /\ q.count <= conf.packet_count
    BY <1>3, <1>4, <1>7 DEF C!unchanged_count, Filled, PushRecord
  <2>2. n \in Nat /\ most = q.count + n /\ most <= conf.packet_count
    BY <1>3, <2>1
  <2> HIDE DEF n, most, q
  <2>3. /\ sinks'[q.sink].m_packet_count = sinks[q.sink].m_packet_count + n
        /\ \A s \in C!Sinks \ {q.sink} : sinks'[s] = sinks[s]
        /\ \A s \in C!Sinks : sinks'[s].where = sinks[s].where
                              /\ sinks'[s].m_results = sinks[s].m_results
    BY <1>3, <1>7, <2>1, <2>2 DEF SinkRecord
  <2>4. /\ \A r \in C!Results : results'[r].where = results[r].where
                                /\ results'[r].parent = results[r].parent
        /\ \A r \in C!Results \ {q.result} : results'[r].packets = results[r].packets
        /\ results[q.result].where # "freed" =>
             results'[q.result].packets = results[q.result].packets + n
    <3>1. CASE results' = results /\ results[q.result].where = "freed"
      BY <3>1
    <3>2. CASE results' = [results EXCEPT ![q.result].packets = @ + n]
      BY <1>3, <3>2 DEF ResultRecord
    <3> QED BY <1>7, <3>1, <3>2
  <2>5. Owned'
    <3>1. \A s \in C!Sinks :
            /\ sinks'[s].where \in {"listed", "lost"} /\ sinks'[s].m_results # C!Null
            /\ results'[sinks'[s].m_results].where # "freed"
            => results'[sinks'[s].m_results].parent = s
      <4>1. \A s \in C!Sinks : sinks[s].m_results \in C!Results \union {C!Null}
        BY <1>3 DEF SinkRecord
      <4> QED BY <1>4, <2>3, <2>4, <4>1 DEF Owned
    <3>2. ASSUME NEW v \in CaptureWorkers, push'[v].pc # "idle",
                 results'[push'[v].result].where # "freed"
          PROVE  results'[push'[v].result].parent = push'[v].sink
      <4>1. CASE push[v].pc # "idle" /\ push'[v].sink = push[v].sink
                 /\ push'[v].result = push[v].result
        <5>1. push[v].result \in C!Results
          BY <4>1 DEF CInv, CTyped
        <5> QED BY <1>4, <2>4, <3>2, <4>1, <5>1 DEF Owned
      <4>2. CASE /\ push'[v].sink \in C!Sinks /\ push'[v].result \in C!Results
                 /\ sinks[push'[v].sink].where \in {"listed", "lost"}
                 /\ sinks[push'[v].sink].m_results = push'[v].result
        <5>1. push'[v].result # C!Null
          BY <4>2, CaptureConstants
        <5> QED BY <1>4, <2>4, <3>2, <4>2, <5>1 DEF Owned
      <4> QED BY <1>5, <3>2, <4>1, <4>2
    <3>3. \A r \in C!Results : results'[r].where # "freed" => results'[r].packets \in Nat
      BY <1>4, <2>2, <2>4 DEF Owned
    <3> QED BY <3>1, <3>2, <3>3 DEF Owned
  <2>6. ASSUME NEW s \in C!Sinks PROVE Filled(s)'
    <3>0. Filled(s) /\ sinks[s].m_packet_count \in Nat
      BY <1>4 DEF Filled
    <3>1. \A r \in C!Results \ {q.result} : PacketsOf(s)'[r] <= PacketsOf(s)[r]
      BY <1>4, <2>4 DEF PacketsOf, Owned
    <3>2. results[q.result].where # "freed" => results[q.result].parent = q.sink
      BY <1>3, <1>4 DEF Owned, q
    <3>3. CASE s = q.sink
      <4>1. PacketsOf(s)'[q.result] <= PacketsOf(s)[q.result] + n
        BY <1>3, <1>4, <2>2, <2>4 DEF PacketsOf, Owned
      <4>2. /\ sinks'[s].m_packet_count = sinks[s].m_packet_count + n
            /\ sinks[s].m_packet_count + n <= conf.packet_count
        BY <2>1, <2>2, <2>3, <3>3
      <4> QED BY <1>3, <1>4, <2>2, <2>5, <3>0, <3>1, <4>1, <4>2, FilledGrows
    <3>4. CASE s # q.sink
      <4>1. PacketsOf(s)'[q.result] <= PacketsOf(s)[q.result]
        BY <1>3, <2>4, <3>2, <3>4 DEF PacketsOf
      <4>2. /\ sinks'[s].m_packet_count = sinks[s].m_packet_count + 0
            /\ sinks[s].m_packet_count + 0 <= conf.packet_count
        BY <2>3, <3>0, <3>4 DEF Filled
      <4>3. \A r \in C!Results : PacketsOf(s)'[r] <= PacketsOf(s)[r]
        BY <3>1, <4>1
      <4> QED BY <1>3, <1>4, <2>5, <3>0, <4>2, <4>3, FilledGrows
    <3> QED BY <3>3, <3>4
  <2> QED BY <2>5, <2>6 DEF PInv
<1> QED BY <1>6, <1>7 DEF C!push_count

LEMMA PacketsNext == CInv /\ PInv /\ [C!Next]_(C!vars) => PInv'
<1> SUFFICES ASSUME CInv, PInv, [C!Next]_(C!vars) PROVE PInv'
  OBVIOUS
<1>0. /\ results \in [C!Results -> ResultRecord] /\ sinks \in [C!Sinks -> SinkRecord]
      /\ push \in [CaptureWorkers -> PushRecord] /\ transfers \in [C!Transfers -> TransferRecord]
  BY DEF CInv, CTyped
<1>1. ASSUME UNCHANGED <<conf, sinks, push>>, NEW r \in C!Results, NEW b,
             results' = results \/ results' = [results EXCEPT ![r].timer = b]
      PROVE  PInv'
  <2>1. \A o \in C!Results : /\ results'[o].where = results[o].where
                             /\ results'[o].parent = results[o].parent
                             /\ results'[o].packets = results[o].packets
    BY <1>0, <1>1 DEF ResultRecord
  <2>2. Fewer
    BY <1>1, <2>1 DEF Fewer
  <2> QED BY <2>2, FewerKeep
<1>2. ASSUME UNCHANGED <<conf, sinks, results, push>> PROVE PInv'
  <2>1. Fewer
    BY <1>2 DEF Fewer
  <2> QED BY <2>1, FewerKeep
<1>3. ASSUME Sheds PROVE PInv'
  <2>1. Fewer
    BY <1>3 DEF Sheds, Fewer
  <2> QED BY <2>1, FewerKeep
<1>4. CASE C!stop_end
  <2>1. /\ stopping.sink \in C!Sinks /\ stopping.result \in C!Results
        /\ sinks' = [sinks EXCEPT ![stopping.sink].m_results = C!Null]
        /\ UNCHANGED <<conf, push>>
        /\ results' = results \/ results' = [results EXCEPT ![stopping.result].state = "STOPPED"]
    BY <1>4 DEF CInv, CTyped, StopRecord, C!stop_end, C!set_state
  <2>2. \A o \in C!Results : /\ results'[o].where = results[o].where
                             /\ results'[o].parent = results[o].parent
                             /\ results'[o].packets = results[o].packets
    BY <1>0, <2>1 DEF ResultRecord
  <2>3. \A s \in C!Sinks : /\ sinks'[s].where = sinks[s].where
                           /\ sinks'[s].m_packet_count = sinks[s].m_packet_count
                           /\ sinks'[s].m_results \in {sinks[s].m_results, C!Null}
    BY <1>0, <2>1 DEF SinkRecord
  <2>4. Fewer
    BY <2>1, <2>2, <2>3 DEF Fewer
  <2> QED BY <2>4, FewerKeep
<1>5. ASSUME NEW w \in CaptureWorkers, C!push_begin(w) \/ C!Push(w) PROVE PInv'
  <2>1. CASE C!push_count(w)
    BY <2>1, CountPackets
  <2>2. CASE C!push_begin(w) \/ C!push_state(w) \/ C!push_load(w) \/ C!push_exchange(w)
             \/ C!push_write(w)
    <3>1. Harmless /\ \E p : Goes(w, p)
      BY <1>5, PushGoes
    <3>2. PICK p : Goes(w, p)
      BY <3>1
    <3>3. /\ sinks' = sinks
          /\ \/ results' = results
             \/ /\ push[w].result \in C!Results
                /\ results' = [results EXCEPT ![push[w].result].state = push[w].to]
      BY <2>2 DEF C!push_begin, C!push_state, C!push_load, C!push_exchange, C!push_write,
         C!set_state, CInv, CTyped
    <3>4. \A o \in C!Results : /\ results'[o].where = results[o].where
                               /\ results'[o].parent = results[o].parent
                               /\ results'[o].packets = results[o].packets
      BY <1>0, <3>3 DEF ResultRecord
    <3>5. \A v \in CaptureWorkers : push'[v].pc # "idle" =>
            \/ /\ push[v].pc # "idle" /\ push'[v].sink = push[v].sink
               /\ push'[v].result = push[v].result
            \/ /\ push'[v].sink \in C!Sinks /\ push'[v].result \in C!Results
               /\ sinks[push'[v].sink].where \in {"listed", "lost"}
               /\ sinks[push'[v].sink].m_results = push'[v].result
      BY <1>0, <3>2 DEF Goes
    <3>6. Fewer
      BY <3>1, <3>3, <3>4, <3>5 DEF Fewer, Harmless
    <3> QED BY <3>6, FewerKeep
  <2> QED BY <1>5, <2>1, <2>2 DEF C!Push
<1>6. CASE UNCHANGED C!vars
  BY <1>2, <1>6 DEF C!vars
<1>7. ASSUME stopping = C!NotStopping, C!Requests PROVE PInv'
  <2>1. CASE C!read_only
    BY <1>6, <2>1 DEF C!read_only
  <2>2. ASSUME NEW c \in CaptureIds, C!create_capture(c) PROVE PInv'
    BY <2>2, CreatePackets
  <2>3. ASSUME NEW s \in C!Sinks, C!start_capture(s) PROVE PInv'
    BY <2>3, StartPackets
  <2>4. ASSUME NEW s \in C!Sinks, C!stop_capture(s) PROVE PInv'
    <3>1. /\ UNCHANGED <<conf, sinks, push>> /\ sinks[s].m_results \in C!Results
          /\ results' = [results EXCEPT ![sinks[s].m_results].timer = FALSE]
      BY <1>0, <2>4 DEF C!stop_capture, SinkRecord
    <3> QED BY <1>1, <3>1
  <2>5. ASSUME NEW D, NEW lost \in SUBSET C!listed, C!delete(D, lost) \/ C!delete_results(D)
        PROVE  PInv'
    BY <1>3, <1>7, <2>5, DeleteSheds
  <2>6. ASSUME NEW R, C!create_capture_transfer(R) PROVE PInv'
    BY <1>2, <2>6 DEF C!create_capture_transfer
  <2>7. ASSUME NEW s, C!delete_capture(s) \/ C!delete_captures PROVE PInv'
    BY <2>5, <2>7, Deletions
  <2> QED BY <1>7, <2>1, <2>2, <2>3, <2>4, <2>5, <2>6, <2>7 DEF C!Requests
<1>8. ASSUME stopping = C!NotStopping, NEW t \in C!Transfers, C!delete_capture_transfer(t)
      PROVE  PInv'
  BY <1>3, <1>8, DeleteTransferSheds
<1>9. ASSUME stopping = C!NotStopping, NEW f \in CaptureFds, C!handle_event_trigger(f)
      PROVE  PInv'
  <2>0. UNCHANGED <<conf, stopping, push>>
    BY <1>9 DEF C!handle_event_trigger
  <2>1. CASE UNCHANGED <<sinks, results, transfers>>
    BY <1>2, <2>0, <2>1
  <2>2. ASSUME NEW r \in C!Results, C!state_changed(r, f) PROVE PInv'
    <3>1. /\ UNCHANGED <<conf, sinks, push>>
          /\ \/ results' = results
             \/ results' = [results EXCEPT ![r].timer = TRUE]
             \/ results' = [results EXCEPT ![r].timer = FALSE]
      BY <2>0, <2>2 DEF C!state_changed
    <3> QED BY <1>1, <3>1
  <2>3. ASSUME NEW map, NEW P, NEW R, C!garbage_collect(transfers, map, P, R) PROVE PInv'
    BY <1>0, <1>3, <1>9, <2>0, <2>3, CollectSheds
  <2> QED BY <1>9, <2>1, <2>2, <2>3 DEF C!handle_event_trigger
<1>10. ASSUME NEW r \in C!Results, C!handle_capture_stop_timer(r) PROVE PInv'
  BY <1>1, <1>10 DEF C!handle_capture_stop_timer
<1>11. ASSUME NEW t \in C!Transfers, C!transfer_start(t) \/ C!transfer_done(t) PROVE PInv'
  BY <1>2, <1>11 DEF C!transfer_start, C!transfer_done
<1>12. CASE C!Server
  BY <1>4, <1>7, <1>8, <1>9, <1>10, <1>12 DEF C!Server
<1> QED BY <1>5, <1>6, <1>11, <1>12 DEF C!Next

LEMMA PacketsMean == CInv /\ PInv => C!PacketLimit
<1> SUFFICES ASSUME CInv, PInv, conf.packet_count # 0, NEW s \in C!Sinks
             PROVE  LET packets(r) == IF results[r].where # "freed" /\ results[r].parent = s
                                      THEN results[r].packets ELSE 0
                        sum[n \in 0..MaxResults] == IF n = 0 THEN 0 ELSE sum[n - 1] + packets(n)
                    IN  sum[MaxResults] <= conf.packet_count
  BY DEF C!PacketLimit
<1> DEFINE packets(r) == IF results[r].where # "freed" /\ results[r].parent = s
                         THEN results[r].packets ELSE 0
           sums(f) == f = [n \in 0..MaxResults |-> IF n = 0 THEN 0 ELSE f[n - 1] + packets(n)]
           g == CHOOSE f : sums(f)
           v == PacketsOf(s)
<1>0. MaxResults \in Nat /\ \A i \in 0..MaxResults : i # 0 => i \in C!Results
  BY CaptureConstants DEF C!Results
<1>1. Owned /\ Filled(s) /\ conf.packet_count \in Nat
  BY CaptureConstants DEF PInv, CInv, CTyped
<1>2. v \in [C!Results -> Nat]
  BY <1>1 DEF Owned, PacketsOf
<1>3. \A n \in 0..MaxResults : n # 0 => v[n] = packets(n)
  BY <1>0 DEF PacketsOf
<1> HIDE DEF v, packets
<1>4. \A f : Prefix(f, v) <=> sums(f)
  BY <1>3 DEF Prefix
<1>5. sums(g)
  <2>1. \E f : sums(f)
    BY <1>2, <1>4, PrefixDefined
  <2> HIDE DEF sums
  <2> QED BY <2>1
<1>6. Prefix(g, v)
  BY <1>4, <1>5
<1>7. NearlyBelow(v, v, 0, 0)
  BY <1>2 DEF NearlyBelow
<1>8. g[MaxResults] \in Nat /\ g[MaxResults] <= sinks[s].m_packet_count
  <2> HIDE DEF g
  <2>1. g[MaxResults] \in Nat
    BY <1>2, <1>6, <1>7, PrefixGrows
  <2> QED BY <1>1, <1>6, <2>1 DEF Filled, v
<1>9. g[MaxResults] <= conf.packet_count
  <2> HIDE DEF g
  <2> QED BY <1>1, <1>8 DEF Filled
<1> QED BY <1>9 DEF packets

-----------------------------------------------------------------------------
(* Captures: what is deleted during a transfer.                            *)

\* Something in the bucket of a result in the trash has a transfer.
Remembered ==
    /\ \A t \in C!Transfers : transfers[t].phase = "gone" => transfers[t].results = {}
    /\ \A r \in C!Results : results[r].where = "trash" => results[r].parent \in C!Sinks
    /\ \A r \in C!Results : results[r].where = "trash" =>
         \E t \in C!Transfers : \E q \in transfers[t].results :
             /\ results[q].where = "trash"
             /\ sinks[results[q].parent].id = sinks[results[r].parent].id

\* Steps that neither delete nor collect.
TrashLeft ==
    /\ \A r \in C!Results :
         /\ results'[r].where = "trash" <=> results[r].where = "trash"
         /\ results[r].where = "trash" =>
              /\ results'[r].parent = results[r].parent
              /\ sinks'[results[r].parent].id = sinks[results[r].parent].id
    /\ \A t \in C!Transfers :
         /\ transfers[t].results \subseteq transfers'[t].results
         /\ transfers'[t].phase = "gone" => transfers'[t].results = {}

LEMMA LeftRemembered ==
    ASSUME CInv, Remembered, TrashLeft PROVE Remembered'
<1>1. \A t \in C!Transfers : transfers[t].results \subseteq C!Results
  BY DEF CInv, CTyped, TransferRecord
<1>2. ASSUME NEW r \in C!Results, results'[r].where = "trash"
      PROVE  \E t \in C!Transfers : \E q \in transfers'[t].results :
                 /\ results'[q].where = "trash"
                 /\ sinks'[results'[q].parent].id = sinks'[results'[r].parent].id
  <2>1. results[r].where = "trash"
    BY <1>2 DEF TrashLeft
  <2>0. PICK t \in C!Transfers : \E q \in transfers[t].results :
          /\ results[q].where = "trash"
          /\ sinks[results[q].parent].id = sinks[results[r].parent].id
    BY <2>1 DEF Remembered
  <2>2. PICK q \in transfers[t].results :
          /\ results[q].where = "trash"
          /\ sinks[results[q].parent].id = sinks[results[r].parent].id
    BY <2>0
  <2>3. q \in C!Results /\ q \in transfers'[t].results
    BY <1>1, <2>2 DEF TrashLeft
  <2>4. /\ results'[q].where = "trash" /\ results'[q].parent = results[q].parent
        /\ sinks'[results[q].parent].id = sinks[results[q].parent].id
        /\ results'[r].parent = results[r].parent
        /\ sinks'[results[r].parent].id = sinks[results[r].parent].id
    BY <2>1, <2>2, <2>3 DEF TrashLeft
  <2> QED BY <2>2, <2>3, <2>4
<1>3. \A r \in C!Results : results'[r].where = "trash" => results'[r].parent \in C!Sinks
  BY DEF TrashLeft, Remembered
<1>4. \A t \in C!Transfers : transfers'[t].phase = "gone" => transfers'[t].results = {}
  BY DEF TrashLeft
<1> QED BY <1>2, <1>3, <1>4 DEF Remembered

LEMMA DisposedTrash ==
    ASSUME CInv, NEW gone \in SUBSET C!Results, NEW kept \in SUBSET C!Results,
           gone \union kept \subseteq C!in_results, gone \intersect kept = {},
           C!dispose(gone, kept)
    PROVE  \A r \in C!Results :
             /\ results'[r].where = "trash" => results[r].where = "trash" \/ r \in kept
             /\ results[r].where = "trash" \/ r \in kept =>
                  results'[r].where = "trash" /\ results'[r].parent = results[r].parent
<1> DEFINE away(r) == [results[r] EXCEPT !.where = "trash", !.timer = FALSE]
<1>1. PICK g \in C!States :
        results' = [r \in C!Results |-> IF r \in gone THEN C!freed(r, g)
                                        ELSE IF r \in kept THEN away(r) ELSE results[r]]
  BY DEF C!dispose
<1>2. \A r \in C!Results : away(r).where = "trash" /\ away(r).parent = results[r].parent
  BY DEF CInv, CTyped, ResultRecord
<1>3. \A r \in C!Results : C!freed(r, g).where = "freed"
  BY FreedResult
<1>4. \A r \in gone \union kept : results[r].where = "listed"
  BY DEF C!in_results
<1> HIDE DEF away
<1>5. ASSUME NEW r \in C!Results
      PROVE  \/ r \in gone /\ results'[r] = C!freed(r, g)
             \/ r \notin gone /\ r \in kept /\ results'[r] = away(r)
             \/ r \notin gone \union kept /\ results'[r] = results[r]
  BY <1>1
<1> QED BY <1>2, <1>3, <1>4, <1>5

\* A result goes to the trash only with something in its bucket that has a transfer.
LEMMA DeleteRemembered ==
    ASSUME CInv, Remembered, stopping = C!NotStopping, NEW D, NEW lost \in SUBSET C!listed,
           C!delete(D, lost) \/ C!delete_results(D)
    PROVE  Remembered'
<1>0. /\ Sheds /\ transfers' = transfers
      /\ \A t \in C!Transfers : transfers[t].results \subseteq C!Results
      /\ \A s \in C!Sinks : sinks'[s].id = sinks[s].id
  <2>1. Sheds
    BY DeleteSheds
  <2>2. transfers' = transfers
    BY DEF C!delete, C!delete_results
  <2> QED BY <2>1, <2>2 DEF Sheds, CInv, CTyped, TransferRecord
<1>1. PICK gone \in SUBSET C!Results, kept \in SUBSET C!Results :
        /\ gone \union kept \subseteq C!in_results /\ gone \intersect kept = {}
        /\ C!dispose(gone, kept)
        /\ \A r \in kept : \E t \in C!Transfers : \E q \in transfers[t].results :
             /\ results[q].where = "trash" \/ q \in kept
             /\ sinks[results[q].parent].id = sinks[results[r].parent].id
  <2>1. CASE C!delete_results(D)
    <3> DEFINE gone == {r \in D : ~C!in_use(r)}
               kept == {r \in D : C!in_use(r)}
    <3>1. D \subseteq C!in_results /\ C!dispose(gone, kept)
      BY <2>1 DEF C!delete_results
    <3>2. /\ gone \in SUBSET C!Results /\ kept \in SUBSET C!Results
          /\ gone \union kept \subseteq C!in_results /\ gone \intersect kept = {}
      BY <3>1 DEF C!in_results
    <3>3. \A r \in kept : \E t \in C!Transfers : r \in transfers[t].results
      BY DEF C!in_use
    <3> HIDE DEF gone, kept
    <3> QED BY <3>1, <3>2, <3>3
  <2>2. CASE C!delete(D, lost)
    <3> DEFINE deferred == {s \in D : C!has_transfer(s)}
               of(a) == {r \in C!in_results : results[r].parent \in a}
               gone == of(D \ deferred)
               kept == of(deferred)
    <3>1. D \subseteq C!listed /\ C!dispose(gone, kept)
      BY <2>2 DEF C!delete
    <3>2. /\ gone \in SUBSET C!Results /\ kept \in SUBSET C!Results
          /\ gone \union kept \subseteq C!in_results /\ gone \intersect kept = {}
      BY DEF C!in_results
    <3>3. ASSUME NEW r \in kept
          PROVE  \E t \in C!Transfers : \E q \in transfers[t].results :
                   /\ results[q].where = "trash" \/ q \in kept
                   /\ sinks[results[q].parent].id = sinks[results[r].parent].id
      <4>1. results[r].parent \in deferred
        OBVIOUS
      <4>2. CASE \E x \in C!in_results : results[x].parent = results[r].parent /\ C!in_use(x)
        <5>1. PICK x \in C!in_results : results[x].parent = results[r].parent /\ C!in_use(x)
          BY <4>2
        <5>2. x \in kept
          BY <4>1, <5>1
        <5> QED BY <5>1, <5>2 DEF C!in_use
      <4>3. CASE \E x \in C!in_trash :
                   sinks[results[x].parent].id = sinks[results[r].parent].id /\ C!in_use(x)
        BY <4>3 DEF C!in_trash, C!in_use
      <4> QED BY <4>1, <4>2, <4>3 DEF C!has_transfer
    <3> HIDE DEF gone, kept
    <3> QED BY <3>1, <3>2, <3>3
  <2> QED BY <2>1, <2>2
<1>2. \A r \in C!Results :
        /\ results'[r].where = "trash" => results[r].where = "trash" \/ r \in kept
        /\ results[r].where = "trash" \/ r \in kept =>
             results'[r].where = "trash" /\ results'[r].parent = results[r].parent
  BY <1>1, DisposedTrash
<1>3. \A r \in C!Results : results[r].where = "trash" \/ r \in kept => results[r].parent \in C!Sinks
  BY <1>1 DEF Remembered, CInv, Parented, C!in_results
<1>4. ASSUME NEW r \in C!Results, results'[r].where = "trash"
      PROVE  \E t \in C!Transfers : \E q \in transfers'[t].results :
                 /\ results'[q].where = "trash"
                 /\ sinks'[results'[q].parent].id = sinks'[results'[r].parent].id
  <2>1. results[r].where = "trash" \/ r \in kept
    BY <1>2, <1>4
  <2>0. PICK t \in C!Transfers : \E q \in transfers[t].results :
          /\ results[q].where = "trash" \/ q \in kept
          /\ sinks[results[q].parent].id = sinks[results[r].parent].id
    <3>1. CASE r \in kept
      BY <1>1, <3>1
    <3>2. CASE results[r].where = "trash"
      BY <3>2 DEF Remembered
    <3> QED BY <2>1, <3>1, <3>2
  <2>2. PICK q \in transfers[t].results :
          /\ results[q].where = "trash" \/ q \in kept
          /\ sinks[results[q].parent].id = sinks[results[r].parent].id
    BY <2>0
  <2>3. q \in C!Results /\ results'[q].where = "trash"
    BY <1>0, <1>2, <2>2
  <2>4. /\ results'[q].parent = results[q].parent /\ results'[r].parent = results[r].parent
        /\ sinks'[results[q].parent].id = sinks[results[q].parent].id
        /\ sinks'[results[r].parent].id = sinks[results[r].parent].id
    BY <1>0, <1>2, <1>3, <2>1, <2>2, <2>3
  <2> QED BY <1>0, <2>2, <2>3, <2>4
<1>5. \A r \in C!Results : results'[r].where = "trash" => results'[r].parent \in C!Sinks
  BY <1>2, <1>3
<1>6. \A t \in C!Transfers : transfers'[t].phase = "gone" => transfers'[t].results = {}
  BY <1>0 DEF Remembered
<1> QED BY <1>4, <1>5, <1>6 DEF Remembered

LEMMA CollectRemembered ==
    ASSUME CInv, Remembered, stopping = C!NotStopping,
           NEW ts \in [C!Transfers -> TransferRecord],
           \A t \in C!Transfers : ts[t].phase \in {"attached", "sending"} => ts[t] = transfers[t],
           NEW map, NEW P, NEW R, C!garbage_collect(ts, map, P, R),
           UNCHANGED <<conf, stopping, push>>
    PROVE  Remembered'
<1> DEFINE over == {t \in C!Transfers : ts[t].phase \in {"done", "gone"}}
           busy == {r \in C!in_trash : \E t \in C!Transfers \ over : r \in ts[t].results}
           gone == {r \in C!in_trash : C!empty(sinks[results[r].parent].id, busy)}
<1>0. /\ Sheds /\ \A s \in C!Sinks : sinks'[s].id = sinks[s].id
  <2>1. Sheds
    BY CollectSheds
  <2> QED BY <2>1 DEF Sheds
<1>1. transfers' = [t \in C!Transfers |-> IF t \in over THEN C!NoTransfer ELSE ts[t]]
  BY DEF C!garbage_collect
<1>2. PICK g \in C!States :
        results' = [r \in C!Results |-> IF r \in gone THEN C!freed(r, g) ELSE results[r]]
  BY DEF C!garbage_collect
<1>3. \A r \in C!Results : \/ r \in gone /\ results'[r].where = "freed"
                           \/ r \notin gone /\ results'[r] = results[r]
  BY <1>2, FreedResult
<1>4. \A t \in C!Transfers : transfers'[t].phase = "gone" => transfers'[t].results = {}
  <2>1. C!NoTransfer.results = {}
    BY DEF C!NoTransfer
  <2> QED BY <1>1, <2>1
<1>5. ASSUME NEW r \in C!Results, results'[r].where = "trash"
      PROVE  /\ results'[r].parent \in C!Sinks
             /\ \E t \in C!Transfers : \E q \in transfers'[t].results :
                 /\ results'[q].where = "trash"
                 /\ sinks'[results'[q].parent].id = sinks'[results'[r].parent].id
  <2>1. r \notin gone /\ results'[r] = results[r] /\ results[r].where = "trash"
    BY <1>3, <1>5
  <2>2. PICK q \in busy : sinks[results[q].parent].id = sinks[results[r].parent].id
    BY <2>1 DEF C!in_trash, C!empty
  <2>3. q \in C!Results /\ results[q].where = "trash" /\ q \notin gone
    BY <2>2 DEF C!in_trash, C!empty
  <2>4. PICK t \in C!Transfers \ over : q \in ts[t].results
    BY <2>2
  <2>5. results'[q] = results[q] /\ q \in transfers'[t].results
    BY <1>1, <1>3, <2>3, <2>4
  <2>6. results[q].parent \in C!Sinks /\ results[r].parent \in C!Sinks
    BY <2>1, <2>3 DEF Remembered
  <2> QED BY <1>0, <2>1, <2>2, <2>3, <2>4, <2>5, <2>6
<1> QED BY <1>4, <1>5 DEF Remembered

\* Without durations only transfers have event triggers.  The trigger of one that is not
\* over is polled and held by its callback, and readable just when it is done.
Wired ==
    /\ fd \in [C!Owners -> Nat] /\ m_triggers \in [CaptureFds -> C!Owners \union {C!Nobody}]
    /\ polled \subseteq open /\ ready \subseteq open /\ open \subseteq CaptureFds
    /\ \A o \in C!Owners : fd[o] # 0 => fd[o] \in open /\ m_triggers[fd[o]] = o
    /\ \A f \in CaptureFds : m_triggers[f] # C!Nobody =>
         \E t \in C!Transfers : m_triggers[f] = C!ofTransfer(t) /\ fd[C!ofTransfer(t)] = f
    /\ \A t \in C!Transfers : transfers[t].phase # "gone" =>
         C!ofTransfer(t) \in held /\ fd[C!ofTransfer(t)] \in polled
    /\ \A t \in C!Transfers : transfers[t].phase = "done" => fd[C!ofTransfer(t)] \in ready
    /\ \A t \in C!Transfers : transfers[t].phase \in {"attached", "sending"} =>
         fd[C!ofTransfer(t)] \notin ready

WInv == Remembered /\ (~conf.duration => Wired)

LEMMA OwnersDiffer ==
    /\ \A t \in C!Transfers : C!ofTransfer(t) \in C!Owners
    /\ \A r \in C!Results : C!ofResult(r) \in C!Owners
    /\ \A t, u \in C!Transfers : C!ofTransfer(t) = C!ofTransfer(u) => t = u
    /\ \A r, t : C!ofResult(r) # C!ofTransfer(t)
    /\ C!Nobody \notin C!Owners
    /\ CaptureFds \subseteq Nat \ {0}
  BY PortUsersAssumption
     DEF C!ofTransfer, C!ofResult, C!Owners, C!Nobody, C!CaptureAssumption

\* Nothing is destroyed if all that have a descriptor are referred to.
LEMMA SettlesAll ==
    ASSUME NEW map, NEW hold, NEW fds \in [C!Owners -> Nat], NEW O, NEW P, NEW R,
           C!settle(map, hold, fds, {}, O, P, R),
           \A o \in C!Owners : fds[o] # 0 => o \in hold \/ \E f \in CaptureFds : map[f] = o
    PROVE  /\ m_triggers' = map /\ held' = hold /\ fd' = fds
           /\ open' = O /\ polled' = P /\ ready' = R
<1> DEFINE dead == {o \in C!Owners : /\ fds[o] # 0 /\ o \notin hold
                                     /\ \A f \in CaptureFds : map[f] # o}
           closed == {} \union {fds[o] : o \in dead}
<1>1. dead = {} /\ closed = {}
  OBVIOUS
<1>2. /\ m_triggers' = map /\ held' = hold
      /\ fd' = [o \in C!Owners |-> IF o \in dead THEN 0 ELSE fds[o]]
      /\ open' = O \ closed /\ polled' = P \ closed /\ ready' = R \ closed
  BY DEF C!settle
<1> HIDE DEF dead, closed
<1>3. fd' = [o \in C!Owners |-> fds[o]]
  BY <1>1, <1>2
<1> QED BY <1>1, <1>2, <1>3

\* Without a change of m_triggers callbacks may be dropped freely.
LEMMA Releases ==
    ASSUME Wired, NEW hold, C!settle(m_triggers, hold, fd, {}, open, polled, ready)
    PROVE  UNCHANGED <<m_triggers, fd, open, polled, ready>> /\ held' = hold
<1>1. fd \in [C!Owners -> Nat]
  BY DEF Wired
<1>2. \A o \in C!Owners : fd[o] # 0 => o \in hold \/ \E f \in CaptureFds : m_triggers[f] = o
  BY DEF Wired
<1>3. /\ m_triggers' = m_triggers /\ held' = hold /\ fd' = fd
      /\ open' = open /\ polled' = polled /\ ready' = ready
  BY <1>1, <1>2, SettlesAll
<1> QED BY <1>3

\* Steps that leave the triggers alone, and of transfers at most make some gone.
LEMMA WiredStays ==
    ASSUME Wired, UNCHANGED <<m_triggers, fd, open, polled, ready>>,
           \A t \in C!Transfers : transfers'[t].phase # "gone" =>
               /\ C!ofTransfer(t) \in held => C!ofTransfer(t) \in held'
               /\ \/ transfers'[t].phase = transfers[t].phase
                  \/ {transfers'[t].phase, transfers[t].phase} \subseteq {"attached", "sending"}
    PROVE  Wired'
<1>1. ASSUME NEW t \in C!Transfers, transfers'[t].phase # "gone"
      PROVE  /\ transfers[t].phase # "gone"
             /\ C!ofTransfer(t) \in held'
             /\ transfers'[t].phase = "done" => transfers[t].phase = "done"
             /\ transfers'[t].phase \in {"attached", "sending"} =>
                  transfers[t].phase \in {"attached", "sending"}
  BY <1>1 DEF Wired
<1> QED BY <1>1 DEF Wired

\* The state of a result changes, but nobody listens.
LEMMA NobodyListens ==
    ASSUME Wired, NEW r \in C!Results, C!trigger(C!ofResult(r))
    PROVE  UNCHANGED <<m_triggers, fd, held, open, polled, ready>>
<1> DEFINE o == C!ofResult(r)
<1>1. o \in C!Owners /\ o # C!Nobody /\ \A t : o # C!ofTransfer(t)
  BY OwnersDiffer
<1>2. 0 \notin CaptureFds
  BY OwnersDiffer
<1> HIDE DEF o
<1>3. fd[o] = 0
  <2> SUFFICES ASSUME fd[o] # 0 PROVE FALSE
    OBVIOUS
  <2>1. fd[o] \in CaptureFds /\ m_triggers[fd[o]] = o
    BY <1>1 DEF Wired
  <2> QED BY <1>1, <2>1 DEF Wired
<1>4. fd[o] \notin open
  BY <1>2, <1>3 DEF Wired
<1> QED BY <1>4 DEF C!trigger, o

LEMMA TransferWired ==
    ASSUME CInv, Wired, NEW R, C!create_capture_transfer(R) PROVE Wired'
<1> DEFINE n == C!first(C!fresh_transfers)
           o == C!ofTransfer(n)
           f == C!first(CaptureFds \ open)
           fds == [fd EXCEPT ![o] = f]
           map == [m_triggers EXCEPT ![f] = o]
<1>1. n \in C!fresh_transfers
  <2>1. C!fresh_transfers \subseteq Nat /\ C!fresh_transfers # {}
    BY CaptureConstants DEF C!create_capture_transfer, C!fresh_transfers, C!Transfers
  <2> QED BY <2>1, FirstFree
<1>2. n \in C!Transfers /\ fd[o] = 0 /\ transfers[n].phase = "gone"
  BY <1>1 DEF C!fresh_transfers
<1>3. f \in CaptureFds \ open
  <2>1. CaptureFds \ open \subseteq Nat /\ CaptureFds \ open # {}
    BY OwnersDiffer DEF C!create_capture_transfer, C!add_event_trigger
  <2> QED BY <2>1, FirstFree
<1>4. f # 0 /\ f \in Nat /\ o \in C!Owners /\ o # C!Nobody
      /\ \A t \in C!Transfers : t # n => C!ofTransfer(t) # o
  BY <1>2, <1>3, OwnersDiffer
<1>5. C!settle(map, held \union {o}, fds, {}, open \union {f}, polled \union {f}, ready)
  BY DEF C!create_capture_transfer, C!add_event_trigger
<1>6. transfers' = [transfers EXCEPT ![n] = [phase |-> "attached", results |-> R]]
  BY DEF C!create_capture_transfer
<1>7. transfers \in [C!Transfers -> TransferRecord]
  BY DEF CInv, CTyped
<1>8. transfers'[n].phase = "attached" /\ \A t \in C!Transfers \ {n} : transfers'[t] = transfers[t]
  BY <1>2, <1>6, <1>7
<1>9. /\ fds \in [C!Owners -> Nat] /\ fds[o] = f
      /\ \A x \in C!Owners \ {o} : fds[x] = fd[x]
      /\ map \in [CaptureFds -> C!Owners \union {C!Nobody}] /\ map[f] = o
      /\ \A x \in CaptureFds \ {f} : map[x] = m_triggers[x]
  <2> HIDE DEF o, f
  <2> QED BY <1>3, <1>4 DEF Wired
<1> HIDE DEF n, o, f, fds, map
<1>10. /\ polled \subseteq open /\ ready \subseteq open /\ open \subseteq CaptureFds
       /\ \A x \in C!Owners : fd[x] # 0 => fd[x] \in open /\ m_triggers[fd[x]] = x
       /\ \A x \in CaptureFds : m_triggers[x] # C!Nobody =>
            \E t \in C!Transfers : m_triggers[x] = C!ofTransfer(t) /\ fd[C!ofTransfer(t)] = x
       /\ \A t \in C!Transfers : transfers[t].phase # "gone" =>
            C!ofTransfer(t) \in held /\ fd[C!ofTransfer(t)] \in polled
       /\ \A t \in C!Transfers : transfers[t].phase = "done" => fd[C!ofTransfer(t)] \in ready
       /\ \A t \in C!Transfers : transfers[t].phase \in {"attached", "sending"} =>
            fd[C!ofTransfer(t)] \notin ready
  BY DEF Wired
<1>11. \A x \in C!Owners : fds[x] # 0 => fds[x] \in open \union {f} /\ map[fds[x]] = x
  BY <1>3, <1>9, <1>10
<1>12. /\ m_triggers' = map /\ held' = held \union {o} /\ fd' = fds
       /\ open' = open \union {f} /\ polled' = polled \union {f} /\ ready' = ready
  <2>1. \A x \in C!Owners : fds[x] # 0 =>
          x \in held \union {o} \/ \E y \in CaptureFds : map[y] = x
    BY <1>3, <1>10, <1>11
  <2> QED BY <1>5, <1>9, <2>1, SettlesAll
<1>13. ASSUME NEW x \in CaptureFds, map[x] # C!Nobody
       PROVE  \E t \in C!Transfers : map[x] = C!ofTransfer(t) /\ fds[C!ofTransfer(t)] = x
  <2>1. CASE x = f
    BY <1>2, <1>9, <2>1 DEF o
  <2>2. CASE x # f
    <3>1. PICK t \in C!Transfers : map[x] = C!ofTransfer(t) /\ fd[C!ofTransfer(t)] = x
      BY <1>9, <1>10, <1>13, <2>2
    <3>2. C!ofTransfer(t) \in C!Owners \ {o}
      BY <1>2, <3>1, <2>2, OwnersDiffer
    <3> QED BY <1>9, <3>1, <3>2
  <2> QED BY <2>1, <2>2
<1>14. ASSUME NEW t \in C!Transfers
       PROVE  /\ transfers'[t].phase # "gone" =>
                   C!ofTransfer(t) \in held \union {o} /\ fds[C!ofTransfer(t)] \in polled \union {f}
              /\ transfers'[t].phase = "done" => fds[C!ofTransfer(t)] \in ready
              /\ transfers'[t].phase \in {"attached", "sending"} => fds[C!ofTransfer(t)] \notin ready
  <2>1. CASE t = n
    <3>1. C!ofTransfer(t) = o /\ f \notin ready
      BY <1>3, <1>10, <2>1 DEF o
    <3> QED BY <1>8, <1>9, <2>1, <3>1
  <2>2. CASE t # n
    <3>1. C!ofTransfer(t) \in C!Owners \ {o} /\ transfers'[t] = transfers[t]
      BY <1>4, <1>8, <2>2, OwnersDiffer
    <3>2. fds[C!ofTransfer(t)] = fd[C!ofTransfer(t)]
      BY <1>9, <3>1
    <3> QED BY <1>10, <3>1, <3>2
  <2> QED BY <2>1, <2>2
<1> QED BY <1>3, <1>9, <1>10, <1>11, <1>12, <1>13, <1>14 DEF Wired

\* What garbage_collect() leaves of the transfers.
LEMMA CollectPhases ==
    ASSUME CInv, NEW ts \in [C!Transfers -> TransferRecord],
           \A t \in C!Transfers : ts[t].phase \in {"attached", "sending"} => ts[t] = transfers[t],
           NEW map, NEW P, NEW R, C!garbage_collect(ts, map, P, R)
    PROVE  \E hold :
             /\ C!settle(map, hold, fd, {}, open, P, R)
             /\ \A t \in C!Transfers : ts[t].phase \in {"done", "gone"} => C!ofTransfer(t) \notin hold
             /\ \A t \in C!Transfers : transfers'[t].phase # "gone" =>
                  /\ C!ofTransfer(t) \in held => C!ofTransfer(t) \in hold
                  /\ transfers'[t] = transfers[t] /\ ts[t] = transfers[t]
                  /\ transfers[t].phase \in {"attached", "sending"}
<1> DEFINE over == {t \in C!Transfers : ts[t].phase \in {"done", "gone"}}
           busy == {r \in C!in_trash : \E t \in C!Transfers \ over : r \in ts[t].results}
           gone == {r \in C!in_trash : C!empty(sinks[results[r].parent].id, busy)}
           hold == held \ ({C!ofTransfer(t) : t \in over} \union {C!ofResult(r) : r \in gone})
<1>1. C!settle(map, hold, fd, {}, open, P, R)
  BY DEF C!garbage_collect
<1>2. transfers' = [t \in C!Transfers |-> IF t \in over THEN C!NoTransfer ELSE ts[t]]
  BY DEF C!garbage_collect
<1>3. \A t \in C!Transfers : ts[t].phase \in {"attached", "sending", "done", "gone"}
  BY DEF TransferRecord
<1>4. \A t \in C!Transfers : ts[t].phase \in {"done", "gone"} => C!ofTransfer(t) \notin hold
  OBVIOUS
<1>5. ASSUME NEW t \in C!Transfers, transfers'[t].phase # "gone"
      PROVE  /\ C!ofTransfer(t) \in held => C!ofTransfer(t) \in hold
             /\ transfers'[t] = transfers[t] /\ ts[t] = transfers[t]
             /\ transfers[t].phase \in {"attached", "sending"}
  <2>1. t \notin over /\ transfers'[t] = ts[t]
    BY <1>2, <1>5, CaptureRecords
  <2>2. ts[t].phase \in {"attached", "sending"} /\ ts[t] = transfers[t]
    BY <1>3, <2>1
  <2>3. \A u \in over : C!ofTransfer(u) # C!ofTransfer(t)
    BY <2>1, OwnersDiffer
  <2>4. \A r \in gone : C!ofResult(r) # C!ofTransfer(t)
    BY OwnersDiffer
  <2>5. C!ofTransfer(t) \in held => C!ofTransfer(t) \in hold
    <3> HIDE DEF over, gone
    <3> QED BY <2>3, <2>4
  <2> QED BY <2>1, <2>2, <2>5
<1> HIDE DEF hold, over
<1> QED BY <1>1, <1>4, <1>5 DEF over

LEMMA DeleteTransferWired ==
    ASSUME CInv, Wired, NEW t \in C!Transfers, C!delete_capture_transfer(t) PROVE Wired'
<1> DEFINE ts == [transfers EXCEPT ![t] = C!NoTransfer]
<1>0. transfers \in [C!Transfers -> TransferRecord]
  BY DEF CInv, CTyped
<1>1. C!garbage_collect(ts, m_triggers, polled, ready)
  BY DEF C!delete_capture_transfer
<1>2. /\ ts \in [C!Transfers -> TransferRecord]
      /\ \A o \in C!Transfers : ts[o].phase \in {"attached", "sending"} => ts[o] = transfers[o]
  BY <1>0, CaptureRecords
<1> HIDE DEF ts
<1>3. PICK hold :
        /\ C!settle(m_triggers, hold, fd, {}, open, polled, ready)
        /\ \A u \in C!Transfers : transfers'[u].phase # "gone" =>
             /\ C!ofTransfer(u) \in held => C!ofTransfer(u) \in hold
             /\ transfers'[u] = transfers[u]
  BY <1>1, <1>2, CollectPhases
<1>4. UNCHANGED <<m_triggers, fd, open, polled, ready>> /\ held' = hold
  BY <1>3, Releases
<1> QED BY <1>3, <1>4, WiredStays

\* The end of a transfer is heard: its trigger, and no other, is destroyed.
LEMMA EventWired ==
    ASSUME CInv, Wired, NEW f \in CaptureFds, f \in ready, NEW u \in C!Transfers,
           m_triggers[f] = C!ofTransfer(u),
           C!garbage_collect(transfers, [m_triggers EXCEPT ![f] = C!Nobody],
                             polled \ {f}, ready \ {f})
    PROVE  Wired'
<1> DEFINE map == [m_triggers EXCEPT ![f] = C!Nobody]
           z == C!ofTransfer(u)
<1>0. /\ transfers \in [C!Transfers -> TransferRecord]
      /\ \A t \in C!Transfers : transfers[t].phase \in {"attached", "sending", "done", "gone"}
  BY DEF CInv, CTyped, TransferRecord
<1>1. PICK hold :
        /\ C!settle(map, hold, fd, {}, open, polled \ {f}, ready \ {f})
        /\ \A t \in C!Transfers :
             transfers[t].phase \in {"done", "gone"} => C!ofTransfer(t) \notin hold
        /\ \A t \in C!Transfers : transfers'[t].phase # "gone" =>
             /\ C!ofTransfer(t) \in held => C!ofTransfer(t) \in hold
             /\ transfers'[t] = transfers[t]
             /\ transfers[t].phase \in {"attached", "sending"}
  BY <1>0, CollectPhases
<1>2. /\ z \in C!Owners /\ z # C!Nobody
      /\ \A t \in C!Transfers : t # u => C!ofTransfer(t) # z
      /\ \A t \in C!Transfers : C!ofTransfer(t) \in C!Owners
      /\ 0 \notin CaptureFds
  BY OwnersDiffer
<1>3. m_triggers[f] = z
  OBVIOUS
<1> HIDE DEF z
<1>4. fd[z] = f
  <2>1. PICK t \in C!Transfers : m_triggers[f] = C!ofTransfer(t) /\ fd[C!ofTransfer(t)] = f
    BY <1>2, <1>3 DEF Wired
  <2> QED BY <1>3, <2>1
<1>5. transfers[u].phase \in {"done", "gone"} /\ z \notin hold
  <2>1. transfers[u].phase \notin {"attached", "sending"}
    BY <1>4 DEF Wired, z
  <2> QED BY <1>0, <1>1, <2>1 DEF z
<1>6. /\ m_triggers \in [CaptureFds -> C!Owners \union {C!Nobody}] /\ fd \in [C!Owners -> Nat]
      /\ \A o \in C!Owners : fd[o] # 0 => fd[o] \in open /\ m_triggers[fd[o]] = o
      /\ \A x \in CaptureFds : m_triggers[x] # C!Nobody =>
           \E t \in C!Transfers : m_triggers[x] = C!ofTransfer(t) /\ fd[C!ofTransfer(t)] = x
      /\ polled \subseteq open /\ ready \subseteq open /\ open \subseteq CaptureFds
      /\ \A t \in C!Transfers : transfers[t].phase # "gone" =>
           C!ofTransfer(t) \in held /\ fd[C!ofTransfer(t)] \in polled
      /\ \A t \in C!Transfers : transfers[t].phase \in {"attached", "sending"} =>
           fd[C!ofTransfer(t)] \notin ready
  BY DEF Wired
<1>7. /\ map \in [CaptureFds -> C!Owners \union {C!Nobody}] /\ map[f] = C!Nobody
      /\ \A x \in CaptureFds \ {f} : map[x] = m_triggers[x]
  BY <1>6
<1> HIDE DEF map
<1>8. \A o \in C!Owners \ {z} : fd[o] # 0 => fd[o] \in open \ {f} /\ map[fd[o]] = o
  BY <1>3, <1>6, <1>7
<1>9. \A x \in CaptureFds : map[x] # z
  BY <1>2, <1>3, <1>4, <1>6, <1>7
<1> DEFINE dead == {o \in C!Owners : /\ fd[o] # 0 /\ o \notin hold
                                     /\ \A x \in CaptureFds : map[x] # o}
           closed == {} \union {fd[o] : o \in dead}
<1>10. dead = {z}
  <2>1. z \in dead
    BY <1>2, <1>4, <1>5, <1>9
  <2>2. \A o \in C!Owners \ {z} : o \notin dead
    BY <1>6, <1>8
  <2> QED BY <2>1, <2>2
<1>11. /\ m_triggers' = map /\ held' = hold
       /\ fd' = [o \in C!Owners |-> IF o \in dead THEN 0 ELSE fd[o]]
       /\ open' = open \ closed /\ polled' = (polled \ {f}) \ closed
       /\ ready' = (ready \ {f}) \ closed
  BY <1>1 DEF C!settle
<1>12. closed = {f}
  BY <1>4, <1>10
<1> HIDE DEF dead, closed
<1>13. /\ fd' \in [C!Owners -> Nat] /\ fd'[z] = 0 /\ \A o \in C!Owners \ {z} : fd'[o] = fd[o]
       /\ open' = open \ {f} /\ polled' = polled \ {f} /\ ready' = ready \ {f}
  BY <1>2, <1>6, <1>10, <1>11, <1>12
<1>14. \A o \in C!Owners : fd'[o] # 0 => fd'[o] \in open' /\ m_triggers'[fd'[o]] = o
  BY <1>8, <1>11, <1>13
<1>15. ASSUME NEW x \in CaptureFds, m_triggers'[x] # C!Nobody
       PROVE  \E t \in C!Transfers : m_triggers'[x] = C!ofTransfer(t) /\ fd'[C!ofTransfer(t)] = x
  <2>1. x # f /\ m_triggers[x] # C!Nobody /\ m_triggers'[x] = m_triggers[x]
    BY <1>7, <1>11, <1>15
  <2>2. PICK t \in C!Transfers : m_triggers[x] = C!ofTransfer(t) /\ fd[C!ofTransfer(t)] = x
    BY <1>6, <2>1
  <2>3. C!ofTransfer(t) # z
    BY <1>9, <1>11, <2>1, <2>2
  <2> QED BY <1>2, <1>13, <2>1, <2>2, <2>3
<1>16. ASSUME NEW t \in C!Transfers, transfers'[t].phase # "gone"
       PROVE  /\ C!ofTransfer(t) \in held' /\ fd'[C!ofTransfer(t)] \in polled'
              /\ transfers'[t].phase # "done" /\ fd'[C!ofTransfer(t)] \notin ready'
  <2>1. /\ transfers'[t] = transfers[t] /\ transfers[t].phase \in {"attached", "sending"}
        /\ C!ofTransfer(t) \in held'
    BY <1>1, <1>6, <1>11, <1>16
  <2>2. C!ofTransfer(t) \in C!Owners \ {z}
    BY <1>2, <1>5, <2>1
  <2>3. fd[C!ofTransfer(t)] \in polled /\ fd[C!ofTransfer(t)] \notin ready
    BY <1>6, <2>1
  <2> QED BY <1>13, <2>1, <2>2, <2>3
<1> QED BY <1>6, <1>7, <1>11, <1>13, <1>14, <1>15, <1>16 DEF Wired

LEMMA DoneWired ==
    ASSUME CInv, Wired, NEW t \in C!Transfers, C!transfer_done(t) PROVE Wired'
<1> DEFINE o == C!ofTransfer(t)
<1>1. /\ transfers[t].phase = "sending" /\ transfers' = [transfers EXCEPT ![t].phase = "done"]
      /\ C!trigger(o)
  BY DEF C!transfer_done
<1>2. /\ transfers'[t].phase = "done" /\ \A u \in C!Transfers \ {t} : transfers'[u] = transfers[u]
  BY <1>1 DEF CInv, CTyped, TransferRecord
<1>3. o \in held /\ fd[o] \in polled /\ fd[o] \in open /\ fd[o] # 0 /\ o \in C!Owners
  BY <1>1, OwnersDiffer DEF Wired
<1>4. /\ ready' = ready \union {fd[o]} /\ UNCHANGED <<m_triggers, fd, held, open, polled>>
  BY <1>1, <1>3 DEF C!trigger
<1>5. ASSUME NEW u \in C!Transfers, u # t, transfers[u].phase # "gone"
      PROVE  fd[C!ofTransfer(u)] # fd[o]
  <2>1. C!ofTransfer(u) \in C!Owners /\ C!ofTransfer(u) # o /\ fd[C!ofTransfer(u)] # 0
    BY <1>5, OwnersDiffer DEF Wired
  <2> HIDE DEF o
  <2> QED BY <1>3, <2>1 DEF Wired
<1>6. ASSUME NEW u \in C!Transfers, u # t
      PROVE  /\ transfers'[u].phase # "gone" => C!ofTransfer(u) \in held /\ fd[C!ofTransfer(u)] \in polled
             /\ transfers'[u].phase = "done" => fd[C!ofTransfer(u)] \in ready'
             /\ transfers'[u].phase \in {"attached", "sending"} => fd[C!ofTransfer(u)] \notin ready'
  BY <1>2, <1>4, <1>5, <1>6 DEF Wired
<1>7. /\ fd \in [C!Owners -> Nat] /\ m_triggers \in [CaptureFds -> C!Owners \union {C!Nobody}]
      /\ polled \subseteq open /\ ready \subseteq open /\ open \subseteq CaptureFds
      /\ \A x \in C!Owners : fd[x] # 0 => fd[x] \in open /\ m_triggers[fd[x]] = x
      /\ \A f \in CaptureFds : m_triggers[f] # C!Nobody =>
           \E u \in C!Transfers : m_triggers[f] = C!ofTransfer(u) /\ fd[C!ofTransfer(u)] = f
  BY DEF Wired
<1>8. \A u \in C!Transfers :
        /\ transfers'[u].phase # "gone" => C!ofTransfer(u) \in held /\ fd[C!ofTransfer(u)] \in polled
        /\ transfers'[u].phase = "done" => fd[C!ofTransfer(u)] \in ready'
        /\ transfers'[u].phase \in {"attached", "sending"} => fd[C!ofTransfer(u)] \notin ready'
  <2> TAKE u \in C!Transfers
  <2>1. CASE u = t
    BY <1>2, <1>3, <1>4, <2>1
  <2>2. CASE u # t
    BY <1>6, <2>2
  <2> QED BY <2>1, <2>2
<1> HIDE DEF o
<1> QED BY <1>3, <1>4, <1>7, <1>8 DEF Wired

LEMMA WiredNext == ASSUME CInv, ~conf.duration, Wired, [C!Next]_(C!vars) PROVE Wired'
<1>0. transfers \in [C!Transfers -> TransferRecord]
  BY DEF CInv, CTyped
<1>1. ASSUME UNCHANGED <<m_triggers, fd, held, open, polled, ready, transfers>> PROVE Wired'
  BY <1>1, WiredStays
<1>2. ASSUME NEW r \in C!Results, transfers' = transfers,
             \/ C!trigger(C!ofResult(r))
             \/ UNCHANGED <<m_triggers, fd, held, open, polled, ready>>
      PROVE  Wired'
  BY <1>1, <1>2, NobodyListens
<1>3. ASSUME NEW D, NEW lost, C!delete(D, lost) \/ C!delete_results(D) PROVE Wired'
  <2>1. PICK gone : C!release({C!ofResult(r) : r \in gone}) /\ transfers' = transfers
    BY <1>3 DEF C!delete, C!delete_results, C!dispose
  <2>2. /\ UNCHANGED <<m_triggers, fd, open, polled, ready>>
        /\ held' = held \ {C!ofResult(r) : r \in gone}
    BY <2>1, Releases DEF C!release
  <2>3. \A t \in C!Transfers : C!ofTransfer(t) \in held => C!ofTransfer(t) \in held'
    BY <2>2, OwnersDiffer
  <2> QED BY <2>1, <2>2, <2>3, WiredStays
<1>4. CASE C!stop_end
  <2>1. stopping.result \in C!Results /\ transfers' = transfers
    BY <1>4 DEF CInv, CTyped, C!stop_end
  <2>2. \/ C!trigger(C!ofResult(stopping.result))
        \/ UNCHANGED <<m_triggers, fd, held, open, polled, ready>>
    BY <1>4 DEF C!stop_end, C!set_state, C!evars
  <2> QED BY <1>2, <2>1, <2>2
<1>5. ASSUME NEW w \in CaptureWorkers, C!push_begin(w) \/ C!Push(w) PROVE Wired'
  <2>1. CASE C!push_exchange(w)
    <3>1. push[w].result \in C!Results /\ transfers' = transfers
      BY <2>1 DEF CInv, CTyped, C!push_exchange
    <3>2. \/ C!trigger(C!ofResult(push[w].result))
          \/ UNCHANGED <<m_triggers, fd, held, open, polled, ready>>
      BY <2>1 DEF C!push_exchange, C!set_state, C!evars
    <3> QED BY <1>2, <3>1, <3>2
  <2>2. CASE C!push_begin(w) \/ C!push_state(w) \/ C!push_load(w) \/ C!push_write(w)
             \/ C!push_count(w)
    BY <1>1, <2>2 DEF C!push_begin, C!push_state, C!push_load, C!push_write, C!push_count, C!evars
  <2> QED BY <1>5, <2>1, <2>2 DEF C!Push
<1>6. CASE UNCHANGED C!vars
  BY <1>1, <1>6 DEF C!vars, C!evars
<1>7. CASE C!Requests
  <2>1. CASE C!read_only
    BY <1>6, <2>1 DEF C!read_only
  <2>2. ASSUME NEW c, C!create_capture(c) PROVE Wired'
    BY <1>1, <2>2 DEF C!create_capture, C!evars
  <2>3. ASSUME NEW s, C!start_capture(s) \/ C!stop_capture(s) PROVE Wired'
    BY <1>1, <2>3 DEF C!start_capture, C!stop_capture, C!evars
  <2>4. ASSUME NEW R, C!create_capture_transfer(R) PROVE Wired'
    BY <2>4, TransferWired
  <2>5. ASSUME NEW s, C!delete_capture(s) \/ C!delete_captures PROVE Wired'
    BY <1>3, <2>5, Deletions
  <2> QED BY <1>3, <1>7, <2>1, <2>2, <2>3, <2>4, <2>5 DEF C!Requests
<1>8. ASSUME NEW t \in C!Transfers, C!delete_capture_transfer(t) PROVE Wired'
  BY <1>8, DeleteTransferWired
<1>9. ASSUME NEW f \in CaptureFds, C!handle_event_trigger(f) PROVE Wired'
  <2>0. f \in polled /\ f \in ready
    BY <1>9 DEF C!handle_event_trigger
  <2>1. CASE /\ m_triggers[f] = C!Nobody
             /\ polled' = polled \ {f} /\ ready' = ready \ {f}
             /\ UNCHANGED <<transfers, m_triggers, fd, held, open>>
    <3>1. ASSUME NEW t \in C!Transfers, transfers[t].phase # "gone"
          PROVE  fd[C!ofTransfer(t)] # f
      <4>1. C!ofTransfer(t) \in C!Owners /\ C!ofTransfer(t) # C!Nobody
        BY OwnersDiffer
      <4>2. fd[C!ofTransfer(t)] \in CaptureFds
        BY <3>1 DEF Wired
      <4>3. fd[C!ofTransfer(t)] # 0
        BY <4>2, OwnersDiffer
      <4> QED BY <2>1, <4>1, <4>3 DEF Wired
    <3> QED BY <2>1, <3>1 DEF Wired
  <2>2. ASSUME NEW r \in C!Results, m_triggers[f] = C!ofResult(r) PROVE FALSE
    <3>1. C!ofResult(r) # C!Nobody /\ \A t : C!ofResult(r) # C!ofTransfer(t)
      BY OwnersDiffer
    <3> QED BY <2>2, <3>1 DEF Wired
  <2>3. ASSUME NEW t \in C!Transfers, m_triggers[f] = C!ofTransfer(t),
               C!garbage_collect(transfers, [m_triggers EXCEPT ![f] = C!Nobody],
                                 polled \ {f}, ready \ {f})
        PROVE  Wired'
    BY <2>0, <2>3, EventWired
  <2> QED BY <1>9, <2>1, <2>2, <2>3 DEF C!handle_event_trigger
<1>10. ASSUME NEW r \in C!Results, C!handle_capture_stop_timer(r) PROVE Wired'
  BY <1>1, <1>10 DEF C!handle_capture_stop_timer, C!evars
<1>11. ASSUME NEW t \in C!Transfers, C!transfer_start(t) PROVE Wired'
  <2>1. /\ UNCHANGED <<m_triggers, fd, held, open, polled, ready>>
        /\ transfers[t].phase = "attached"
        /\ transfers' = [transfers EXCEPT ![t].phase = "sending"]
    BY <1>11 DEF C!transfer_start, C!evars
  <2>2. \A u \in C!Transfers :
          \/ transfers'[u].phase = transfers[u].phase
          \/ {transfers'[u].phase, transfers[u].phase} \subseteq {"attached", "sending"}
    BY <1>0, <2>1 DEF TransferRecord
  <2> QED BY <2>1, <2>2, WiredStays
<1>12. ASSUME NEW t \in C!Transfers, C!transfer_done(t) PROVE Wired'
  BY <1>12, DoneWired
<1>13. CASE C!Server
  BY <1>4, <1>7, <1>8, <1>9, <1>10, <1>13 DEF C!Server
<1> QED BY <1>5, <1>6, <1>11, <1>12, <1>13 DEF C!Next

LEMMA RememberedNext == ASSUME CInv, Remembered, [C!Next]_(C!vars) PROVE Remembered'
<1>0. /\ results \in [C!Results -> ResultRecord] /\ sinks \in [C!Sinks -> SinkRecord]
      /\ transfers \in [C!Transfers -> TransferRecord]
      /\ \A t \in C!Transfers : transfers[t].phase = "gone" => transfers[t].results = {}
      /\ \A r \in C!Results : results[r].where = "trash" => results[r].parent \in C!Sinks
  BY DEF CInv, CTyped, Remembered
<1>1. ASSUME transfers' = transfers,
             \A r \in C!Results :
               /\ results'[r].where = "trash" <=> results[r].where = "trash"
               /\ results[r].where = "trash" => results'[r].parent = results[r].parent,
             \A s \in C!Sinks : sinks'[s].id = sinks[s].id
      PROVE  Remembered'
  <2>1. TrashLeft
    BY <1>0, <1>1 DEF TrashLeft
  <2> QED BY <2>1, LeftRemembered
<1>3. ASSUME UNCHANGED <<sinks, transfers>>, NEW r \in C!Results, NEW b,
             \/ results' = results
             \/ results' = [results EXCEPT ![r].timer = b]
             \/ results' = [results EXCEPT ![r].state = b]
      PROVE  Remembered'
  <2>1. \A o \in C!Results : results'[o].where = results[o].where
                             /\ results'[o].parent = results[o].parent
    BY <1>0, <1>3 DEF ResultRecord
  <2> QED BY <1>1, <1>3, <2>1
<1>4. CASE C!stop_end
  <2>1. /\ stopping.sink \in C!Sinks /\ stopping.result \in C!Results
        /\ sinks' = [sinks EXCEPT ![stopping.sink].m_results = C!Null]
        /\ transfers' = transfers
        /\ results' = results \/ results' = [results EXCEPT ![stopping.result].state = "STOPPED"]
    BY <1>4 DEF CInv, CTyped, StopRecord, C!stop_end, C!set_state
  <2>2. \A o \in C!Results : results'[o].where = results[o].where
                             /\ results'[o].parent = results[o].parent
    BY <1>0, <2>1 DEF ResultRecord
  <2>3. \A s \in C!Sinks : sinks'[s].id = sinks[s].id
    BY <1>0, <2>1 DEF SinkRecord
  <2> QED BY <1>1, <2>1, <2>2, <2>3
<1>5. ASSUME NEW w \in CaptureWorkers, C!push_begin(w) \/ C!Push(w) PROVE Remembered'
  <2>1. Harmless
    BY <1>5, PushGoes
  <2> QED BY <1>1, <2>1 DEF Harmless
<1>6. ASSUME UNCHANGED <<sinks, results, transfers>> PROVE Remembered'
  BY <1>1, <1>6
<1>7. ASSUME stopping = C!NotStopping, C!Requests PROVE Remembered'
  <2>1. CASE C!read_only
    BY <1>6, <2>1 DEF C!read_only, C!vars
  <2>2. ASSUME NEW c \in CaptureIds, C!create_capture(c) PROVE Remembered'
    <3> DEFINE n == C!first(C!fresh_sinks)
    <3>1. n \in C!fresh_sinks
      <4>1. C!fresh_sinks \subseteq Nat /\ C!fresh_sinks # {}
        BY <2>2, CaptureConstants DEF C!create_capture, C!fresh_sinks, C!Sinks
      <4> QED BY <4>1, FirstFree
    <3>2. \A r \in C!Results : results[r].where = "trash" => results[r].parent # n
      BY <3>1 DEF C!fresh_sinks, C!in_trash
    <3>3. /\ \A s \in C!Sinks : s # n => sinks'[s] = sinks[s]
          /\ UNCHANGED <<results, transfers>>
      BY <1>0, <2>2 DEF C!create_capture
    <3> HIDE DEF n
    <3>4. TrashLeft
      BY <1>0, <3>2, <3>3 DEF TrashLeft
    <3> QED BY <3>4, LeftRemembered
  <2>3. ASSUME NEW s \in C!Sinks, C!start_capture(s) PROVE Remembered'
    <3> DEFINE n == C!first(C!fresh_results)
               state == IF conf.start_trigger THEN "ARMED" ELSE "RUNNING"
               r0 == [C!NoResult EXCEPT !.parent = s, !.where = "listed", !.state = state]
    <3>1. n \in C!fresh_results
      <4>1. C!fresh_results \subseteq Nat /\ C!fresh_results # {}
        BY <2>3, CaptureConstants DEF C!start_capture, C!fresh_results, C!Results
      <4> QED BY <4>1, FirstFree
    <3>2. n \in C!Results /\ results[n].where = "freed" /\ r0.where = "listed"
      BY <3>1 DEF C!fresh_results, C!NoResult
    <3>3. /\ results' = [results EXCEPT ![n] = r0] /\ sinks' = [sinks EXCEPT ![s].m_results = n]
          /\ transfers' = transfers
      BY <2>3 DEF C!start_capture
    <3> HIDE DEF n, r0
    <3>4. \A x \in C!Sinks : sinks'[x].id = sinks[x].id
      BY <1>0, <3>3 DEF SinkRecord
    <3>5. \A r \in C!Results :
            /\ results'[r].where = "trash" <=> results[r].where = "trash"
            /\ results[r].where = "trash" => results'[r].parent = results[r].parent
      BY <1>0, <3>2, <3>3
    <3> QED BY <1>1, <3>3, <3>4, <3>5
  <2>4. ASSUME NEW s \in C!Sinks, C!stop_capture(s) PROVE Remembered'
    <3>1. /\ UNCHANGED <<sinks, transfers>> /\ sinks[s].m_results \in C!Results
          /\ results' = [results EXCEPT ![sinks[s].m_results].timer = FALSE]
      BY <1>0, <2>4 DEF C!stop_capture, SinkRecord
    <3> QED BY <1>3, <3>1
  <2>5. ASSUME NEW D, NEW lost \in SUBSET C!listed, C!delete(D, lost) \/ C!delete_results(D)
        PROVE  Remembered'
    BY <1>7, <2>5, DeleteRemembered
  <2>6. ASSUME NEW R, C!create_capture_transfer(R) PROVE Remembered'
    <3> DEFINE n == C!first(C!fresh_transfers)
               x == [phase |-> "attached", results |-> R]
    <3>1. n \in C!fresh_transfers
      <4>1. C!fresh_transfers \subseteq Nat /\ C!fresh_transfers # {}
        BY <2>6, CaptureConstants DEF C!create_capture_transfer, C!fresh_transfers, C!Transfers
      <4> QED BY <4>1, FirstFree
    <3>2. n \in C!Transfers /\ transfers[n].results = {} /\ x.phase # "gone"
      BY <1>0, <3>1 DEF C!fresh_transfers
    <3>3. transfers' = [transfers EXCEPT ![n] = x] /\ UNCHANGED <<sinks, results>>
      BY <2>6 DEF C!create_capture_transfer
    <3> HIDE DEF n, x
    <3>4. TrashLeft
      BY <1>0, <3>2, <3>3 DEF TrashLeft
    <3> QED BY <3>4, LeftRemembered
  <2>7. ASSUME NEW s, C!delete_capture(s) \/ C!delete_captures PROVE Remembered'
    BY <2>5, <2>7, Deletions
  <2> QED BY <1>7, <2>1, <2>2, <2>3, <2>4, <2>5, <2>6, <2>7 DEF C!Requests
<1>8. ASSUME stopping = C!NotStopping, NEW t \in C!Transfers, C!delete_capture_transfer(t)
      PROVE  Remembered'
  <2> DEFINE ts == [transfers EXCEPT ![t] = C!NoTransfer]
  <2>1. /\ C!garbage_collect(ts, m_triggers, polled, ready) /\ UNCHANGED <<conf, stopping, push>>
    BY <1>8 DEF C!delete_capture_transfer
  <2>2. /\ ts \in [C!Transfers -> TransferRecord]
        /\ \A o \in C!Transfers : ts[o].phase \in {"attached", "sending"} => ts[o] = transfers[o]
    BY <1>0, CaptureRecords
  <2> HIDE DEF ts
  <2> QED BY <1>8, <2>1, <2>2, CollectRemembered
<1>9. ASSUME stopping = C!NotStopping, NEW f \in CaptureFds, C!handle_event_trigger(f)
      PROVE  Remembered'
  <2>0. UNCHANGED <<conf, stopping, push>>
    BY <1>9 DEF C!handle_event_trigger
  <2>1. CASE UNCHANGED <<sinks, results, transfers>>
    BY <1>6, <2>1
  <2>2. ASSUME NEW r \in C!Results, C!state_changed(r, f) PROVE Remembered'
    <3>1. /\ UNCHANGED <<sinks, transfers>>
          /\ \/ results' = results
             \/ results' = [results EXCEPT ![r].timer = TRUE]
             \/ results' = [results EXCEPT ![r].timer = FALSE]
      BY <2>2 DEF C!state_changed
    <3> QED BY <1>3, <3>1
  <2>3. ASSUME NEW map, NEW P, NEW R, C!garbage_collect(transfers, map, P, R) PROVE Remembered'
    BY <1>0, <1>9, <2>0, <2>3, CollectRemembered
  <2> QED BY <1>9, <2>1, <2>2, <2>3 DEF C!handle_event_trigger
<1>10. ASSUME NEW r \in C!Results, C!handle_capture_stop_timer(r) PROVE Remembered'
  BY <1>3, <1>10 DEF C!handle_capture_stop_timer
<1>11. ASSUME NEW t \in C!Transfers, C!transfer_start(t) \/ C!transfer_done(t) PROVE Remembered'
  <2>1. PICK p \in {"sending", "done"} : transfers' = [transfers EXCEPT ![t].phase = p]
    BY <1>11 DEF C!transfer_start, C!transfer_done
  <2>2. UNCHANGED <<sinks, results>>
    BY <1>11 DEF C!transfer_start, C!transfer_done
  <2>3. \A u \in C!Transfers : /\ transfers'[u].results = transfers[u].results
                               /\ transfers'[u].phase = "gone" => transfers[u].phase = "gone"
    BY <1>0, <2>1 DEF TransferRecord
  <2>4. TrashLeft
    BY <1>0, <2>2, <2>3 DEF TrashLeft
  <2> QED BY <2>4, LeftRemembered
<1>12. CASE C!Server
  BY <1>4, <1>7, <1>8, <1>9, <1>10, <1>12 DEF C!Server
<1>13. CASE UNCHANGED C!vars
  BY <1>6, <1>13 DEF C!vars
<1> QED BY <1>5, <1>11, <1>12, <1>13 DEF C!Next

LEMMA ConfStays == [C!Next]_(C!vars) => conf' = conf
<1> SUFFICES ASSUME [C!Next]_(C!vars) PROVE conf' = conf
  OBVIOUS
<1>1. CASE C!Server
  BY <1>1 DEF C!Server, C!Requests, C!read_only, C!vars, C!create_capture, C!start_capture,
     C!stop_capture, C!stop_end, C!delete_capture, C!delete_captures, C!delete, C!delete_results,
     C!create_capture_transfer, C!delete_capture_transfer, C!handle_event_trigger,
     C!handle_capture_stop_timer
<1>2. ASSUME NEW w \in CaptureWorkers, C!push_begin(w) \/ C!Push(w) PROVE conf' = conf
  BY <1>2 DEF C!push_begin, C!Push, C!push_state, C!push_load, C!push_exchange, C!push_write,
     C!push_count
<1>3. ASSUME NEW t \in C!Transfers, C!transfer_start(t) \/ C!transfer_done(t)
      PROVE  conf' = conf
  BY <1>3 DEF C!transfer_start, C!transfer_done
<1>4. CASE UNCHANGED C!vars
  BY <1>4 DEF C!vars
<1> QED BY <1>1, <1>2, <1>3, <1>4 DEF C!Next

LEMMA TrashInit == C!Init => WInv
<1> SUFFICES ASSUME C!Init PROVE WInv
  OBVIOUS
<1>1. /\ results = [r \in C!Results |-> C!NoResult]
      /\ transfers = [t \in C!Transfers |-> C!NoTransfer]
      /\ m_triggers = [f \in CaptureFds |-> C!Nobody] /\ fd = [o \in C!Owners |-> 0]
      /\ open = {} /\ polled = {} /\ ready = {}
  BY DEF C!Init
<1>2. C!NoTransfer.results = {}
  BY DEF C!NoTransfer
<1>3. Remembered
  BY <1>1, <1>2, CaptureRecords DEF Remembered
<1>4. Wired
  BY <1>1, CaptureRecords DEF Wired
<1> QED BY <1>3, <1>4 DEF WInv

LEMMA TrashNext == CInv /\ WInv /\ [C!Next]_(C!vars) => WInv'
  BY ConfStays, WiredNext, RememberedNext DEF WInv

LEMMA TrashMeans == CInv /\ WInv => C!TrashWatched
<1> SUFFICES ASSUME CInv, WInv, ~conf.duration, NEW r \in C!in_trash
             PROVE  \E t \in C!Transfers : \E q \in transfers[t].results :
                      /\ sinks[results[q].parent].id = sinks[results[r].parent].id
                      /\ transfers[t].phase = "done" =>
                           fd[C!ofTransfer(t)] \in polled \cap ready
  BY DEF C!TrashWatched
<1>1. PICK t \in C!Transfers : \E q \in transfers[t].results :
        sinks[results[q].parent].id = sinks[results[r].parent].id
  BY DEF WInv, Remembered, C!in_trash
<1>2. transfers[t].phase = "done" => fd[C!ofTransfer(t)] \in polled \cap ready
  BY DEF WInv, Wired
<1> QED BY <1>1, <1>2

\* capture/server.cpp and sink.cpp: whatever requests, workers, events, timers and the
\* threads of transfers do in between, a result that a transfer still reads is never
\* freed; what was deleted meanwhile stays with a transfer whose end the server will hear
\* of; and the workers of a capture write no more than packet_count packets together.
THEOREM CapturesSound == C!Spec => []CapturesKept
<1>1. C!Init => PInv /\ WInv
  BY PacketsInit, TrashInit
<1>2. CInv /\ PInv /\ WInv /\ [C!Next]_(C!vars) => PInv' /\ WInv'
  BY PacketsNext, TrashNext
<1>3. CInv /\ PInv /\ WInv => CapturesKept
  BY PacketsMean, TrashMeans DEF CapturesKept, CInv
<1> QED BY <1>1, <1>2, <1>3, CapturesInductive, PTL DEF C!Spec
=============================================================================
