-------------------------- MODULE PortReceiveProofs --------------------------
(***************************************************************************)
(* Proofs about what a port receives: its filters and the dispatch.        *)
(***************************************************************************)
EXTENDS MCPortReceive, SequenceTheorems, FiniteSetTheorems,
        WellFoundedInduction, TLAPS

-----------------------------------------------------------------------------
(* The filter of addresses, for every set of them and every device, failing *)
(* or not.  What makes it inductive is MacsCovered: while the filter works, *)
(* each interface's address is in the device or among the overflowed ones.  *)

\* The types the proofs need; the device's room plays no part in them.
MacTypes ==
    /\ m_state \in {"ok", "overflow", "disabled", "error"}
    /\ promiscuous \in BOOLEAN

\* No address of an interface is forgotten by a working filter.
MacsCovered == m_state # "error" => macs \subseteq device \cup m_overflowed

\* The inductive invariant.
MacInv == MacTypes /\ StateMeans /\ MacsCovered

\* What one event leaves behind: the invariant, and every interface served if
\* the filter worked before.
MacKept == MacInv' /\ (m_state # "error" => Received')

-----------------------------------------------------------------------------

\* An invariant state of a working filter serves every interface.
LEMMA MacsServed == ASSUME MacInv, m_state # "error" PROVE Received
BY DEF MacInv, MacTypes, StateMeans, MacsCovered, Received

\* An interface is added.
LEMMA MacAddKeeps == ASSUME MacInv, NEW mac \in Macs, add_interface(mac) PROVE MacKept
<1> USE DEF MacInv, MacTypes, StateMeans, MacsCovered, Received, MacKept
<1>1. CASE add_ok(mac)
  <2>1. CASE m_overflowed' = m_overflowed \cup {mac} /\ promiscuous' = TRUE /\ m_state' = "overflow"
    BY <1>1, <2>1 DEF add_interface, add_ok
  <2>2. CASE add_error
    BY <1>1, <2>2 DEF add_interface, add_ok, add_error
  <2>3. CASE device' = device \cup {mac} /\ UNCHANGED <<m_state, m_overflowed, promiscuous>>
    BY <1>1, <2>3 DEF add_interface, add_ok
  <2> QED BY <1>1, <2>1, <2>2, <2>3 DEF add_ok
<1>2. CASE add_overflow(mac)
  BY <1>2 DEF add_interface, add_overflow
<1>3. CASE add_disabled(mac)
  BY <1>3 DEF add_interface, add_disabled, add_error
<1>4. CASE ignored({"ok", "overflow", "disabled"})
  BY <1>4 DEF add_interface, ignored
<1> QED BY <1>1, <1>2, <1>3, <1>4 DEF add_interface

\* An interface is deleted.
LEMMA MacDelKeeps == ASSUME MacInv, NEW mac \in Macs, del_interface(mac) PROVE MacKept
<1> USE DEF MacInv, MacTypes, StateMeans, MacsCovered, Received, MacKept
<1>1. CASE del_ok(mac)
  BY <1>1 DEF del_interface, del_ok, del_error
<1>2. CASE del_overflow(mac)
  BY <1>2 DEF del_interface, del_overflow, del_error, maybe_delete_mac, add_error
<1>3. CASE del_disabled(mac)
  BY <1>3 DEF del_interface, del_disabled, del_error, maybe_delete_mac, add_error
<1>4. CASE ignored({"ok", "overflow", "disabled"})
  BY <1>4 DEF del_interface, ignored
<1> QED BY <1>1, <1>2, <1>3, <1>4 DEF del_interface

\* The sinks of the port come or go.
LEMMA MacSinksKeep == ASSUME MacInv, disable \/ enable PROVE MacKept
<1> USE DEF MacInv, MacTypes, StateMeans, MacsCovered, Received, MacKept
<1>1. CASE disable /\ disable_ok
  BY <1>1 DEF disable, disable_ok
<1>2. CASE disable /\ ignored({"ok"})
  BY <1>2 DEF disable, ignored
<1>3. CASE enable /\ enable_disabled
  BY <1>3 DEF enable, enable_disabled
<1>4. CASE enable /\ ignored({"disabled"})
  BY <1>4 DEF enable, ignored
<1> QED BY <1>1, <1>2, <1>3, <1>4 DEF disable, enable

\* A step of the specification keeps the invariant and serves the interfaces.
LEMMA MacStepKeeps == ASSUME MacInv, [Next]_vars PROVE MacKept
<1>1. CASE UNCHANGED vars
  <2>1. MacInv'
    BY <1>1 DEF vars, MacInv, MacTypes, StateMeans, MacsCovered
  <2> QED BY <1>1, <2>1, MacsServed DEF MacKept, Received, vars
<1>2. CASE Next
  BY <1>2, MacAddKeeps, MacDelKeeps, MacSinksKeep DEF Next
<1> QED BY <1>1, <1>2

-----------------------------------------------------------------------------

\* MacInv holds in every reachable state.
THEOREM MacInductive == Spec => []MacInv
<1>1. Init => MacInv
  BY DEF Init, MacInv, MacTypes, StateMeans, MacsCovered
<1>2. MacInv /\ [Next]_vars => MacInv'
  BY MacStepKeeps DEF MacKept
<1> QED BY <1>1, <1>2, PTL DEF Spec

\* The states of filter.hpp mean what they say, and the asserts of the overflow
\* state (m_overflowed is not empty) hold.
THEOREM StatesMean == Spec => []StateMeans
<1>1. MacInv => StateMeans
  BY DEF MacInv
<1> QED BY <1>1, MacInductive, PTL

\* Every step of a working filter, the one that fails included, leaves every
\* interface receiving its packets.
THEOREM KeepsAdmitting == Spec => Admits
<1>1. MacInv /\ [Next]_vars => [m_state # "error" => Received']_vars
  BY MacStepKeeps DEF MacKept
<1> QED BY <1>1, MacInductive, PTL DEF Spec, Admits

-----------------------------------------------------------------------------
(* Sequences.                                                              *)

\* A set of numbers has a least one: the form in which the provers can use
\* induction.
LEMMA LeastNumber ==
    ASSUME NEW T, T \subseteq Nat, T # {}
    PROVE  \E x \in T : \A y \in T : x <= y
<1>1. PICK x \in T : \A y \in T : <<y, x>> \notin OpToRel(<, Nat)
  BY NatLessThanWellFounded, WFMin, Zenon
<1>2. \A y \in T : ~(y < x)
  BY <1>1 DEF OpToRel
<1> QED BY <1>2

\* One step of the recursion of Only.
KeptStep(f, s, S, n) ==
    IF n = 0 THEN <<>> ELSE IF s[n] \in S THEN Append(f[n - 1], s[n]) ELSE f[n - 1]

\* The function that Only defines satisfies its equation.
LEMMA KeptDefined ==
    ASSUME NEW s, NEW S, NEW L \in Nat
    PROVE  \E f : f = [n \in 0..L |-> KeptStep(f, s, S, n)]
<1> DEFINE good(f, m) == f = [n \in 0..m |-> KeptStep(f, s, S, n)]
           bad == {m \in Nat : ~ \E f : good(f, m)}
<1> SUFFICES ASSUME bad # {} PROVE FALSE
  BY DEF KeptStep
<1>1. PICK m \in bad : \A y \in bad : m <= y
  BY LeastNumber
<1>2. CASE m = 0
  <2> DEFINE f == [n \in 0..0 |-> <<>>]
  <2>1. \A n \in 0..0 : n = 0
    OBVIOUS
  <2>2. good(f, 0)
    BY <2>1 DEF KeptStep
  <2> QED BY <1>2, <2>2
<1>3. CASE m # 0
  <2>1. m - 1 \in Nat /\ m - 1 \notin bad
    BY <1>1, <1>3
  <2>2. PICK f : good(f, m - 1)
    BY <2>1
  <2> DEFINE g == [n \in 0..m |-> IF n = m THEN KeptStep(f, s, S, m) ELSE f[n]]
  <2>3. \A n \in 0..m : g[n] = KeptStep(g, s, S, n)
    <3> TAKE n \in 0..m
    <3>1. CASE n = m
      <4>1. g[m - 1] = f[m - 1]
        BY <1>3
      <4> QED BY <3>1, <4>1, <1>3 DEF KeptStep
    <3>2. CASE n # m
      <4>1. n \in 0..(m - 1) /\ g[n] = f[n]
        BY <3>2
      <4>2. f[n] = KeptStep(f, s, S, n)
        BY <2>2, <4>1
      <4>3. CASE n = 0
        BY <4>1, <4>2, <4>3 DEF KeptStep
      <4>4. CASE n # 0
        <5>1. g[n - 1] = f[n - 1]
          BY <3>2, <4>4
        <5> QED BY <4>1, <4>2, <4>4, <5>1 DEF KeptStep
      <4> QED BY <4>3, <4>4
    <3> QED BY <3>1, <3>2
  <2>4. good(g, m)
    BY <2>3
  <2> QED BY <2>4
<1> QED BY <1>2, <1>3

\* h gives the places that o keeps of the first n places of s.
Places(h, o, s, n, S) ==
    /\ h \in [1..Len(o) -> 1..n]
    /\ \A k \in 1..Len(o) : o[k] = s[h[k]] /\ s[h[k]] \in S
    /\ \A j, k \in 1..Len(o) : j < k => h[j] < h[k]
    /\ \A i \in 1..n : s[i] \in S => \E k \in 1..Len(o) : h[k] = i

\* Only keeps what is in the set, in its order.
LEMMA OnlyPlaces ==
    ASSUME NEW X, NEW s \in Seq(X), NEW S
    PROVE  D!Only(s, S) \in Seq(X) /\ \E h : Places(h, D!Only(s, S), s, Len(s), S)
<1> DEFINE L == Len(s)
           kept == CHOOSE f : f = [n \in 0..L |-> KeptStep(f, s, S, n)]
           places(h, n) == Places(h, kept[n], s, n, S)
           good(n) == kept[n] \in Seq(X) /\ \E h : places(h, n)
           bad == {n \in 0..L : ~good(n)}
<1>1. L \in Nat
  BY LenProperties
<1>2. kept = [n \in 0..L |-> KeptStep(kept, s, S, n)]
  BY <1>1, KeptDefined
<1>3. D!Only(s, S) = kept[L]
  BY DEF D!Only, KeptStep
<1> HIDE DEF kept
<1>4. \A n \in 0..L : kept[n] = KeptStep(kept, s, S, n)
  BY <1>2
<1> SUFFICES ASSUME bad # {} PROVE FALSE
  <2>1. good(L)
    BY <1>1
  <2> QED BY <2>1, <1>3
<1>5. PICK n \in bad : \A y \in bad : n <= y
  <2>1. bad \subseteq Nat
    BY <1>1
  <2> QED BY <2>1, LeastNumber
<1>6. n \in 0..L /\ ~good(n)
  OBVIOUS
<1>9. \A y \in 0..L : ~good(y) => n <= y
  BY <1>5
<1> HIDE DEF bad
<1>7. CASE n = 0
  <2>1. kept[n] = <<>>
    BY <1>4, <1>6, <1>7 DEF KeptStep
  <2>2. places(<<>>, n)
    BY <2>1, <1>7, EmptySeq DEF Places
  <2>3. kept[n] \in Seq(X)
    BY <2>1, EmptySeq
  <2>4. good(n)
    BY <2>2, <2>3
  <2> QED BY <2>4, <1>6
<1>8. CASE n # 0
  <2>1. n - 1 \in 0..L /\ n \in 1..L /\ ~(n <= n - 1)
    BY <1>1, <1>6, <1>8
  <2> HIDE DEF good
  <2>2. good(n - 1)
    BY <1>9, <2>1
  <2> USE DEF good
  <2>3. PICK h : places(h, n - 1)
    BY <2>2
  <2>4. kept[n - 1] \in Seq(X) /\ s[n] \in X
    BY <2>1, <2>2, ElementOfSeq
  <2> DEFINE K == kept[n - 1]
  <2>10. PICK l \in Nat : l = Len(K)
    BY <2>4, LenProperties
  <2>5. CASE s[n] \in S
    <3>1. kept[n] = Append(K, s[n])
      BY <1>4, <1>6, <1>8, <2>5 DEF KeptStep
    <3>2. /\ kept[n] \in Seq(X) /\ Len(kept[n]) = l + 1
          /\ \A k \in 1..l : kept[n][k] = K[k]
          /\ kept[n][l + 1] = s[n]
      BY <3>1, <2>4, <2>10, AppendProperties
    <3> DEFINE g == [k \in 1..(l + 1) |-> IF k = l + 1 THEN n ELSE h[k]]
    <3>3. h \in [1..l -> 1..(n - 1)]
      BY <2>3, <2>10 DEF Places
    <3>12. /\ \A k \in 1..l : K[k] = s[h[k]] /\ s[h[k]] \in S
           /\ \A j, k \in 1..l : j < k => h[j] < h[k]
           /\ \A i \in 1..(n - 1) : s[i] \in S => \E k \in 1..l : h[k] = i
      BY <2>3, <2>10 DEF Places
    <3>4. \A k \in 1..(l + 1) : k \in 1..l \/ k = l + 1
      OBVIOUS
    <3>5. \A k \in 1..l : k \in 1..(l + 1) /\ g[k] = h[k] /\ h[k] \in 1..(n - 1)
      BY <3>3
    <3>6. l + 1 \in 1..(l + 1) /\ g[l + 1] = n
      OBVIOUS
    <3>7. g \in [1..Len(kept[n]) -> 1..n]
      <4>1. n \in Nat /\ n \in 1..n /\ \A i \in 1..(n - 1) : i \in 1..n
        BY <1>6, <1>1, <2>1
      <4> HIDE DEF g
      <4>2. \A k \in 1..(l + 1) : g[k] \in 1..n
        BY <3>4, <3>5, <3>6, <4>1
      <4> QED BY <4>2, <3>2 DEF g
    <3> HIDE DEF g, places, good, K
    <3>8. \A k \in 1..Len(kept[n]) : kept[n][k] = s[g[k]] /\ s[g[k]] \in S
      BY <3>2, <3>4, <3>5, <3>6, <3>12, <2>5
    <3>9. \A j, k \in 1..Len(kept[n]) : j < k => g[j] < g[k]
      <4>1. \A j, k \in 1..l : j < k => g[j] < g[k]
        BY <3>5, <3>12
      <4>2. \A j \in 1..l : g[j] < g[l + 1]
        BY <3>5, <3>6, <2>1
      <4> QED BY <4>1, <4>2, <3>2, <3>4
    <3>10. \A i \in 1..n : s[i] \in S => \E k \in 1..Len(kept[n]) : g[k] = i
      <4> TAKE i \in 1..n
      <4>1. CASE i = n
        BY <3>2, <3>6, <4>1
      <4>2. CASE i # n
        <5>1. i \in 1..(n - 1)
          BY <4>2, <2>1
        <5> QED BY <5>1, <3>12, <3>2, <3>5
      <4> QED BY <4>1, <4>2
    <3>11. places(g, n)
      BY <3>7, <3>8, <3>9, <3>10 DEF places, Places
    <3>13. good(n)
      BY <3>2, <3>11 DEF good
    <3> QED BY <3>13, <1>6
  <2>6. CASE s[n] \notin S
    <3>1. kept[n] = K
      BY <1>4, <1>6, <1>8, <2>6 DEF KeptStep
    <3>2. h \in [1..Len(K) -> 1..n]
      BY <2>1, <2>3 DEF Places
    <3>3. \A i \in 1..n : s[i] \in S => \E k \in 1..Len(K) : h[k] = i
      <4> TAKE i \in 1..n
      <4> HAVE s[i] \in S
      <4>1. i \in 1..(n - 1)
        BY <2>1, <2>6
      <4> QED BY <4>1, <2>3 DEF Places
    <3>4. places(h, n)
      BY <3>1, <3>2, <3>3, <2>3 DEF Places
    <3> QED BY <3>1, <3>4, <2>4, <1>6
  <2> QED BY <2>5, <2>6
<1> QED BY <1>7, <1>8


-----------------------------------------------------------------------------
(* Sequences of packets without repetition.                                *)

\* No element twice.
Distinct(s) == \A j, k \in 1..Len(s) : j # k => s[j] # s[k]

\* In ascending order.
Sorted(s) == \A j, k \in 1..Len(s) : j < k => s[j] < s[k]

\* The elements of a sequence.
LEMMA Elements ==
    ASSUME NEW X, NEW s \in Seq(X)
    PROVE  /\ Len(s) \in Nat /\ DOMAIN s = 1..Len(s)
           /\ \A k \in 1..Len(s) : s[k] \in D!ToSet(s) /\ s[k] \in X
           /\ \A x \in D!ToSet(s) : x \in X /\ \E k \in 1..Len(s) : x = s[k]
           /\ s = <<>> <=> D!ToSet(s) = {}
<1>1. Len(s) \in Nat /\ DOMAIN s = 1..Len(s)
  BY LenProperties
<1>2. s # <<>> => Len(s) # 0
  BY EmptySeq
<1>3. Len(<<>>) = 0
  BY EmptySeq
<1>4. \A k \in 1..Len(s) : s[k] \in X
  BY ElementOfSeq
<1>5. \A k \in 1..Len(s) : s[k] \in D!ToSet(s)
  BY <1>1 DEF D!ToSet
<1>6. \A x \in D!ToSet(s) : \E k \in 1..Len(s) : x = s[k]
  BY <1>1 DEF D!ToSet
<1>7. s # <<>> => 1 \in 1..Len(s)
  BY <1>1, <1>2
<1>8. s = <<>> => 1..Len(s) = {}
  BY <1>3
<1> QED BY <1>1, <1>4, <1>5, <1>6, <1>7, <1>8

\* The empty sequence.
LEMMA NoElements ==
    /\ D!ToSet(<<>>) = {} /\ Distinct(<<>>) /\ Sorted(<<>>)
    /\ \A X : <<>> \in Seq(X)
<1>1. \A X : <<>> \in Seq(X) /\ Len(<<>>) = 0
  BY EmptySeq
<1>2. 1..0 = {}
  OBVIOUS
<1> QED BY <1>1, <1>2, Elements DEF Distinct, Sorted

\* An element is appended.
LEMMA Appended ==
    ASSUME NEW X, NEW s \in Seq(X), NEW x \in X
    PROVE  /\ Append(s, x) \in Seq(X)
           /\ D!ToSet(Append(s, x)) = D!ToSet(s) \cup {x}
           /\ Distinct(s) /\ x \notin D!ToSet(s) => Distinct(Append(s, x))
<1>1. /\ Append(s, x) \in Seq(X)
      /\ Len(Append(s, x)) = Len(s) + 1
      /\ \A i \in 1..Len(s) : Append(s, x)[i] = s[i]
      /\ Append(s, x)[Len(s) + 1] = x
  BY AppendProperties
<1>2. Len(s) \in Nat /\ DOMAIN s = 1..Len(s) /\ DOMAIN Append(s, x) = 1..(Len(s) + 1)
  BY <1>1, LenProperties
<1>3. \A i \in 1..(Len(s) + 1) : i \in 1..Len(s) \/ i = Len(s) + 1
  BY <1>2
<1>4. \A i \in 1..Len(s) : i \in 1..(Len(s) + 1)
  BY <1>2
<1>5. Len(s) + 1 \in 1..(Len(s) + 1)
  BY <1>2
<1>6. D!ToSet(Append(s, x)) = D!ToSet(s) \cup {x}
  BY <1>1, <1>2, <1>3, <1>4, <1>5 DEF D!ToSet
<1>7. ASSUME Distinct(s), x \notin D!ToSet(s) PROVE Distinct(Append(s, x))
  <2>1. \A i \in 1..Len(s) : s[i] # x
    BY <1>7, <1>2 DEF D!ToSet
  <2> QED BY <1>1, <1>3, <1>7, <2>1 DEF Distinct
<1> QED BY <1>1, <1>6, <1>7

\* An element is taken from the front.
LEMMA Taken ==
    ASSUME NEW X, NEW s \in Seq(X), s # <<>>
    PROVE  /\ Head(s) \in X /\ Tail(s) \in Seq(X) /\ Head(s) = s[1]
           /\ D!ToSet(s) = {Head(s)} \cup D!ToSet(Tail(s))
           /\ Distinct(s) => Distinct(Tail(s)) /\ Head(s) \notin D!ToSet(Tail(s))
           /\ Len(s) \in Nat \ {0} /\ Len(Tail(s)) = Len(s) - 1
           /\ \A i \in 1..(Len(s) - 1) : Tail(s)[i] = s[i + 1]
<1>1. /\ Head(s) \in X /\ Tail(s) \in Seq(X) /\ Head(s) = s[1]
      /\ Len(Tail(s)) = Len(s) - 1
      /\ \A i \in 1..Len(Tail(s)) : Tail(s)[i] = s[i + 1]
  BY HeadTailProperties
<1>2. Len(s) \in Nat \ {0}
  BY EmptySeq
<1> DEFINE n == Len(s)
<1>3. DOMAIN s = 1..n /\ DOMAIN Tail(s) = 1..(n - 1)
  BY <1>1, LenProperties
<1>4. \A i \in 1..n : i = 1 \/ (i - 1 \in 1..(n - 1) /\ (i - 1) + 1 = i)
  BY <1>2
<1>5. \A i \in 1..(n - 1) : i + 1 \in 1..n /\ i + 1 # 1
  BY <1>2
<1>6. 1 \in 1..n
  BY <1>2
<1>7. \A x \in D!ToSet(s) : x = Head(s) \/ x \in D!ToSet(Tail(s))
  <2> SUFFICES ASSUME NEW i \in 1..n, i # 1 PROVE s[i] \in D!ToSet(Tail(s))
    BY <1>1, <1>3 DEF D!ToSet
  <2>1. i - 1 \in 1..(n - 1) /\ Tail(s)[i - 1] = s[i]
    BY <1>1, <1>4
  <2> QED BY <2>1, <1>3 DEF D!ToSet
<1>8. \A x \in D!ToSet(Tail(s)) : \E i \in 1..(n - 1) : x = s[i + 1]
  BY <1>1, <1>3 DEF D!ToSet
<1>9. \A x \in D!ToSet(Tail(s)) : x \in D!ToSet(s)
  BY <1>8, <1>3, <1>5 DEF D!ToSet
<1>10. Head(s) \in D!ToSet(s)
  BY <1>1, <1>3, <1>6 DEF D!ToSet
<1>11. ASSUME Distinct(s) PROVE Distinct(Tail(s)) /\ Head(s) \notin D!ToSet(Tail(s))
  <2>1. \A i, j \in 1..(n - 1) : i # j => i + 1 # j + 1
    BY <1>2
  <2>2. Distinct(Tail(s))
    BY <2>1, <1>1, <1>5, <1>11 DEF Distinct
  <2>3. \A i \in 1..(n - 1) : s[i + 1] # s[1]
    BY <1>5, <1>6, <1>11 DEF Distinct
  <2> QED BY <2>2, <2>3, <1>1, <1>8
<1> QED BY <1>1, <1>2, <1>7, <1>9, <1>10, <1>11

\* Two sequences are put together.
LEMMA Joined ==
    ASSUME NEW X, NEW s \in Seq(X), NEW t \in Seq(X)
    PROVE  /\ s \o t \in Seq(X)
           /\ D!ToSet(s \o t) = D!ToSet(s) \cup D!ToSet(t)
           /\ Distinct(s) /\ Distinct(t) /\ D!ToSet(s) \cap D!ToSet(t) = {} => Distinct(s \o t)
<1> DEFINE m == Len(s)
           n == Len(t)
<1>1. /\ s \o t \in Seq(X) /\ Len(s \o t) = m + n
      /\ \A i \in 1..(m + n) : (s \o t)[i] = IF i <= m THEN s[i] ELSE t[i - m]
  BY ConcatProperties
<1>2. /\ m \in Nat /\ n \in Nat /\ DOMAIN s = 1..m /\ DOMAIN t = 1..n
      /\ DOMAIN (s \o t) = 1..(m + n)
  BY <1>1, LenProperties
<1> HIDE DEF m, n
<1>3. \A i \in 1..m : i \in 1..(m + n) /\ (s \o t)[i] = s[i]
  BY <1>1, <1>2
<1>4. \A i \in 1..n : m + i \in 1..(m + n) /\ (s \o t)[m + i] = t[i]
  BY <1>1, <1>2
<1>5. \A i \in 1..(m + n) : i \in 1..m \/ (i - m \in 1..n /\ (s \o t)[i] = t[i - m] /\ i > m)
  BY <1>1, <1>2
<1>6. D!ToSet(s \o t) = D!ToSet(s) \cup D!ToSet(t)
  <2>1. \A i \in 1..m : s[i] \in D!ToSet(s \o t)
    BY <1>2, <1>3 DEF D!ToSet
  <2>2. \A i \in 1..n : t[i] \in D!ToSet(s \o t)
    BY <1>2, <1>4 DEF D!ToSet
  <2>3. \A i \in 1..(m + n) : (s \o t)[i] \in D!ToSet(s) \cup D!ToSet(t)
    BY <1>2, <1>3, <1>5 DEF D!ToSet
  <2>4. D!ToSet(s) \cup D!ToSet(t) \subseteq D!ToSet(s \o t)
    BY <2>1, <2>2, <1>2 DEF D!ToSet
  <2>5. D!ToSet(s \o t) \subseteq D!ToSet(s) \cup D!ToSet(t)
    BY <2>3, <1>2 DEF D!ToSet
  <2> QED BY <2>4, <2>5
<1>7. ASSUME Distinct(s), Distinct(t), D!ToSet(s) \cap D!ToSet(t) = {} PROVE Distinct(s \o t)
  <2>1. \A i \in 1..m, j \in 1..n : s[i] # t[j]
    BY <1>7, <1>2 DEF D!ToSet
  <2>2. \A i, j \in 1..m : i # j => s[i] # s[j]
    BY <1>7 DEF Distinct, m
  <2>3. \A i, j \in 1..n : i # j => t[i] # t[j]
    BY <1>7 DEF Distinct, n
  <2>4. \A i, j \in 1..(m + n) : i # j /\ i - m \in 1..n /\ j - m \in 1..n => i - m # j - m
    BY <1>2
  <2>5. \A i, j \in 1..(m + n) : i # j => (s \o t)[i] # (s \o t)[j]
    <3> TAKE i, j \in 1..(m + n)
    <3> HAVE i # j
    <3>1. CASE i \in 1..m /\ j \in 1..m
      BY <3>1, <1>3, <2>2
    <3>2. CASE i \in 1..m /\ j - m \in 1..n /\ (s \o t)[j] = t[j - m]
      BY <3>2, <1>3, <2>1
    <3>3. CASE j \in 1..m /\ i - m \in 1..n /\ (s \o t)[i] = t[i - m]
      BY <3>3, <1>3, <2>1
    <3>4. CASE i - m \in 1..n /\ (s \o t)[i] = t[i - m] /\ j - m \in 1..n /\ (s \o t)[j] = t[j - m]
      BY <3>4, <2>3, <2>4
    <3> QED BY <1>5, <3>1, <3>2, <3>3, <3>4
  <2> QED BY <2>5, <1>1 DEF Distinct, m, n
<1> QED BY <1>1, <1>6, <1>7

\* What Only keeps.
LEMMA Kept ==
    ASSUME NEW X, NEW s \in Seq(X), NEW S
    PROVE  /\ D!Only(s, S) \in Seq(X)
           /\ D!ToSet(D!Only(s, S)) = D!ToSet(s) \cap S
           /\ Distinct(s) => Distinct(D!Only(s, S))
<1> DEFINE o == D!Only(s, S)
<1>1. o \in Seq(X)
  BY OnlyPlaces
<1>2. PICK h : Places(h, o, s, Len(s), S)
  BY OnlyPlaces
<1> HIDE DEF o
<1>8. /\ h \in [1..Len(o) -> 1..Len(s)]
      /\ \A k \in 1..Len(o) : o[k] = s[h[k]] /\ s[h[k]] \in S
      /\ \A j, k \in 1..Len(o) : j < k => h[j] < h[k]
      /\ \A i \in 1..Len(s) : s[i] \in S => \E k \in 1..Len(o) : h[k] = i
  BY <1>2 DEF Places
<1>3. Len(s) \in Nat /\ Len(o) \in Nat /\ DOMAIN s = 1..Len(s) /\ DOMAIN o = 1..Len(o)
  BY <1>1, LenProperties
<1>4. D!ToSet(o) \subseteq D!ToSet(s) \cap S
  BY <1>8, <1>3 DEF D!ToSet
<1>5. D!ToSet(s) \cap S \subseteq D!ToSet(o)
  <2> SUFFICES ASSUME NEW i \in 1..Len(s), s[i] \in S PROVE s[i] \in D!ToSet(o)
    BY <1>3 DEF D!ToSet
  <2>1. PICK k \in 1..Len(o) : h[k] = i
    BY <1>8
  <2>2. o[k] = s[i]
    BY <2>1, <1>8
  <2> QED BY <2>2, <1>3 DEF D!ToSet
<1>6. \A j, k \in 1..Len(o) : j # k => h[j] # h[k]
  <2>1. \A j, k \in 1..Len(o) : j # k => j < k \/ k < j
    BY <1>3
  <2>2. \A j \in 1..Len(o) : h[j] \in Int
    BY <1>3, <1>8
  <2>3. \A a, b \in Int : a < b => a # b
    OBVIOUS
  <2> QED BY <2>1, <2>2, <2>3, <1>8
<1>7. Distinct(s) => Distinct(o)
  BY <1>8, <1>6 DEF Distinct
<1> QED BY <1>1, <1>4, <1>5, <1>7 DEF o

\* A finite set as a sequence.
LEMMA Listed ==
    ASSUME NEW X, NEW S, S \subseteq X, IsFiniteSet(S)
    PROVE  /\ D!SetToSeq(S) \in Seq(X)
           /\ D!ToSet(D!SetToSeq(S)) = S
           /\ Distinct(D!SetToSeq(S))
<1> DEFINE n == Cardinality(S)
           q == D!SetToSeq(S)
<1>1. n \in Nat
  BY FS_CardinalityType
<1>2. \E f \in [1..n -> S] : D!IsInjective(f)
  <2>1. ExistsBijection(1..n, S)
    BY FS_NatBijection, FS_CountingElements, FS_CardinalityType
  <2> QED BY <2>1 DEF ExistsBijection, Bijection, Injection, IsInjective, D!IsInjective
<1>3. q \in [1..n -> S] /\ D!IsInjective(q)
  <2>1. q = CHOOSE f \in [1..n -> S] : D!IsInjective(f)
    BY DEF D!SetToSeq, D!Cardinality, Cardinality, D!IsFiniteSet, IsFiniteSet
  <2> HIDE DEF q, n
  <2> QED BY <2>1, <1>2, Zenon
<1> HIDE DEF q, n
<1>4. q \in Seq(X) /\ Len(q) = n
  BY <1>1, <1>3
<1>5. Distinct(q)
  BY <1>3, <1>4 DEF D!IsInjective, Distinct
<1>6. D!ToSet(q) = S
  <2>1. D!ToSet(q) \subseteq S
    BY <1>3 DEF D!ToSet
  <2>2. IsFiniteSet(1..n) /\ Cardinality(1..n) = n
    BY <1>1, FS_Interval
  <2>3. q \in Bijection(1..n, D!ToSet(q))
    BY <1>3 DEF Bijection, Injection, Surjection, IsInjective, D!IsInjective, D!ToSet
  <2>4. Cardinality(D!ToSet(q)) = n
    BY <2>2, <2>3, FS_Bijection DEF ExistsBijection
  <2> QED BY <2>1, <2>4, FS_Subset DEF n
<1> QED BY <1>4, <1>5, <1>6 DEF q

-----------------------------------------------------------------------------
(* The flow filter.  Its invariant: no address of an interface is forgotten *)
(* by a working filter, tags are trusted only while none has overflowed,    *)
(* and the promiscuous rule is there exactly in the states that need it.    *)

FlowTypes ==
    /\ f_state \in {"ok", "overflow", "disabled", "error"}
    /\ m_flows \subseteq FlowMacs /\ f_macs \subseteq FlowMacs /\ lost \in Nat
    /\ m_overflows \in Seq(FlowMacs)
    /\ f_promiscuous \in BOOLEAN /\ hardware_tags \in BOOLEAN

\* The rules fit, and the states mean what they say.
FlowRoom ==
    /\ F!rules <= MaxRules
    /\ f_state = "ok" => F!rules < MaxRules /\ f_promiscuous = FALSE
    /\ f_state \in {"overflow", "disabled"} => f_promiscuous = TRUE

FlowCovered ==
    f_state # "error" =>
        /\ f_macs \subseteq m_flows \cup D!ToSet(m_overflows)
        /\ hardware_tags = TRUE => m_overflows = <<>> /\ f_state # "overflow"

FInv == FlowTypes /\ FlowRoom /\ FlowCovered

\* The number of rules besides the promiscuous one.
Plain(flows, l) == Cardinality(flows) + l
Extra(p) == IF p = TRUE THEN 1 ELSE 0

\* The assumptions on the flow filter's constants.
LEMMA FlowConstants ==
    /\ IsFiniteSet(FlowMacs) /\ MaxRules \in Nat \ {0}
    /\ \A S : S \subseteq FlowMacs => IsFiniteSet(S) /\ Cardinality(S) \in Nat
<1>1. IsFiniteSet(FlowMacs) /\ MaxRules \in Nat \ {0}
  BY ReceiveAssumption DEF F!FlowFilterAssumption, F!IsFiniteSet, IsFiniteSet
<1> QED BY <1>1, FS_Subset, FS_CardinalityType

\* What the rule that lets everything in adds to the number of rules.
LEMMA ExtraValues ==
    ASSUME NEW p \in BOOLEAN
    PROVE  (p = TRUE => Extra(p) = 1) /\ (p = FALSE => Extra(p) = 0) /\ Extra(p) \in Nat
BY DEF Extra

\* The count of rules, in the terms of the theorems about finite sets.
LEMMA RulesCounted == F!rules = Plain(m_flows, lost) + Extra(f_promiscuous)
BY DEF F!rules, F!Cardinality, Cardinality, Plain, Extra

\* A rule is added; one that replaces another is lost, but stays in the device.
LEMMA RuleAdded ==
    ASSUME NEW flows, flows \subseteq FlowMacs, NEW mac \in FlowMacs, NEW l \in Nat
    PROVE  /\ F!duplicate(flows, mac) \in Nat
           /\ Plain(flows, l) \in Nat
           /\ Plain(flows \cup {mac}, l + F!duplicate(flows, mac)) = Plain(flows, l) + 1
BY FlowConstants, FS_AddElement DEF Plain, F!duplicate

\* A rule is removed.
LEMMA RuleRemoved ==
    ASSUME NEW flows, flows \subseteq FlowMacs, NEW mac \in flows, NEW l \in Nat
    PROVE  Plain(flows \ {mac}, l) = Plain(flows, l) - 1 /\ Plain(flows, l) \in Nat \ {0}
<1>1. IsFiniteSet(flows) /\ Cardinality(flows) \in Nat
  BY FlowConstants
<1>2. IsFiniteSet(flows \ {mac}) /\ Cardinality(flows \ {mac}) = Cardinality(flows) - 1
  BY <1>1, FS_RemoveElement
<1>3. Cardinality(flows \ {mac}) \in Nat
  BY <1>2, FS_CardinalityType
<1> QED BY <1>1, <1>2, <1>3 DEF Plain

\* The same after a step.
LEMMA RulesCountedNext ==
    ASSUME FlowTypes'
    PROVE  /\ F!rules' = Plain(m_flows', lost') + Extra(f_promiscuous')
           /\ Plain(m_flows', lost') \in Nat
<1>1. F!rules' = Plain(m_flows', lost') + Extra(f_promiscuous')
  BY DEF F!rules, F!Cardinality, Cardinality, Plain, Extra
<1> QED BY <1>1, FlowConstants DEF FlowTypes, Plain

\* What the invariant says about the counts.
LEMMA FlowNow ==
    ASSUME FInv
    PROVE  /\ Plain(m_flows, lost) \in Nat
           /\ F!rules = Plain(m_flows, lost) + Extra(f_promiscuous)
           /\ F!rules \in Nat /\ F!rules <= MaxRules
<1>1. Plain(m_flows, lost) \in Nat
  BY FlowConstants DEF FInv, FlowTypes, Plain
<1> QED BY <1>1, RulesCounted DEF FInv, FlowRoom, Extra

\* A step that leaves the rules and the overflow alone, or fails.
LEMMA FlowRest ==
    ASSUME FInv, UNCHANGED <<m_flows, f_promiscuous, lost, m_overflows, hardware_tags>>,
           f_macs' \subseteq FlowMacs,
           \/ f_state' = "error"
           \/ f_state' = f_state /\ f_macs' \subseteq f_macs
    PROVE  FInv'
<1>1. FlowTypes'
  BY DEF FInv, FlowTypes
<1>2. FlowRoom'
  BY DEF FInv, FlowRoom, F!rules
<1>3. FlowCovered'
  BY DEF FInv, FlowCovered
<1> QED BY <1>1, <1>2, <1>3 DEF FInv

\* An address goes to the overflow.
LEMMA FlowOverflows ==
    ASSUME FInv, NEW mac \in FlowMacs, m_overflows' = Append(m_overflows, mac),
           hardware_tags' = FALSE, UNCHANGED <<m_flows, lost>>,
           f_macs' = f_macs \cup {mac},
           \/ f_state = "ok" /\ f_state' = "overflow" /\ f_promiscuous' = TRUE /\ F!rules < MaxRules
           \/ f_state' = f_state /\ f_promiscuous' = f_promiscuous /\ f_state \in {"overflow", "disabled"}
    PROVE  FInv'
<1>1. m_overflows' \in Seq(FlowMacs) /\ D!ToSet(m_overflows') = D!ToSet(m_overflows) \cup {mac}
  BY Appended DEF FInv, FlowTypes
<1>2. FlowTypes'
  BY <1>1 DEF FInv, FlowTypes
<1>3. FlowCovered'
  BY <1>1 DEF FInv, FlowCovered
<1>4. FlowRoom'
  <2>1. F!rules' = Plain(m_flows, lost) + Extra(f_promiscuous')
    BY <1>2, RulesCountedNext
  <2>2. F!rules = Plain(m_flows, lost) + Extra(f_promiscuous) /\ Plain(m_flows, lost) \in Nat
        /\ F!rules <= MaxRules
    BY FlowNow
  <2>3. CASE f_state = "ok" /\ f_state' = "overflow" /\ f_promiscuous' = TRUE /\ F!rules < MaxRules
    <3>1. F!rules' = Plain(m_flows, lost) + 1
      BY <2>1, <2>3 DEF Extra
    <3>2. F!rules = Plain(m_flows, lost)
      BY <2>2, <2>3 DEF Extra, FInv, FlowRoom
    <3>3. F!rules' <= MaxRules
      BY <3>1, <3>2, <2>2, <2>3, FlowConstants
    <3> QED BY <3>3, <2>3 DEF FlowRoom
  <2>4. CASE f_state' = f_state /\ f_promiscuous' = f_promiscuous /\ f_state \in {"overflow", "disabled"}
    <3>1. F!rules' = F!rules
      BY <2>1, <2>2, <2>4
    <3> QED BY <3>1, <2>2, <2>4 DEF FlowRoom, FInv
  <2> QED BY <2>3, <2>4
<1> QED BY <1>2, <1>3, <1>4 DEF FInv

\* An address gets its rule.
LEMMA FlowGetsRule ==
    ASSUME FInv, NEW mac \in FlowMacs, NEW leak \in Nat,
           m_flows' = m_flows \cup {mac},
           lost' = lost + leak + F!duplicate(m_flows, mac),
           f_macs' = f_macs \cup {mac}, UNCHANGED <<m_overflows, hardware_tags>>,
           \/ /\ f_state = "ok" /\ F!rules + 1 + leak < MaxRules
              /\ \/ UNCHANGED <<f_state, f_promiscuous>>
                 \/ f_promiscuous' = TRUE /\ f_state' = "error"
           \/ /\ f_state = "disabled" /\ F!rules < MaxRules /\ leak = 0
              /\ UNCHANGED <<f_state, f_promiscuous>>
    PROVE  FInv'
<1>1. lost + leak \in Nat /\ m_flows \subseteq FlowMacs /\ lost \in Nat
  BY DEF FInv, FlowTypes
<1>2. /\ lost' \in Nat
      /\ Plain(m_flows', lost') = Plain(m_flows, lost + leak) + 1
  BY <1>1, RuleAdded
<1>3. Plain(m_flows, lost + leak) = Plain(m_flows, lost) + leak
  BY <1>1, FlowConstants DEF Plain
<1>4. FlowTypes'
  BY <1>2 DEF FInv, FlowTypes
<1>5. FlowRoom'
  <2> DEFINE p == Plain(m_flows, lost)
  <2>1. F!rules' = p + leak + 1 + Extra(f_promiscuous')
    BY <1>2, <1>3, <1>4, RulesCountedNext
  <2>2. F!rules = p + Extra(f_promiscuous) /\ p \in Nat /\ MaxRules \in Nat
    BY FlowNow, FlowConstants
  <2> HIDE DEF p
  <2>3. CASE f_state = "ok" /\ F!rules + 1 + leak < MaxRules
    <3>1. f_promiscuous = FALSE /\ F!rules = p
      BY <2>2, <2>3 DEF Extra, FInv, FlowRoom
    <3>2. f_promiscuous' = TRUE => F!rules' = p + leak + 2
      BY <2>1, <2>2 DEF Extra
    <3>3. f_promiscuous' = FALSE => F!rules' = p + leak + 1
      BY <2>1, <2>2 DEF Extra
    <3>4. p + 1 + leak < MaxRules
      BY <2>3, <3>1
    <3>5. CASE UNCHANGED <<f_state, f_promiscuous>>
      <4>1. F!rules' = p + leak + 1
        BY <3>1, <3>3, <3>5
      <4>2. F!rules' < MaxRules /\ F!rules' <= MaxRules
        BY <4>1, <3>4, <2>2
      <4> QED BY <4>2, <3>1, <3>5, <2>3 DEF FlowRoom
    <3>6. CASE f_promiscuous' = TRUE /\ f_state' = "error"
      <4>1. F!rules' <= MaxRules
        BY <3>2, <3>4, <3>6, <2>2
      <4> QED BY <4>1, <3>6 DEF FlowRoom
    <3> QED BY <2>3, <3>5, <3>6
  <2>4. CASE f_state = "disabled" /\ F!rules < MaxRules /\ leak = 0
             /\ UNCHANGED <<f_state, f_promiscuous>>
    <3>1. F!rules' = F!rules + 1
      BY <2>1, <2>2, <2>4 DEF Extra
    <3>2. F!rules' <= MaxRules
      BY <3>1, <2>2, <2>4 DEF Extra
    <3>3. f_promiscuous = TRUE
      BY <2>4 DEF FInv, FlowRoom
    <3> QED BY <3>2, <3>3, <2>4 DEF FlowRoom
  <2> QED BY <2>3, <2>4
<1>6. FlowCovered'
  BY DEF FInv, FlowCovered
<1> QED BY <1>4, <1>5, <1>6 DEF FInv

\* An interface is added.
LEMMA FlowAdd == ASSUME FInv, NEW mac \in FlowMacs, F!add_interface(mac) PROVE FInv'
<1>1. f_macs' = f_macs \cup {mac} /\ f_macs' \subseteq FlowMacs
  BY DEF F!add_interface, FInv, FlowTypes
<1>2. CASE F!add_ok(mac)
  <2>1. CASE F!refuses(F!rules) /\ f_state' = "error"
             /\ UNCHANGED <<m_flows, f_promiscuous, lost, m_overflows, hardware_tags>>
    BY <1>1, <2>1, FlowRest
  <2>2. CASE /\ F!creates(F!rules) /\ F!refuses(F!rules + 1)
             /\ f_promiscuous' = TRUE /\ m_overflows' = Append(m_overflows, mac)
             /\ hardware_tags' = FALSE /\ f_state' = "overflow"
             /\ UNCHANGED <<m_flows, lost>>
    BY <1>1, <1>2, <2>2, FlowOverflows DEF F!creates, F!add_ok
  <2>3. ASSUME NEW leak \in IF DeviceFails THEN {0, 1} ELSE {0},
               F!creates(F!rules + 1),
               UNCHANGED <<m_overflows, hardware_tags>>,
               \/ /\ F!refuses(F!rules + 1 + leak) /\ lost' = lost + leak
                  /\ f_promiscuous' = TRUE /\ f_state' = "error"
                  /\ UNCHANGED m_flows
               \/ /\ F!creates(F!rules + 1 + leak)
                  /\ F!emplace(m_flows, mac) /\ lost' = lost + leak + F!duplicate(m_flows, mac)
                  /\ \/ UNCHANGED <<f_state, f_promiscuous>>
                     \/ DeviceFails /\ f_promiscuous' = TRUE /\ f_state' = "error"
        PROVE  FInv'
    <3>1. leak \in {0, 1}
      BY <2>3
    <3>2. CASE f_state' = "error" /\ lost' = lost + leak /\ f_promiscuous' = TRUE /\ UNCHANGED m_flows
      <4>1. FlowTypes'
        BY <1>1, <2>3, <3>1, <3>2 DEF FInv, FlowTypes
      <4>2. Plain(m_flows', lost') = Plain(m_flows, lost) + leak
        BY <3>1, <3>2, FlowConstants DEF Plain, FInv, FlowTypes
      <4>3. f_promiscuous = FALSE
        BY <1>2 DEF F!add_ok, FInv, FlowRoom
      <4>4. F!rules + 1 < MaxRules
        BY <2>3 DEF F!creates
      <4>5. F!rules' <= MaxRules
        <5>1. F!rules = Plain(m_flows, lost) /\ Plain(m_flows, lost) \in Nat
          <6>1. Extra(f_promiscuous) = 0
            BY <4>3, ExtraValues
          <6> QED BY <6>1, FlowNow
        <5>2. F!rules' = Plain(m_flows, lost) + leak + 1
          BY <3>2, <4>1, <4>2, RulesCountedNext DEF Extra
        <5> QED BY <3>1, <4>4, <5>1, <5>2, FlowConstants
      <4>6. FlowRoom'
        BY <3>2, <4>5 DEF FlowRoom
      <4> QED BY <3>2, <4>1, <4>6 DEF FInv, FlowCovered
    <3>3. CASE /\ F!creates(F!rules + 1 + leak)
               /\ F!emplace(m_flows, mac) /\ lost' = lost + leak + F!duplicate(m_flows, mac)
               /\ \/ UNCHANGED <<f_state, f_promiscuous>>
                  \/ DeviceFails /\ f_promiscuous' = TRUE /\ f_state' = "error"
      BY <1>1, <1>2, <2>3, <3>1, <3>3, FlowGetsRule DEF F!creates, F!emplace, F!add_ok
    <3> QED BY <2>3, <3>2, <3>3
  <2> QED BY <1>2, <2>1, <2>2, <2>3 DEF F!add_ok
<1>3. CASE F!add_overflow(mac)
  <2>1. hardware_tags = FALSE
    BY <1>3 DEF F!add_overflow, FInv, FlowTypes, FlowCovered
  <2> QED BY <1>1, <1>3, <2>1, FlowOverflows DEF F!add_overflow
<1>4. CASE F!add_disabled(mac)
  <2>1. CASE /\ m_overflows' = Append(m_overflows, mac)
             /\ hardware_tags' = IF m_overflows = <<>> THEN FALSE ELSE hardware_tags
             /\ UNCHANGED <<f_state, m_flows, f_promiscuous, lost>>
    <3>1. hardware_tags' = FALSE
      <4>1. m_overflows # <<>> => hardware_tags = FALSE
        BY <1>4 DEF F!add_disabled, FInv, FlowTypes, FlowCovered
      <4> QED BY <1>4, <2>1, <4>1 DEF F!add_disabled
    <3>2. f_state = "disabled"
      BY <1>4 DEF F!add_disabled
    <3> QED BY <1>1, <2>1, <3>1, <3>2, FlowOverflows
  <2>2. CASE /\ F!creates(F!rules)
             /\ F!emplace(m_flows, mac) /\ lost' = lost + F!duplicate(m_flows, mac)
             /\ UNCHANGED <<f_state, f_promiscuous, m_overflows, hardware_tags>>
    <3>1. lost + 0 = lost
      BY DEF FInv, FlowTypes
    <3>2. f_state = "disabled" /\ F!rules < MaxRules /\ m_flows' = m_flows \cup {mac}
      BY <1>4, <2>2 DEF F!add_disabled, F!creates, F!emplace
    <3>3. lost' = lost + 0 + F!duplicate(m_flows, mac)
      BY <2>2, <3>1
    <3> QED BY <1>1, <2>2, <3>2, <3>3, FlowGetsRule
  <2> QED BY <1>4, <2>1, <2>2 DEF F!add_disabled
<1>5. CASE F!ignored({"ok", "overflow", "disabled"})
  <2>1. f_state = "error" /\ f_state' = "error"
    BY <1>5 DEF F!ignored, FInv, FlowTypes
  <2> QED BY <1>1, <1>5, <2>1, FlowRest DEF F!ignored
<1> QED BY <1>2, <1>3, <1>4, <1>5 DEF F!add_interface

\* A rule or an overflowed address is removed from a filter that works, which
\* keeps its promiscuous rule.
LEMMA FlowRemoves ==
    ASSUME FInv, NEW mac \in FlowMacs, F!remove(mac), f_macs' = f_macs \ {mac},
           f_state # "error"
    PROVE  /\ m_flows' \subseteq FlowMacs /\ lost' \in Nat /\ m_overflows' \in Seq(FlowMacs)
           /\ Plain(m_flows', lost') <= Plain(m_flows, lost)
           /\ f_macs' \subseteq m_flows' \cup D!ToSet(m_overflows')
           /\ m_overflows = <<>> => m_overflows' = <<>>
<1>1. /\ m_flows \subseteq FlowMacs /\ lost \in Nat /\ m_overflows \in Seq(FlowMacs)
      /\ f_macs \subseteq m_flows \cup D!ToSet(m_overflows)
      /\ Plain(m_flows, lost) \in Nat
  BY FlowNow DEF FInv, FlowTypes, FlowCovered
<1>2. CASE mac \in m_flows
  <2> DEFINE flows == m_flows \ {mac}
  <2>1. Plain(flows, lost) = Plain(m_flows, lost) - 1 /\ flows \subseteq FlowMacs
    BY <1>1, <1>2, RuleRemoved
  <2>2. F!maybe_move_overflow_to_filter(flows)
    BY <1>2 DEF F!remove
  <2> HIDE DEF flows
  <2>3. CASE m_flows' = flows /\ UNCHANGED <<m_overflows, lost>>
    <3>1. f_macs' \subseteq m_flows' \cup D!ToSet(m_overflows')
      BY <1>1, <2>3 DEF flows
    <3> QED BY <1>1, <2>1, <2>3, <3>1
  <2>4. CASE /\ m_overflows # <<>> /\ m_flows' = flows \cup {Head(m_overflows)}
             /\ lost' = lost + F!duplicate(flows, Head(m_overflows))
             /\ m_overflows' = Tail(m_overflows)
    <3>1. /\ Head(m_overflows) \in FlowMacs /\ m_overflows' \in Seq(FlowMacs)
          /\ D!ToSet(m_overflows) = {Head(m_overflows)} \cup D!ToSet(m_overflows')
      BY <1>1, <2>4, Taken
    <3>2. /\ lost' \in Nat /\ Plain(m_flows', lost') = Plain(flows, lost) + 1
      <4>1. /\ F!duplicate(flows, Head(m_overflows)) \in Nat
            /\ Plain(m_flows', lost') = Plain(flows, lost) + 1
        BY <1>1, <2>1, <2>4, <3>1, RuleAdded
      <4> QED BY <1>1, <2>4, <4>1
    <3>3. f_macs' \subseteq m_flows' \cup D!ToSet(m_overflows')
      BY <1>1, <2>4, <3>1 DEF flows
    <3> QED BY <1>1, <2>1, <2>4, <3>1, <3>2, <3>3
  <2> QED BY <2>2, <2>3, <2>4 DEF F!maybe_move_overflow_to_filter, F!emplace
<1>3. CASE mac \notin m_flows
  <2>1. m_overflows' = F!Only(m_overflows, FlowMacs \ {mac}) /\ UNCHANGED <<m_flows, lost>>
    BY <1>3 DEF F!remove
  <2>2. m_overflows' = D!Only(m_overflows, FlowMacs \ {mac})
    BY <2>1 DEF F!Only, D!Only
  <2>3. /\ m_overflows' \in Seq(FlowMacs)
        /\ D!ToSet(m_overflows') = D!ToSet(m_overflows) \cap (FlowMacs \ {mac})
    BY <1>1, <2>2, Kept
  <2>4. D!ToSet(m_overflows) \subseteq FlowMacs
    BY <1>1, Elements
  <2>5. f_macs' \subseteq m_flows' \cup D!ToSet(m_overflows')
    BY <1>1, <2>1, <2>3, <2>4
  <2>6. m_overflows = <<>> => m_overflows' = <<>>
    <3>1. m_overflows = <<>> => D!ToSet(m_overflows) = {}
      BY NoElements
    <3>2. D!ToSet(m_overflows') = {} => m_overflows' = <<>>
      BY <2>3, Elements
    <3> QED BY <2>3, <3>1, <3>2
  <2>7. Plain(m_flows', lost') = Plain(m_flows, lost)
    BY <2>1
  <2>8. Plain(m_flows', lost') <= Plain(m_flows, lost)
    BY <1>1, <2>7
  <2> QED BY <1>1, <2>1, <2>3, <2>5, <2>6, <2>8
<1> QED BY <1>2, <1>3

\* An interface is deleted.
LEMMA FlowDel == ASSUME FInv, NEW mac \in FlowMacs, F!del_interface(mac) PROVE FInv'
<1>1. f_macs' = f_macs \ {mac} /\ f_macs' \subseteq FlowMacs
  BY DEF F!del_interface, FInv, FlowTypes
<1>2. ASSUME F!delete_error PROVE FInv'
  BY <1>1, <1>2, FlowRest DEF F!delete_error
<1>3. CASE F!del_ok(mac)
  <2>1. CASE m_flows' = m_flows \ {mac}
             /\ UNCHANGED <<f_state, f_promiscuous, lost, m_overflows, hardware_tags>>
    <3>1. FlowTypes'
      BY <1>1, <2>1 DEF FInv, FlowTypes
    <3>2. Plain(m_flows', lost') <= Plain(m_flows, lost)
      <4>1. CASE mac \in m_flows
        BY <2>1, <4>1, RuleRemoved DEF FInv, FlowTypes
      <4>2. CASE mac \notin m_flows
        <5>1. m_flows' = m_flows
          BY <2>1, <4>2
        <5> QED BY <2>1, <5>1, FlowNow
      <4> QED BY <4>1, <4>2
    <3>3. F!rules' <= F!rules /\ F!rules' \in Nat
      <4>1. Extra(f_promiscuous') = Extra(f_promiscuous) /\ Extra(f_promiscuous) \in Nat
        BY <2>1, ExtraValues DEF FInv, FlowTypes
      <4> QED BY <4>1, <3>1, <3>2, RulesCountedNext, FlowNow
    <3>6. F!rules' <= MaxRules /\ (F!rules < MaxRules => F!rules' < MaxRules)
      BY <3>3, FlowNow, FlowConstants
    <3>4. FlowRoom'
      BY <2>1, <3>6 DEF FInv, FlowRoom
    <3>5. FlowCovered'
      BY <1>1, <2>1 DEF FInv, FlowCovered
    <3> QED BY <3>1, <3>4, <3>5 DEF FInv
  <2> QED BY <1>2, <1>3, <2>1 DEF F!del_ok
<1>4. CASE F!del_overflow(mac)
  <2> SUFFICES ASSUME F!remove(mac),
                 \/ /\ m_overflows' = <<>> /\ f_promiscuous' = FALSE
                    /\ hardware_tags' = TRUE /\ f_state' = "ok"
                 \/ /\ m_overflows' = <<>> /\ DeviceFails /\ f_state' = "error"
                    /\ UNCHANGED <<f_promiscuous, hardware_tags>>
                 \/ /\ m_overflows' # <<>>
                    /\ UNCHANGED <<f_state, f_promiscuous, hardware_tags>>
               PROVE FInv'
    BY <1>2, <1>4 DEF F!del_overflow
  <2>1. f_state = "overflow" /\ f_promiscuous = TRUE
    BY <1>4 DEF F!del_overflow, FInv, FlowRoom
  <2>2. hardware_tags = FALSE
    BY <2>1 DEF FInv, FlowTypes, FlowCovered
  <2>3. /\ m_flows' \subseteq FlowMacs /\ lost' \in Nat /\ m_overflows' \in Seq(FlowMacs)
        /\ Plain(m_flows', lost') <= Plain(m_flows, lost)
        /\ f_macs' \subseteq m_flows' \cup D!ToSet(m_overflows')
    BY <1>1, <2>1, FlowRemoves
  <2>4. FlowTypes'
    BY <1>1, <2>1, <2>2, <2>3 DEF FInv, FlowTypes
  <2>5. /\ F!rules' = Plain(m_flows', lost') + Extra(f_promiscuous') /\ Plain(m_flows', lost') \in Nat
        /\ Plain(m_flows, lost) + 1 <= MaxRules /\ Plain(m_flows, lost) \in Nat
    BY <2>1, <2>4, RulesCountedNext, FlowNow DEF Extra
  <2>6. FlowRoom'
    <3>1. f_promiscuous' = TRUE => F!rules' <= MaxRules
      BY <2>3, <2>5, FlowConstants DEF Extra
    <3>2. f_promiscuous' = FALSE => F!rules' < MaxRules /\ F!rules' <= MaxRules
      BY <2>3, <2>5, FlowConstants DEF Extra
    <3> QED BY <2>1, <3>1, <3>2 DEF FlowRoom
  <2>7. FlowCovered'
    BY <2>1, <2>2, <2>3 DEF FlowCovered
  <2> QED BY <2>4, <2>6, <2>7 DEF FInv
<1>5. CASE F!del_disabled(mac)
  <2> SUFFICES ASSUME F!remove(mac),
                 hardware_tags' = IF m_overflows' = <<>> THEN TRUE ELSE hardware_tags,
                 UNCHANGED <<f_state, f_promiscuous>>
               PROVE FInv'
    BY <1>2, <1>5 DEF F!del_disabled
  <2>1. f_state = "disabled" /\ f_promiscuous = TRUE
    BY <1>5 DEF F!del_disabled, FInv, FlowRoom
  <2>3. /\ m_flows' \subseteq FlowMacs /\ lost' \in Nat /\ m_overflows' \in Seq(FlowMacs)
        /\ Plain(m_flows', lost') <= Plain(m_flows, lost)
        /\ f_macs' \subseteq m_flows' \cup D!ToSet(m_overflows')
        /\ m_overflows = <<>> => m_overflows' = <<>>
    BY <1>1, <2>1, FlowRemoves
  <2>4. FlowTypes'
    BY <1>1, <2>1, <2>3 DEF FInv, FlowTypes
  <2>5. /\ F!rules' = Plain(m_flows', lost') + 1 /\ Plain(m_flows', lost') \in Nat
        /\ Plain(m_flows, lost) + 1 <= MaxRules /\ Plain(m_flows, lost) \in Nat
    BY <2>1, <2>4, RulesCountedNext, FlowNow DEF Extra
  <2>6. F!rules' <= MaxRules
    BY <2>3, <2>5, FlowConstants
  <2>7. FlowRoom'
    BY <2>1, <2>6 DEF FlowRoom
  <2>8. hardware_tags' = TRUE => m_overflows' = <<>>
    BY <2>1, <2>3 DEF FInv, FlowCovered
  <2>9. FlowCovered'
    BY <2>1, <2>3, <2>8 DEF FlowCovered
  <2> QED BY <2>4, <2>7, <2>9 DEF FInv
<1>6. CASE F!ignored({"ok", "overflow", "disabled"})
  BY <1>1, <1>6, FlowRest DEF F!ignored
<1> QED BY <1>3, <1>4, <1>5, <1>6 DEF F!del_interface

\* The port's sinks come or go.
LEMMA FlowSinks == ASSUME FInv, F!disable \/ F!enable PROVE FInv'
<1>1. f_macs' = f_macs /\ f_macs' \subseteq FlowMacs
  BY DEF F!disable, F!enable, FInv, FlowTypes
<1>2. CASE F!disable_ok
  <2>1. CASE f_state' = "error" /\ UNCHANGED f_promiscuous
    BY <1>1, <1>2, <2>1, FlowRest DEF F!disable_ok
  <2>2. CASE F!creates(F!rules) /\ f_state' = "disabled" /\ f_promiscuous' = TRUE
    <3>1. FlowTypes'
      BY <1>1, <1>2, <2>2 DEF F!disable_ok, FInv, FlowTypes
    <3>2. /\ F!rules' = Plain(m_flows, lost) + 1 /\ Plain(m_flows, lost) \in Nat
      BY <1>2, <2>2, <3>1, RulesCountedNext DEF F!disable_ok, Extra
    <3>3. F!rules = Plain(m_flows, lost)
      <4>1. f_promiscuous = FALSE
        BY <1>2 DEF F!disable_ok, FInv, FlowRoom
      <4>2. Extra(f_promiscuous) = 0
        BY <4>1, ExtraValues
      <4> QED BY <4>2, FlowNow
    <3>4. F!rules' <= MaxRules
      BY <2>2, <3>2, <3>3, FlowConstants DEF F!creates
    <3>5. FlowRoom'
      BY <2>2, <3>4 DEF FlowRoom
    <3>6. FlowCovered'
      BY <1>1, <1>2, <2>2 DEF F!disable_ok, FInv, FlowCovered
    <3> QED BY <3>1, <3>5, <3>6 DEF FInv
  <2> QED BY <1>2, <2>1, <2>2 DEF F!disable_ok
<1>3. CASE F!enable_disabled
  <2>1. CASE f_state' = "error" /\ UNCHANGED f_promiscuous
    BY <1>1, <1>3, <2>1, FlowRest DEF F!enable_disabled
  <2>2. CASE f_state' = "ok" /\ f_promiscuous' = FALSE
    <3>1. FlowTypes'
      BY <1>1, <1>3, <2>2 DEF F!enable_disabled, FInv, FlowTypes
    <3>2. F!rules' = Plain(m_flows, lost) /\ Plain(m_flows, lost) \in Nat
      <4>1. Extra(f_promiscuous') = 0
        BY <2>2, ExtraValues
      <4>2. m_flows' = m_flows /\ lost' = lost
        BY <1>3 DEF F!enable_disabled
      <4> QED BY <3>1, <4>1, <4>2, RulesCountedNext
    <3>3. F!rules = Plain(m_flows, lost) + 1 /\ F!rules <= MaxRules
      BY <1>3, FlowNow DEF F!enable_disabled, Extra, FInv, FlowRoom
    <3>4. F!rules' < MaxRules /\ F!rules' <= MaxRules
      BY <3>2, <3>3, FlowConstants
    <3>5. FlowRoom'
      BY <2>2, <3>4 DEF FlowRoom
    <3>6. FlowCovered'
      BY <1>1, <1>3, <2>2 DEF F!enable_disabled, FInv, FlowCovered
    <3> QED BY <3>1, <3>5, <3>6 DEF FInv
  <2> QED BY <1>3, <2>1, <2>2 DEF F!enable_disabled
<1>4. CASE F!ignored({"ok"}) \/ F!ignored({"disabled"})
  BY <1>1, <1>4, FlowRest DEF F!ignored
<1> QED BY <1>2, <1>3, <1>4 DEF F!disable, F!enable

\* The flow filter's invariant holds in every reachable state.
LEMMA FlowInvariant == MCSpec => []FInv
<1>1. MCInit => FInv
  <2> SUFFICES ASSUME MCInit PROVE FInv
    OBVIOUS
  <2> USE DEF MCInit, F!Init
  <2>1. FlowTypes
    BY NoElements DEF FlowTypes
  <2>2. F!rules = 0
    BY FS_EmptySet, RulesCounted DEF Plain, Extra
  <2> QED BY <2>1, <2>2, FlowConstants DEF FInv, FlowRoom, FlowCovered
<1>2. FInv /\ [MCNext]_all => FInv'
  <2> SUFFICES ASSUME FInv, [MCNext]_all PROVE FInv'
    OBVIOUS
  <2>1. CASE UNCHANGED fvars
    BY <2>1, FlowRest DEF fvars, FInv, FlowTypes
  <2>2. CASE F!Next
    BY <2>2, FlowAdd, FlowDel, FlowSinks DEF F!Next
  <2> QED BY <2>1, <2>2 DEF MCNext, all
<1> QED BY <1>1, <1>2, PTL DEF MCSpec

\* The flow filter (flow_filter.cpp) always has room for the rule that lets everything in,
\* and while the receive queues trust its marks every interface has a rule that marks.
THEOREM FlowsMarked == MCSpec => []FlowsCover
<1>1. FInv => FlowsCover
  <2> SUFFICES ASSUME FInv PROVE F!RoomReserved /\ F!TagsCover
    BY DEF FlowsCover
  <2>1. F!RoomReserved
    BY DEF FInv, FlowRoom, F!RoomReserved
  <2>2. F!TagsCover
    BY NoElements DEF FInv, FlowTypes, FlowCovered, F!TagsCover
  <2> QED BY <2>1, <2>2
<1> QED BY <1>1, FlowInvariant, PTL

-----------------------------------------------------------------------------
(* The dispatch.  Five invariants, each proved with the help of those       *)
(* before it: the forwarding table, the shape of the worker's state, the    *)
(* packets' places, what the sinks get, and what the stack gets.            *)

Packets == DOMAIN burst
Entries == {D!NoEntry} \cup [ifp : Ifs, sink : BOOLEAN]

\* The table when the update under way is finished.
Settled == IF update = D!None THEN rx_sinks
           ELSE IF update \in rx_sinks THEN rx_sinks \ {update} ELSE rx_sinks \cup {update}

\* The table.  The count may be too high, for sinks that went with their
\* interface, and never too low for the table after the update.
Table ==
    /\ rx_sinks \subseteq m_interfaces /\ m_interfaces \subseteq Ifs
    /\ sink_count \in Nat
    /\ update \in m_interfaces \cup {D!None}
    /\ Cardinality(Settled) <= sink_count

\* Types of what the worker has.
WorkerTypes ==
    /\ burst \in Seq(Kinds) /\ tag \in [Packets -> Ifs \cup {D!None}]
    /\ todo \in Seq(Packets) /\ to_stack \in Seq(Packets)
    /\ to_free \in Seq(Packets) /\ released \in Seq(Packets)
    /\ got \in [D!Sinks -> Seq(Packets)] /\ stack \in [Ifs -> Seq(Packets)]
    /\ last_dst \in Ifs \cup {D!None} /\ last_entry \in Entries
    /\ bursts \in Seq([start : Nat, count : {1}, entry : Entries])

\* What the worker has not begun with is empty.
Fresh ==
    /\ pc \in {"idle", "port", "interfaces", "count", "resolve", "sinks", "push",
               "gro", "stack", "done"}
    /\ pc = "idle" => burst = <<>>
    /\ pc \in {"idle", "port", "interfaces", "count"} =>
          /\ todo = <<>> /\ to_stack = <<>> /\ to_free = <<>> /\ bursts = <<>>
          /\ last_dst = D!None /\ last_entry = D!NoEntry /\ released = <<>>
    /\ pc \in {"idle", "port"} => got[D!Port] = <<>>
    /\ pc \notin {"push", "gro", "stack", "done"} => \A i \in Ifs : got[i] = <<>>
    /\ pc \notin {"stack", "done"} => \A i \in Ifs : stack[i] = <<>>
    /\ pc \in {"resolve", "sinks", "push", "gro"} => released = <<>>
    /\ pc \in {"push", "gro", "done"} => todo = <<>>
    /\ \A m \in Packets : tag[m] # D!None => tag[m] = burst[m].dst
    /\ pc # "idle" /\ update # D!None => update \in touched
    /\ last_entry # D!NoEntry => last_entry.ifp = last_dst

\* The packets that rx_interface_sink_dispatch has pushed already.
pushed == Len(to_stack) - Len(bursts)

\* The bursts that are to be pushed are the packets of to_stack behind them.
Positions ==
    /\ pc = "sinks" => Len(bursts) = Len(to_stack)
    /\ pc \in {"sinks", "push"} =>
          /\ Len(bursts) <= Len(to_stack)
          /\ \A k \in 1..Len(bursts) : bursts[k].start = pushed + k

Shape == WorkerTypes /\ Fresh /\ Positions

\* Three lists hold every element of P once.
Parted(P, a, b, c) ==
    /\ Distinct(a) /\ Distinct(b) /\ Distinct(c)
    /\ D!ToSet(a) \cap D!ToSet(b) = {} /\ D!ToSet(a) \cap D!ToSet(c) = {}
    /\ D!ToSet(b) \cap D!ToSet(c) = {}
    /\ D!ToSet(a) \cup D!ToSet(b) \cup D!ToSet(c) = P

Once ==
    /\ pc \in {"resolve", "sinks", "push", "gro"} => Parted(Packets, todo, to_stack, to_free)
    /\ pc = "stack" => Parted(Packets, todo, to_free, released)
    /\ pc = "done" => Distinct(released) /\ D!ToSet(released) = Packets

\* The bursts to be pushed have the entries of their packets' addresses.
Filed ==
    /\ pc = "sinks" =>
          Sorted(todo) /\ \A x \in D!ToSet(to_stack), y \in D!ToSet(todo) : x < y
    /\ pc \in {"sinks", "push"} =>
          /\ Sorted(to_stack)
          /\ \A k \in 1..Len(bursts) :
                D!unicast(to_stack[pushed + k]) =>
                   /\ bursts[k].entry # D!NoEntry
                   /\ bursts[k].entry.ifp = burst[to_stack[pushed + k]].dst
    /\ pc = "push" =>
          \A i \in Ifs : \A x \in D!ToSet(got[i]) : \E j \in 1..pushed : x = to_stack[j]

\* Sinks get the right packets in order.
Ordered == Filed /\ D!SinkOrder

\* A working sink that has been there since the burst began.
Live(i) == i \in rx_sinks /\ i \notin inactive /\ i \notin touched

\* Live sinks miss nothing.
Fed(i) ==
    /\ pc # "resolve"
    /\ pc = "sinks" /\ last_dst = i => last_entry = [ifp |-> i, sink |-> TRUE]
    /\ pc \in {"sinks", "push"} =>
          /\ D!addressed(i) \cap D!ToSet(to_free) = {}
          /\ \A k \in 1..Len(bursts) :
                burst[to_stack[pushed + k]].dst = i => bursts[k].entry.sink = TRUE
    /\ pc = "push" => \A j \in 1..pushed :
          burst[to_stack[j]].dst = i => to_stack[j] \in D!ToSet(got[i])
    /\ pc \in {"gro", "stack", "done"} => D!addressed(i) \subseteq D!ToSet(got[i])

\* The port's sink has all packets.
PortFed ==
    pc \notin {"idle", "port"} /\ port_sink /\ D!Port \notin inactive \cup touched =>
        got[D!Port] = D!all

Complete == PortFed /\ \A i \in Ifs : Live(i) => Fed(i)

\* An interface that has been there since the burst began.
Present(i) == i \in m_interfaces /\ i \notin touched

\* Only packets for the stack reach it, and they are freed only if they have
\* no interface to go to.
Sifted ==
    /\ pc = "resolve" => D!ToSet(todo) \subseteq D!ForStack
    /\ pc \in {"resolve", "gro"} => D!ToSet(to_stack) \subseteq D!ForStack
    /\ pc = "stack" => D!ToSet(todo) \subseteq D!ForStack
    /\ pc \in {"resolve", "sinks", "push", "gro"} =>
          /\ \A m \in D!ToSet(to_stack) : tag[m] = D!None => burst[m].dst = D!Multicast
          /\ \A m \in D!ToSet(to_free) : m \in D!ForStack =>
                burst[m].dst # D!Multicast /\ ~Present(burst[m].dst)
    /\ pc = "stack" => \A m \in D!ToSet(todo) : tag[m] = D!None => burst[m].dst = D!Multicast
    /\ pc = "sinks" /\ Present(last_dst) => last_entry # D!NoEntry

\* A packet for interface i of the stack is there, or on its way.
Served(i) ==
    \A m \in D!ForStack : burst[m].dst \in {i, D!Multicast} =>
        \E h \in Packets : /\ burst[h].dst = burst[m].dst
                           /\ h \in D!ToSet(todo) \cup D!ToSet(stack[i])

\* What the stack of an interface has is for it.
StackOwn ==
    \A i \in Ifs : D!ToSet(stack[i]) \subseteq
        (D!addressed(i) \cup D!addressed(D!Multicast)) \cap D!ForStack

Stacked ==
    /\ Sifted /\ StackOwn
    /\ pc \in {"stack", "done"} => \A i \in Ifs : Present(i) => Served(i)

\* The assumptions on the dispatch's constants.
LEMMA DispatchConstants ==
    /\ IsFiniteSet(Ifs) /\ D!None \notin Ifs /\ D!Multicast \notin Ifs /\ D!Port \notin Ifs
    /\ D!None # D!Multicast
    /\ \A k \in Kinds : k.dst \in Ifs \cup {D!Multicast}
    /\ \A S : S \subseteq Ifs => IsFiniteSet(S) /\ Cardinality(S) \in Nat
<1>1. IsFiniteSet(Ifs)
  BY ReceiveAssumption DEF D!RxDispatchAssumption, D!IsFiniteSet, IsFiniteSet
<1>2. \A S : S \subseteq Ifs => IsFiniteSet(S) /\ Cardinality(S) \in Nat
  BY <1>1, FS_Subset, FS_CardinalityType
<1>3. \A k \in Kinds : k.dst \in Ifs \cup {D!Multicast}
  BY ReceiveAssumption DEF D!RxDispatchAssumption
<1>4. D!None \notin Ifs /\ D!Multicast \notin Ifs /\ D!Port \notin Ifs
  BY ReceiveAssumption DEF D!RxDispatchAssumption
<1>5. D!None # D!Multicast
  BY DEF D!None, D!Multicast
<1> QED BY <1>1, <1>2, <1>3, <1>4, <1>5

\* The worker leaves the table alone.
LEMMA WorkerKeepsTable == D!worker => UNCHANGED D!tableVars
BY DEF D!worker, D!rx_burst, D!rx_sink_dispatch, D!check_interfaces, D!check_sinks,
       D!resolve, D!sinks, D!push, D!gro, D!stack_dispatch, D!free, D!rx_burst_return

\* The interface's entry in the table becomes that of an update.
LEMMA TableUpdate ==
    ASSUME Table, update = D!None, NEW i \in m_interfaces, update' = i,
           UNCHANGED <<m_interfaces, rx_sinks>>,
           \/ i \notin rx_sinks /\ sink_count' = sink_count + 1
           \/ i \in rx_sinks /\ sink_count' = sink_count - 1
    PROVE  Table'
<1>1. /\ rx_sinks \subseteq Ifs /\ i \in Ifs /\ i # D!None /\ sink_count \in Nat
      /\ Cardinality(rx_sinks) <= sink_count
  BY DispatchConstants DEF Table, Settled
<1>2. IsFiniteSet(rx_sinks) /\ Cardinality(rx_sinks) \in Nat
  BY <1>1, DispatchConstants
<1>3. CASE i \notin rx_sinks /\ sink_count' = sink_count + 1
  <2>1. Settled' = rx_sinks \cup {i}
    BY <1>1, <1>3 DEF Settled
  <2>2. Cardinality(Settled') = Cardinality(rx_sinks) + 1
    BY <2>1, <1>2, <1>3, FS_AddElement
  <2> QED BY <1>1, <1>2, <1>3, <2>2 DEF Table
<1>4. CASE i \in rx_sinks /\ sink_count' = sink_count - 1
  <2>1. Settled' = rx_sinks \ {i}
    BY <1>1, <1>4 DEF Settled
  <2>2. Cardinality(Settled') = Cardinality(rx_sinks) - 1
    BY <2>1, <1>2, <1>4, FS_RemoveElement
  <2>3. Cardinality(rx_sinks \ {i}) \in Nat
    BY <1>1, DispatchConstants
  <2> QED BY <1>1, <1>2, <1>4, <2>1, <2>2, <2>3 DEF Table
<1> QED BY <1>3, <1>4

\* The server keeps the table.
LEMMA ServerKeepsTable == ASSUME Table, D!server PROVE Table'
<1>1. ASSUME NEW i \in Ifs, D!insert_interface(i) PROVE Table'
  BY <1>1 DEF D!insert_interface, Table, Settled
<1>2. ASSUME NEW i \in Ifs, D!remove_interface(i) PROVE Table'
  <2>1. /\ rx_sinks \subseteq Ifs /\ Cardinality(rx_sinks) <= sink_count /\ sink_count \in Nat
        /\ update = D!None
    BY <1>2 DEF D!remove_interface, Table, Settled
  <2>2. Settled' = rx_sinks \ {i}
    BY <1>2 DEF D!remove_interface, Settled
  <2>3. /\ IsFiniteSet(rx_sinks) /\ Cardinality(rx_sinks) \in Nat
        /\ Cardinality(rx_sinks \ {i}) \in Nat
    BY <2>1, DispatchConstants
  <2>4. Cardinality(rx_sinks \ {i}) <= Cardinality(rx_sinks)
    BY <2>3, FS_Subset
  <2> QED BY <1>2, <2>1, <2>2, <2>3, <2>4 DEF D!remove_interface, Table
<1>3. ASSUME NEW i \in Ifs, D!insert_interface_sink(i) PROVE Table'
  BY <1>3, TableUpdate DEF D!insert_interface_sink
<1>4. ASSUME NEW i \in Ifs, D!remove_interface_sink(i) PROVE Table'
  BY <1>4, TableUpdate DEF D!remove_interface_sink, Table
<1>5. ASSUME NEW i \in Ifs, D!exchange(i) PROVE Table'
  <2>1. Settled' = Settled /\ i # D!None
    BY <1>5, DispatchConstants DEF D!exchange, Settled
  <2> QED BY <1>5, <2>1 DEF D!exchange, Table
<1>6. CASE D!change_port_sink \/ \E s \in D!Sinks : D!change_active(s)
  BY <1>6 DEF D!change_port_sink, D!change_active, Table, Settled
<1> QED BY <1>1, <1>2, <1>3, <1>4, <1>5, <1>6 DEF D!server

\* The table's invariant holds in every reachable state.
LEMMA TableInvariant == MCSpec => []Table
<1>1. MCInit => Table
  BY FS_EmptySet DEF MCInit, D!Init, Table, Settled
<1>2. Table /\ [MCNext]_all => Table'
  <2> SUFFICES ASSUME Table, [MCNext]_all PROVE Table'
    OBVIOUS
  <2>1. CASE UNCHANGED D!tableVars
    BY <2>1 DEF D!tableVars, Table, Settled
  <2>2. CASE D!server
    BY <2>2, ServerKeepsTable
  <2> QED BY <2>1, <2>2, WorkerKeepsTable DEF MCNext, all, dvars, D!Next, D!tableVars
<1> QED BY <1>1, <1>2, PTL DEF MCSpec

\* If nothing is counted nothing is there, but for a sink that is leaving.
LEMMA NoneCounted == ASSUME Table, sink_count = 0 PROVE rx_sinks \subseteq {update}
<1>1. Settled \subseteq Ifs
  BY DEF Table, Settled
<1>2. IsFiniteSet(Settled) /\ Cardinality(Settled) = 0
  BY <1>1, DispatchConstants DEF Table
<1>3. Settled = {}
  BY <1>2, FS_EmptySet
<1> QED BY <1>3 DEF Settled

\* has_interface_rx_sinks() (worker.cpp) may send packets on their way to sinks that are not
\* there, but misses none whose insertion is complete (forwarding_table.tcc).
THEOREM CountNeverLow == MCSpec => []CountCovers
<1>1. Table => CountCovers
  BY NoneCounted DEF CountCovers, D!CountCovers
<1> QED BY <1>1, TableInvariant, PTL

-----------------------------------------------------------------------------
(* The shape of the worker's state.                                        *)

workerVars == <<pc, burst, tags_trusted, todo, last_dst, last_entry, bursts, to_stack,
                to_free, tag, got, stack, released>>

\* The server works beside the worker, and what it changes during a burst it
\* touches.
LEMMA ServerTouches ==
    ASSUME Table, D!server
    PROVE  /\ UNCHANGED workerVars
           /\ pc = "idle" => UNCHANGED touched
           /\ pc # "idle" =>
                /\ touched \subseteq touched'
                /\ \A i \in Ifs : i \notin touched' =>
                      /\ i \in m_interfaces' => i \in m_interfaces
                      /\ i \in rx_sinks' => i \in rx_sinks
                      /\ i \in inactive => i \in inactive'
                /\ D!Port \notin touched' =>
                      /\ port_sink' = port_sink
                      /\ D!Port \in inactive => D!Port \in inactive'
                /\ update' # D!None => update' = update \/ update' \in touched'
<1> USE DEF D!loopVars, D!listVars, D!outVars, D!histVars, workerVars, D!change
<1>0. D!Port \notin Ifs
  BY DispatchConstants
<1>2. CASE \E i \in Ifs : D!insert_interface(i) \/ D!remove_interface(i)
  BY <1>0, <1>2 DEF D!insert_interface, D!remove_interface
<1>3. CASE \E i \in Ifs : D!insert_interface_sink(i) \/ D!remove_interface_sink(i)
  BY <1>0, <1>3 DEF D!insert_interface_sink, D!remove_interface_sink
<1>4. CASE \E i \in Ifs : D!exchange(i)
  BY <1>0, <1>4 DEF D!exchange
<1>5. CASE D!change_port_sink
  BY <1>0, <1>5 DEF D!change_port_sink
<1>6. CASE \E s \in D!Sinks : D!change_active(s)
  BY <1>0, <1>6 DEF D!change_active
<1> QED BY <1>2, <1>3, <1>4, <1>5, <1>6 DEF D!server

\* Burst and packets.
LEMMA BurstPackets ==
    ASSUME burst \in Seq(Kinds)
    PROVE  /\ Packets = 1..Len(burst) /\ Len(burst) \in Nat
           /\ \A m \in Packets : burst[m].dst \in Ifs \cup {D!Multicast}
           /\ D!all \in Seq(Packets) /\ D!ToSet(D!all) = Packets
           /\ Distinct(D!all) /\ Sorted(D!all)
           /\ Len(D!all) = Len(burst)
<1>1. Packets = 1..Len(burst) /\ Len(burst) \in Nat
  BY LenProperties DEF Packets
<1>2. \A m \in Packets : burst[m].dst \in Ifs \cup {D!Multicast}
  BY <1>1, ElementOfSeq, DispatchConstants
<1>3. D!all = [m \in 1..Len(burst) |-> m]
  BY DEF D!all
<1>4. D!all \in Seq(Packets) /\ Len(D!all) = Len(burst)
  BY <1>1, <1>3
<1>5. D!ToSet(D!all) = Packets
  BY <1>1, <1>3 DEF D!ToSet
<1>6. Distinct(D!all) /\ Sorted(D!all)
  BY <1>1, <1>3, <1>4 DEF Distinct, Sorted
<1> QED BY <1>1, <1>2, <1>4, <1>5, <1>6

\* The server keeps the shape.
LEMMA ShapeServer == ASSUME Table, Shape, D!server PROVE Shape'
<1>1. UNCHANGED workerVars
  BY ServerTouches
<1>2. WorkerTypes'
  BY <1>1 DEF Shape, WorkerTypes, Packets, workerVars
<1>3. pc' # "idle" /\ update' # D!None => update' \in touched'
  <2>1. pc' = pc
    BY <1>1 DEF workerVars
  <2> QED BY <2>1, ServerTouches DEF Shape, Fresh
<1>4. Fresh'
  BY <1>1, <1>3 DEF Shape, Fresh, Packets, workerVars
<1>5. Positions'
  BY <1>1 DEF Shape, Positions, pushed, workerVars
<1> QED BY <1>2, <1>4, <1>5 DEF Shape

\* A burst arrives.
LEMMA ShapeArrive ==
    ASSUME Shape, NEW n \in 1..BurstSize, NEW packets \in [1..n -> Kinds], D!rx_burst(packets)
    PROVE  Shape'
<1>1. BurstSize \in Nat
  BY ReceiveAssumption DEF D!RxDispatchAssumption
<1>2. /\ burst' = packets /\ packets \in Seq(Kinds) /\ DOMAIN packets = 1..n
      /\ tag' = [m \in DOMAIN packets |-> D!None]
  BY <1>1 DEF D!rx_burst
<1>3. pc = "idle" /\ pc' = "port" /\ UNCHANGED <<todo, last_dst, last_entry, bursts, to_stack,
          to_free, got, stack, released, update>> /\ touched' = {update} \ {D!None}
  BY DEF D!rx_burst, D!tableVars, D!loopVars, D!outVars
<1>4. todo = <<>> /\ to_stack = <<>> /\ to_free = <<>> /\ bursts = <<>> /\ released = <<>>
      /\ last_dst = D!None /\ last_entry = D!NoEntry
  BY <1>3 DEF Shape, Fresh
<1>5. \A s \in D!Sinks : got[s] = <<>>
  BY <1>3 DEF Shape, Fresh, D!Sinks
<1>6. \A i \in Ifs : stack[i] = <<>>
  BY <1>3 DEF Shape, Fresh
<1>7. got' \in [D!Sinks -> Seq(Packets')] /\ stack' \in [Ifs -> Seq(Packets')]
  BY <1>3, <1>5, <1>6, NoElements DEF Shape, WorkerTypes
<1>8. WorkerTypes'
  BY <1>2, <1>3, <1>4, <1>7, NoElements DEF Shape, WorkerTypes, Packets
<1>9. Fresh'
  BY <1>2, <1>3, <1>4, <1>5, <1>6 DEF Fresh, Packets, D!Sinks
<1> QED BY <1>3, <1>8, <1>9 DEF Shape, Positions

\* The port's sink gets the burst.
LEMMA ShapePort == ASSUME Shape, D!rx_sink_dispatch PROVE Shape'
<1>1. got' \in [D!Sinks -> Seq(Packets)] /\ \A i \in Ifs : got'[i] = got[i]
  BY BurstPackets, DispatchConstants DEF D!rx_sink_dispatch, Shape, WorkerTypes, D!Sinks
<1>2. pc = "port" /\ pc' = "interfaces" /\ UNCHANGED <<burst, todo, last_dst, last_entry, bursts,
          to_stack, to_free, tag, stack, released, update, touched>>
  BY DEF D!rx_sink_dispatch, D!tableVars, D!loopVars, D!listVars, D!histVars
<1>3. WorkerTypes'
  BY <1>1, <1>2 DEF Shape, WorkerTypes, Packets
<1>4. Fresh'
  BY <1>1, <1>2 DEF Shape, Fresh, Packets
<1> QED BY <1>1, <1>2, <1>3, <1>4 DEF Shape, Positions

\* The worker looks for interfaces.
LEMMA ShapeInterfaces == ASSUME Shape, NEW flag, D!check_interfaces(flag) PROVE Shape'
<1>1. pc = "interfaces" /\ pc' \in {"done", "count"} /\ UNCHANGED <<burst, todo, last_dst,
          last_entry, bursts, to_stack, to_free, tag, got, stack, update, touched>>
  BY DEF D!check_interfaces, D!tableVars, D!loopVars, D!listVars, D!histVars
<1>2. released' \in Seq(Packets) /\ (pc' = "count" => released' = released)
  BY BurstPackets DEF D!check_interfaces, Shape, WorkerTypes
<1>3. WorkerTypes'
  BY <1>1, <1>2 DEF Shape, WorkerTypes, Packets
<1>4. Fresh'
  BY <1>1, <1>2 DEF Shape, Fresh, Packets
<1> QED BY <1>1, <1>2, <1>3, <1>4 DEF Shape, Positions

\* The worker looks for sinks.
LEMMA ShapeSinks == ASSUME Shape, D!check_sinks PROVE Shape'
<1>1. pc = "count" /\ pc' \in {"sinks", "resolve"} /\ UNCHANGED <<burst, last_dst,
          last_entry, bursts, to_stack, tag, got, stack, released, update, touched>>
  BY DEF D!check_sinks, D!tableVars, D!outVars, D!histVars
<1>2. todo' \in Seq(Packets) /\ to_free' \in Seq(Packets)
  BY BurstPackets, Kept DEF D!check_sinks, Shape, WorkerTypes
<1>3. WorkerTypes'
  BY <1>1, <1>2 DEF Shape, WorkerTypes, Packets
<1>4. Fresh'
  BY <1>1 DEF Shape, Fresh, Packets
<1>5. Len(bursts') = 0 /\ Len(to_stack') = 0
  BY <1>1, EmptySeq DEF Shape, Fresh
<1>6. Positions'
  BY <1>5 DEF Positions
<1> QED BY <1>3, <1>4, <1>6 DEF Shape

\* An interface is found for one packet.
LEMMA ShapeResolve == ASSUME Shape, D!resolve PROVE Shape'
<1>1. pc = "resolve" /\ pc' \in {"resolve", "gro"} /\ UNCHANGED <<burst, last_dst,
          last_entry, bursts, got, stack, released, update, touched>>
  BY DEF D!resolve, D!tableVars, D!outVars, D!histVars
<1>2. CASE todo = <<>>
  <2>1. UNCHANGED <<todo, to_stack, to_free, tag>>
    BY <1>2 DEF D!resolve, D!listVars
  <2>2. WorkerTypes'
    BY <1>1, <2>1 DEF Shape, WorkerTypes, Packets
  <2>3. Fresh'
    BY <1>1, <1>2, <2>1 DEF Shape, Fresh, Packets
  <2> QED BY <1>1, <2>2, <2>3 DEF Shape, Positions
<1>3. CASE todo # <<>>
  <2>1. PICK m : m = Head(todo)
    OBVIOUS
  <2>2. m \in Packets /\ Tail(todo) \in Seq(Packets)
    BY <1>3, <2>1, Taken DEF Shape, WorkerTypes
  <2>3. todo' = Tail(todo) /\ pc' = pc
    BY <1>3 DEF D!resolve
  <2>4. /\ burst[m].dst \in Ifs \cup {D!Multicast}
        /\ to_stack \in Seq(Packets) /\ to_free \in Seq(Packets)
        /\ tag \in [Packets -> Ifs \cup {D!None}]
    BY <2>2, BurstPackets DEF Shape, WorkerTypes
  <2>5. CASE to_free' = Append(to_free, m) /\ UNCHANGED <<to_stack, tag>>
    <3>1. to_free' \in Seq(Packets)
      BY <2>2, <2>4, <2>5, Appended
    <3>2. WorkerTypes'
      BY <1>1, <2>2, <2>3, <2>5, <3>1 DEF Shape, WorkerTypes, Packets
    <3>3. Fresh'
      BY <1>1, <2>3, <2>5 DEF Shape, Fresh, Packets
    <3> QED BY <1>1, <3>2, <3>3 DEF Shape, Positions
  <2>6. CASE /\ to_stack' = Append(to_stack, m) /\ UNCHANGED to_free
             /\ tag' = [tag EXCEPT ![m] = IF D!unicast(m) THEN burst[m].dst ELSE D!None]
    <3>1. to_stack' \in Seq(Packets)
      BY <2>2, <2>4, <2>6, Appended
    <3>2. tag' \in [Packets -> Ifs \cup {D!None}]
      BY <2>2, <2>4, <2>6 DEF D!unicast
    <3>3. \A x \in Packets : tag'[x] # D!None => tag'[x] = burst[x].dst
      BY <2>2, <2>4, <2>6 DEF Shape, Fresh
    <3>4. WorkerTypes'
      BY <1>1, <2>2, <2>3, <2>6, <3>1, <3>2 DEF Shape, WorkerTypes, Packets
    <3>5. Fresh'
      BY <1>1, <2>3, <3>3 DEF Shape, Fresh, Packets
    <3> QED BY <1>1, <3>4, <3>5 DEF Shape, Positions
  <2> QED BY <1>3, <2>1, <2>5, <2>6 DEF D!resolve
<1> QED BY <1>2, <1>3

\* The entry that the loop over the packets uses for m.
LoopEntry(m) == IF D!unicast(m) THEN D!entry_of(m) ELSE last_entry

\* It is an entry of the packet's address, of the last one seen, or none.
LEMMA EntryFound ==
    ASSUME Table, WorkerTypes, NEW m \in Packets
    PROVE  LoopEntry(m) \in Entries
<1>1. \A d : D!find_interface_and_sinks(d) \in Entries
  BY DEF D!find_interface_and_sinks, Entries, Table
<1> QED BY <1>1 DEF LoopEntry, D!entry_of, WorkerTypes

\* A packet gets the entry of its interface.
LEMMA ShapeFile == ASSUME Table, Shape, D!sinks PROVE Shape'
<1>1. pc = "sinks" /\ pc' \in {"sinks", "push"} /\ UNCHANGED <<burst, got, stack, released,
          update, touched>>
  BY DEF D!sinks, D!tableVars, D!outVars, D!histVars
<1>2. CASE todo = <<>>
  <2>1. UNCHANGED <<todo, last_dst, last_entry, bursts, to_stack, to_free, tag>>
    BY <1>2 DEF D!sinks, D!listVars, D!loopVars
  <2>2. WorkerTypes'
    BY <1>1, <2>1 DEF Shape, WorkerTypes, Packets
  <2>3. Fresh'
    BY <1>1, <1>2, <2>1 DEF Shape, Fresh, Packets
  <2>4. Positions'
    BY <1>1, <2>1 DEF Shape, Positions, pushed
  <2> QED BY <2>2, <2>3, <2>4 DEF Shape
<1>3. CASE todo # <<>>
  <2>1. PICK m : m = Head(todo)
    OBVIOUS
  <2>2. m \in Packets /\ Tail(todo) \in Seq(Packets)
    BY <1>3, <2>1, Taken DEF Shape, WorkerTypes
  <2>3. PICK e : e = LoopEntry(m)
    OBVIOUS
  <2>4. todo' = Tail(todo) /\ pc' = pc /\ last_entry' = e
        /\ last_dst' = IF D!unicast(m) THEN burst[m].dst ELSE last_dst
    BY <1>3, <2>1, <2>3 DEF D!sinks, LoopEntry
  <2>5. /\ burst[m].dst \in Ifs \cup {D!Multicast} /\ e \in Entries
        /\ to_stack \in Seq(Packets) /\ to_free \in Seq(Packets)
        /\ tag \in [Packets -> Ifs \cup {D!None}]
        /\ bursts \in Seq([start : Nat, count : {1}, entry : Entries])
        /\ Len(to_stack) \in Nat
    BY <2>2, <2>3, BurstPackets, EntryFound, LenProperties DEF Shape, WorkerTypes
  <2>6. last_dst' \in Ifs \cup {D!None}
    BY <2>4, <2>5 DEF D!unicast, Shape, WorkerTypes
  <2>9. last_entry' # D!NoEntry => last_entry'.ifp = last_dst'
    <3>1. CASE ~D!unicast(m)
      BY <2>3, <2>4, <3>1 DEF LoopEntry, Shape, Fresh
    <3>2. CASE D!unicast(m) /\ burst[m].dst = last_dst
      BY <2>3, <2>4, <3>2 DEF LoopEntry, D!entry_of, Shape, Fresh
    <3>3. CASE D!unicast(m) /\ burst[m].dst # last_dst
      BY <2>3, <2>4, <3>3 DEF LoopEntry, D!entry_of, D!find_interface_and_sinks
    <3> QED BY <3>1, <3>2, <3>3
  <2>7. CASE to_free' = Append(to_free, m) /\ UNCHANGED <<to_stack, tag, bursts>>
    <3>1. to_free' \in Seq(Packets)
      BY <2>2, <2>5, <2>7, Appended
    <3>2. WorkerTypes'
      BY <1>1, <2>2, <2>4, <2>5, <2>6, <2>7, <3>1 DEF Shape, WorkerTypes, Packets
    <3>3. Fresh'
      BY <1>1, <2>4, <2>7, <2>9 DEF Shape, Fresh, Packets
    <3>4. Positions'
      BY <1>1, <2>4, <2>7 DEF Shape, Positions, pushed
    <3> QED BY <3>2, <3>3, <3>4 DEF Shape
  <2>8. CASE /\ ~(D!unicast(m) /\ e = D!NoEntry)
             /\ to_stack' = Append(to_stack, m) /\ UNCHANGED to_free
             /\ tag' = [tag EXCEPT ![m] = IF D!unicast(m) THEN e.ifp ELSE D!None]
             /\ bursts' = Append(bursts, [start |-> Len(to_stack) + 1, count |-> 1, entry |-> e])
    <3>1. to_stack' \in Seq(Packets)
      BY <2>2, <2>5, <2>8, Appended
    <3>2. bursts' \in Seq([start : Nat, count : {1}, entry : Entries])
      <4>1. [start |-> Len(to_stack) + 1, count |-> 1, entry |-> e]
               \in [start : Nat, count : {1}, entry : Entries]
        BY <2>5
      <4> QED BY <2>5, <2>8, <4>1, AppendProperties
    <3>3. D!unicast(m) => e.ifp = burst[m].dst /\ e.ifp \in Ifs
      BY <2>4, <2>5, <2>8, <2>9 DEF D!unicast
    <3>4. tag' \in [Packets -> Ifs \cup {D!None}]
      BY <2>2, <2>5, <2>8, <3>3
    <3>5. \A x \in Packets : tag'[x] # D!None => tag'[x] = burst[x].dst
      BY <2>2, <2>5, <2>8, <3>3 DEF Shape, Fresh
    <3>6. WorkerTypes'
      BY <1>1, <2>2, <2>4, <2>5, <2>6, <2>8, <3>1, <3>2, <3>4 DEF Shape, WorkerTypes, Packets
    <3>7. Fresh'
      BY <1>1, <2>4, <2>9, <3>5 DEF Shape, Fresh, Packets
    <3>8. /\ Len(bursts) = Len(to_stack) /\ Len(to_stack') = Len(to_stack) + 1
          /\ Len(bursts') = Len(bursts) + 1
          /\ \A k \in 1..Len(bursts) : bursts'[k] = bursts[k] /\ bursts[k].start = pushed + k
          /\ bursts'[Len(bursts) + 1].start = Len(to_stack) + 1
      <4>1. [start |-> Len(to_stack) + 1, count |-> 1, entry |-> e]
               \in [start : Nat, count : {1}, entry : Entries]
        BY <2>5
      <4> QED BY <1>1, <2>2, <2>5, <2>8, <4>1, AppendProperties DEF Shape, Positions
    <3>9. pushed = 0 /\ pushed' = 0
      BY <2>5, <3>8 DEF pushed
    <3>10. \A k \in 1..(Len(bursts) + 1) : k \in 1..Len(bursts) \/ k = Len(bursts) + 1
      BY <2>5, <3>8
    <3>11. \A k \in 1..Len(bursts') : bursts'[k].start = pushed' + k
      BY <2>5, <3>8, <3>9, <3>10
    <3>12. Positions'
      BY <2>5, <3>8, <3>11 DEF Positions
    <3> QED BY <3>6, <3>7, <3>12 DEF Shape
  <2> QED BY <1>3, <2>1, <2>3, <2>7, <2>8 DEF D!sinks, LoopEntry
<1> QED BY <1>2, <1>3

\* A burst is pushed.  What it pushes:
LEMMA PushedPacket ==
    ASSUME Shape, D!push, bursts # <<>>
    PROVE  /\ pushed + 1 \in 1..Len(to_stack) /\ pushed \in Nat
           /\ pushed' = pushed + 1
           /\ Head(bursts) = bursts[1] /\ Head(bursts).entry \in Entries
           /\ Len(bursts') = Len(bursts) - 1 /\ Len(bursts) \in Nat \ {0}
           /\ \A k \in 1..(Len(bursts) - 1) : bursts'[k] = bursts[k + 1]
           /\ bursts' \in Seq([start : Nat, count : {1}, entry : Entries])
           /\ UNCHANGED <<pc, to_stack, to_free>>
           /\ got' = [s \in D!Sinks |->
                        IF s \in D!receivers(bursts[1].entry)
                        THEN Append(got[s], to_stack[pushed + 1]) ELSE got[s]]
<1>1. /\ to_stack \in Seq(Packets) /\ got \in [D!Sinks -> Seq(Packets)]
      /\ bursts \in Seq([start : Nat, count : {1}, entry : Entries])
  BY DEF Shape, WorkerTypes
<1>2. bursts' = Tail(bursts) /\ UNCHANGED <<pc, to_stack, to_free>> /\ pc = "push"
  BY DEF D!push
<1>3. /\ Head(bursts) = bursts[1] /\ Head(bursts) \in [start : Nat, count : {1}, entry : Entries]
      /\ Len(bursts') = Len(bursts) - 1 /\ Len(bursts) \in Nat \ {0}
      /\ \A k \in 1..(Len(bursts) - 1) : bursts'[k] = bursts[k + 1]
      /\ bursts' \in Seq([start : Nat, count : {1}, entry : Entries])
  BY <1>1, <1>2, Taken
<1>4. Len(to_stack) \in Nat /\ Len(bursts) <= Len(to_stack)
  BY <1>1, <1>2, LenProperties DEF Shape, Positions
<1>5. pushed + 1 \in 1..Len(to_stack) /\ pushed \in Nat /\ pushed' = pushed + 1
  BY <1>2, <1>3, <1>4 DEF pushed
<1>6. bursts[1].start = pushed + 1 /\ bursts[1].count = 1
  BY <1>2, <1>3 DEF Shape, Positions
<1>7. SubSeq(to_stack, pushed + 1, pushed + 1) = <<to_stack[pushed + 1]>>
  <2> DEFINE n == pushed + 1
  <2>1. n \in Int /\ \A i \in n..n : to_stack[i] \in Packets
    BY <1>1, <1>5, ElementOfSeq
  <2> HIDE DEF n
  <2>2. /\ SubSeq(to_stack, n, n) \in Seq(Packets) /\ Len(SubSeq(to_stack, n, n)) = 1
        /\ SubSeq(to_stack, n, n)[1] = to_stack[n]
    BY <2>1, SubSeqProperties
  <2>3. \A q \in Seq(Packets) : Len(q) = 1 => q = <<q[1]>>
    OBVIOUS
  <2> QED BY <2>2, <2>3 DEF n
<1>8. \A s \in D!Sinks : got[s] \o <<to_stack[pushed + 1]>> = Append(got[s], to_stack[pushed + 1])
  BY <1>1
<1>9. bursts[1].start + bursts[1].count - 1 = pushed + 1
  BY <1>5, <1>6
<1>10. got' = [s \in D!Sinks |->
                  IF s \in D!receivers(bursts[1].entry)
                  THEN got[s] \o SubSeq(to_stack, pushed + 1, pushed + 1) ELSE got[s]]
  BY <1>3, <1>6, <1>9 DEF D!push
<1>11. got' = [s \in D!Sinks |->
                  IF s \in D!receivers(bursts[1].entry)
                  THEN Append(got[s], to_stack[pushed + 1]) ELSE got[s]]
  BY <1>7, <1>8, <1>10
<1> QED BY <1>2, <1>3, <1>5, <1>11

\* Pushing keeps the shape.
LEMMA ShapePush == ASSUME Table, Shape, D!push PROVE Shape'
<1>1. pc = "push" /\ pc' \in {"push", "gro"} /\ UNCHANGED <<burst, todo, last_dst, last_entry,
          tag, stack, released, update, touched>>
  BY DEF D!push, D!tableVars, D!histVars
<1>2. /\ to_stack \in Seq(Packets) /\ to_free \in Seq(Packets) /\ got \in [D!Sinks -> Seq(Packets)]
      /\ bursts \in Seq([start : Nat, count : {1}, entry : Entries])
  BY DEF Shape, WorkerTypes
<1>3. to_stack' \in Seq(Packets) /\ to_free' \in Seq(Packets)
  <2>1. D!Only(to_stack, D!ForStack) \in Seq(Packets)
    BY <1>2, Kept
  <2>2. to_free \o D!Only(to_stack, D!NotForStack) \in Seq(Packets)
    BY <1>2, Kept, Joined
  <2> QED BY <1>2, <2>1, <2>2 DEF D!push, D!partition
<1>4. got' \in [D!Sinks -> Seq(Packets)]
  <2>1. CASE bursts = <<>>
    BY <1>2, <2>1 DEF D!push
  <2>2. CASE bursts # <<>>
    <3>1. to_stack[pushed + 1] \in Packets
      BY <2>2, <1>2, PushedPacket, ElementOfSeq
    <3>2. \A s \in D!Sinks : Append(got[s], to_stack[pushed + 1]) \in Seq(Packets)
      BY <1>2, <3>1, Appended
    <3> QED BY <1>2, <2>2, <3>2, PushedPacket
  <2> QED BY <2>1, <2>2
<1>5. bursts' \in Seq([start : Nat, count : {1}, entry : Entries])
  BY <1>2, PushedPacket DEF D!push
<1>6. WorkerTypes'
  BY <1>1, <1>3, <1>4, <1>5 DEF Shape, WorkerTypes, Packets
<1>7. Fresh'
  BY <1>1 DEF Shape, Fresh, Packets
<1>8. Positions'
  <2>1. CASE bursts = <<>>
    BY <2>1 DEF D!push, Positions
  <2>2. CASE bursts # <<>>
    <3>1. \A k \in 1..(Len(bursts) - 1) : k + 1 \in 1..Len(bursts)
      BY <2>2, PushedPacket
    <3>2. \A k \in 1..(Len(bursts) - 1) : bursts'[k].start = pushed + (k + 1)
      <4>1. \A k \in 1..Len(bursts) : bursts[k].start = pushed + k
        BY <1>1 DEF Shape, Positions
      <4>2. \A k \in 1..(Len(bursts) - 1) : bursts'[k] = bursts[k + 1]
        BY <2>2, PushedPacket
      <4> QED BY <3>1, <4>1, <4>2
    <3>3. \A k \in 1..Len(bursts') : bursts'[k].start = pushed' + k
      <4>1. pushed \in Nat /\ pushed' = pushed + 1 /\ Len(bursts') = Len(bursts) - 1
            /\ Len(bursts) \in Nat
        BY <2>2, PushedPacket
      <4>2. \A k \in Int : pushed + (k + 1) = pushed' + k
        BY <4>1
      <4> QED BY <3>2, <4>1, <4>2
    <3>4. Len(to_stack) \in Nat /\ Len(bursts) <= Len(to_stack)
      BY <1>1, <1>2, LenProperties DEF Shape, Positions
    <3>5. Len(bursts') <= Len(to_stack')
      BY <2>2, <3>4, PushedPacket
    <3>6. pc' = "push"
      BY <1>1, <2>2, PushedPacket
    <3> QED BY <3>3, <3>5, <3>6 DEF Positions
  <2> QED BY <2>1, <2>2
<1> QED BY <1>6, <1>7, <1>8 DEF Shape

\* Packets are put together and sorted for the stack.
LEMMA ShapeGro ==
    ASSUME Shape, NEW tcp \in SUBSET D!ToSet(to_stack),
           NEW merged \in SUBSET (D!ToSet(to_stack) \ tcp), D!gro(merged, tcp)
    PROVE  Shape'
<1>1. pc = "gro" /\ pc' = "stack" /\ UNCHANGED <<burst, last_dst, last_entry, bursts, to_stack,
          to_free, tag, got, stack, update, touched>>
  BY DEF D!gro, D!tableVars, D!listVars, D!histVars
<1>2. to_stack \in Seq(Packets) /\ released \in Seq(Packets)
  BY DEF Shape, WorkerTypes
<1>3. \A S, T, U, V : D!Only(D!Only(to_stack, S) \o D!Only(to_stack, T), U)
            \o D!Only(D!Only(to_stack, S) \o D!Only(to_stack, T), V) \in Seq(Packets)
  BY <1>2, Kept, Joined
<1>4. todo' \in Seq(Packets)
  BY <1>3 DEF D!gro
<1>5. released' \in Seq(Packets)
  <2>1. merged \subseteq Packets /\ IsFiniteSet(merged)
    <3>1. merged \subseteq Packets
      BY <1>2, Elements
    <3>2. Packets = 1..Len(burst) /\ Len(burst) \in Nat
      BY BurstPackets DEF Shape, WorkerTypes
    <3>3. IsFiniteSet(Packets)
      BY <3>2, FS_Interval
    <3> QED BY <3>1, <3>3, FS_Subset
  <2>2. D!SetToSeq(merged) \in Seq(Packets)
    BY <2>1, Listed
  <2> QED BY <1>2, <2>2, Joined DEF D!gro
<1>6. WorkerTypes'
  BY <1>1, <1>4, <1>5 DEF Shape, WorkerTypes, Packets
<1>7. Fresh'
  BY <1>1 DEF Shape, Fresh, Packets
<1> QED BY <1>1, <1>6, <1>7 DEF Shape, Positions

\* The stack gets a packet.
LEMMA ShapeStack == ASSUME Table, Shape, D!stack_dispatch PROVE Shape'
<1>1. pc = "stack" /\ pc' = "stack" /\ todo # <<>> /\ UNCHANGED <<burst, last_dst, last_entry,
          bursts, to_stack, to_free, got, update>>
  BY DEF D!stack_dispatch, D!tableVars
<1>2. PICK m : m = Head(todo)
  OBVIOUS
<1>3. m \in Packets /\ Tail(todo) \in Seq(Packets)
  BY <1>1, <1>2, Taken DEF Shape, WorkerTypes
<1>4. /\ todo' = Tail(todo) /\ tag' = [tag EXCEPT ![m] = D!None]
      /\ released' = Append(released, m)
  BY <1>2 DEF D!stack_dispatch
<1>5. PICK to : /\ stack' = [i \in Ifs |-> IF i \in to THEN Append(stack[i], m) ELSE stack[i]]
                /\ touched' = IF tag[m] # D!None THEN touched ELSE touched \cup (m_interfaces \ to)
  BY <1>2 DEF D!stack_dispatch
<1>6. stack' \in [Ifs -> Seq(Packets)]
  BY <1>3, <1>5, Appended DEF Shape, WorkerTypes
<1>7. released' \in Seq(Packets)
  BY <1>3, <1>4, Appended DEF Shape, WorkerTypes
<1>8. WorkerTypes'
  BY <1>1, <1>3, <1>4, <1>6, <1>7 DEF Shape, WorkerTypes, Packets
<1>9. Fresh'
  BY <1>1, <1>3, <1>4, <1>5 DEF Shape, Fresh, WorkerTypes, Packets
<1> QED BY <1>1, <1>8, <1>9 DEF Shape, Positions

\* The rest is freed.
LEMMA ShapeFree == ASSUME Shape, D!free PROVE Shape'
<1>1. pc = "stack" /\ pc' = "done" /\ todo = <<>> /\ UNCHANGED <<burst, todo, last_dst, last_entry,
          bursts, to_stack, to_free, tag, got, stack, update, touched>>
  BY DEF D!free, D!tableVars, D!loopVars, D!listVars, D!histVars
<1>2. released' \in Seq(Packets)
  BY Joined DEF D!free, Shape, WorkerTypes
<1>3. WorkerTypes'
  BY <1>1, <1>2 DEF Shape, WorkerTypes, Packets
<1>4. Fresh'
  BY <1>1 DEF Shape, Fresh, Packets
<1> QED BY <1>1, <1>3, <1>4 DEF Shape, Positions

\* The worker forgets the burst.
LEMMA ShapeReturn == ASSUME D!rx_burst_return PROVE Shape'
<1>1. /\ pc' = "idle" /\ burst' = <<>> /\ tag' = <<>>
      /\ todo' = <<>> /\ last_dst' = D!None /\ last_entry' = D!NoEntry /\ bursts' = <<>>
      /\ to_stack' = <<>> /\ to_free' = <<>> /\ released' = <<>>
      /\ got' = [s \in D!Sinks |-> <<>>] /\ stack' = [i \in Ifs |-> <<>>]
  BY DEF D!rx_burst_return
<1>2. DOMAIN <<>> = {} /\ <<>> \in [{} -> Ifs \cup {D!None}]
  OBVIOUS
<1>3. WorkerTypes'
  BY <1>1, <1>2, NoElements DEF WorkerTypes, Packets, Entries
<1>4. Fresh'
  BY <1>1, <1>2 DEF Fresh, Packets, D!Sinks
<1> QED BY <1>1, <1>3, <1>4 DEF Shape, Positions

\* The shape holds in every reachable state.
LEMMA ShapeInvariant == MCSpec => []Shape
<1>1. MCInit => Shape
  <2> SUFFICES ASSUME MCInit PROVE Shape
    OBVIOUS
  <2>1. DOMAIN <<>> = {} /\ <<>> \in [{} -> Ifs \cup {D!None}]
    OBVIOUS
  <2>2. WorkerTypes
    BY <2>1, NoElements DEF MCInit, D!Init, WorkerTypes, Packets, Entries
  <2>3. Fresh
    BY <2>1 DEF MCInit, D!Init, Fresh, Packets, D!Sinks
  <2> QED BY <2>2, <2>3 DEF MCInit, D!Init, Shape, Positions
<1>2. Table /\ Shape /\ [MCNext]_all => Shape'
  <2> SUFFICES ASSUME Table, Shape, [MCNext]_all PROVE Shape'
    OBVIOUS
  <2>1. CASE UNCHANGED dvars
    BY <2>1 DEF dvars, Shape, WorkerTypes, Fresh, Positions, pushed, Packets
  <2>2. CASE D!server
    BY <2>2, ShapeServer
  <2>3. CASE D!worker
    BY <2>3, ShapeArrive, ShapePort, ShapeInterfaces, ShapeSinks, ShapeResolve, ShapeFile,
       ShapePush, ShapeGro, ShapeStack, ShapeFree, ShapeReturn DEF D!worker
  <2> QED BY <2>1, <2>2, <2>3 DEF MCNext, all, D!Next
<1> QED BY <1>1, <1>2, TableInvariant, PTL DEF MCSpec

-----------------------------------------------------------------------------
(* Every packet is in one place.                                           *)

\* The first element of a goes to b or to c.
LEMMA PartMoves ==
    ASSUME NEW P, NEW a \in Seq(P), NEW b \in Seq(P), NEW c \in Seq(P), a # <<>>,
           Parted(P, a, b, c)
    PROVE  /\ Parted(P, Tail(a), Append(b, Head(a)), c)
           /\ Parted(P, Tail(a), b, Append(c, Head(a)))
<1>1. /\ Head(a) \in P /\ Tail(a) \in Seq(P)
      /\ D!ToSet(a) = {Head(a)} \cup D!ToSet(Tail(a))
      /\ Distinct(Tail(a)) /\ Head(a) \notin D!ToSet(Tail(a))
  BY Taken DEF Parted
<1>2. Head(a) \notin D!ToSet(b) /\ Head(a) \notin D!ToSet(c)
  BY <1>1 DEF Parted
<1>3. D!ToSet(Append(b, Head(a))) = D!ToSet(b) \cup {Head(a)} /\ Distinct(Append(b, Head(a)))
  BY <1>1, <1>2, Appended DEF Parted
<1>4. D!ToSet(Append(c, Head(a))) = D!ToSet(c) \cup {Head(a)} /\ Distinct(Append(c, Head(a)))
  BY <1>1, <1>2, Appended DEF Parted
<1> QED BY <1>1, <1>2, <1>3, <1>4 DEF Parted

\* Nothing else than the packets.
LEMMA StackSets ==
    ASSUME Shape
    PROVE  /\ D!ForStack \subseteq Packets /\ D!NotForStack = Packets \ D!ForStack
           /\ \A s \in Seq(Packets) : D!ToSet(s) \subseteq Packets
<1>1. \A s \in Seq(Packets) : D!ToSet(s) \subseteq Packets
  BY Elements
<1> QED BY <1>1 DEF D!ForStack, D!NotForStack, Packets

\* The worker keeps every packet in one place.
\* Without interfaces everything is released, otherwise nothing moves.
LEMMA OnceInterfaces == ASSUME Shape, NEW flag, D!check_interfaces(flag) PROVE Once'
<1>1. CASE pc' = "done" /\ released' = D!all /\ burst' = burst
  BY <1>1, BurstPackets DEF Once, Shape, WorkerTypes, Packets
<1>2. CASE pc' = "count"
  BY <1>2 DEF Once
<1> QED BY <1>1, <1>2 DEF D!check_interfaces

\* All packets go into the loop, or are parted into those for the stack and the rest.
LEMMA OnceSinks == ASSUME Shape, D!check_sinks PROVE Once'
<1>1. /\ burst' = burst /\ to_stack' = <<>> /\ to_free = <<>> /\ D!ToSet(<<>>) = {}
      /\ Distinct(<<>>) /\ pc' \in {"sinks", "resolve"}
  BY NoElements DEF D!check_sinks, Shape, Fresh
<1>2. D!all \in Seq(Packets) /\ D!ToSet(D!all) = Packets /\ Distinct(D!all)
  BY BurstPackets DEF Shape, WorkerTypes
<1>3. CASE todo' = D!all /\ to_free' = to_free
  <2>1. Parted(Packets', todo', to_stack', to_free')
    BY <1>1, <1>2, <1>3 DEF Parted, Packets
  <2> QED BY <1>1, <2>1 DEF Once
<1>4. CASE todo' = D!Only(D!all, D!ForStack) /\ to_free' = D!Only(D!all, D!NotForStack)
  <2>1. /\ D!ToSet(todo') = D!ForStack /\ D!ToSet(to_free') = Packets \ D!ForStack
        /\ Distinct(todo') /\ Distinct(to_free')
    <3>1. D!ToSet(todo') = Packets \cap D!ForStack /\ Distinct(todo')
      BY <1>2, <1>4, Kept
    <3>2. D!ToSet(to_free') = Packets \cap D!NotForStack /\ Distinct(to_free')
      BY <1>2, <1>4, Kept
    <3> QED BY <3>1, <3>2, StackSets
  <2>2. Parted(Packets', todo', to_stack', to_free')
    BY <1>1, <2>1, StackSets DEF Parted, Packets
  <2> QED BY <1>1, <2>2 DEF Once
<1> QED BY <1>3, <1>4 DEF D!check_sinks

\* The loops move one packet to to_stack or to to_free.
LEMMA OnceSort == ASSUME Shape, Once, D!resolve \/ D!sinks PROVE Once'
<1>1. /\ burst' = burst /\ pc \in {"resolve", "sinks"} /\ Parted(Packets, todo, to_stack, to_free)
      /\ pc' \in {"resolve", "gro", "sinks", "push"}
      /\ todo \in Seq(Packets) /\ to_stack \in Seq(Packets) /\ to_free \in Seq(Packets)
  BY DEF D!resolve, D!sinks, Once, Shape, WorkerTypes
<1>2. \/ UNCHANGED <<todo, to_stack, to_free>>
      \/ /\ todo # <<>> /\ todo' = Tail(todo)
         /\ \/ to_stack' = Append(to_stack, Head(todo)) /\ to_free' = to_free
            \/ to_stack' = to_stack /\ to_free' = Append(to_free, Head(todo))
  BY DEF D!resolve, D!sinks, D!listVars, D!loopVars
<1>3. Parted(Packets, todo', to_stack', to_free')
  BY <1>1, <1>2, PartMoves
<1> QED BY <1>1, <1>3 DEF Once, Packets

\* The partition after the last push keeps every packet.
LEMMA OncePush == ASSUME Shape, Once, D!push PROVE Once'
<1>1. /\ burst' = burst /\ Parted(Packets, todo, to_stack, to_free) /\ todo' = todo
      /\ pc' \in {"push", "gro"}
      /\ todo \in Seq(Packets) /\ to_stack \in Seq(Packets) /\ to_free \in Seq(Packets)
  BY DEF D!push, Once, Shape, WorkerTypes
<1>2. Parted(Packets, todo', to_stack', to_free')
  <2>1. CASE UNCHANGED <<to_stack, to_free>>
    BY <1>1, <2>1
  <2>2. CASE D!partition
    <3> DEFINE rest == D!Only(to_stack, D!NotForStack)
    <3>1. /\ D!ToSet(to_stack') = D!ToSet(to_stack) \cap D!ForStack
          /\ Distinct(to_stack') /\ rest \in Seq(Packets) /\ Distinct(rest)
          /\ D!ToSet(rest) = D!ToSet(to_stack) \cap (Packets \ D!ForStack)
      BY <1>1, <2>2, Kept, StackSets DEF D!partition, Parted
    <3>2. to_free' = to_free \o rest
      BY <2>2 DEF D!partition
    <3> HIDE DEF rest
    <3>3. D!ToSet(to_free) \cap D!ToSet(rest) = {}
      BY <1>1, <3>1 DEF Parted
    <3>4. D!ToSet(to_free') = D!ToSet(to_free) \cup D!ToSet(rest) /\ Distinct(to_free')
      BY <1>1, <3>1, <3>2, <3>3, Joined DEF Parted
    <3>5. D!ToSet(to_stack) \subseteq Packets
      BY <1>1, StackSets
    <3> QED BY <1>1, <3>1, <3>4, <3>5 DEF Parted
  <2> QED BY <2>1, <2>2 DEF D!push
<1> QED BY <1>1, <1>2 DEF Once, Packets

\* What gro leaves for the stack: all but the merged packets.
LEMMA GroKeeps ==
    ASSUME Shape, Once, NEW tcp \in SUBSET D!ToSet(to_stack),
           NEW merged \in SUBSET (D!ToSet(to_stack) \ tcp), D!gro(merged, tcp)
    PROVE  /\ D!ToSet(todo') = D!ToSet(to_stack) \ merged /\ Distinct(todo')
           /\ D!ToSet(released') = merged /\ Distinct(released')
<1>1. /\ to_stack \in Seq(Packets) /\ Distinct(to_stack) /\ released = <<>>
      /\ D!ToSet(to_stack) \subseteq Packets
  BY StackSets DEF Shape, WorkerTypes, Fresh, Once, Parted, D!gro
<1> DEFINE a == D!Only(to_stack, tcp)
           b == D!Only(to_stack, DOMAIN burst \ (tcp \cup merged))
           order == a \o b
           tagged == {m \in DOMAIN burst : tag[m] # D!None}
           c == D!Only(order, tagged)
           d == D!Only(order, DOMAIN burst \ tagged)
<1>2. todo' = c \o d
  BY DEF D!gro
<1>3. /\ a \in Seq(Packets) /\ Distinct(a) /\ D!ToSet(a) = tcp
      /\ b \in Seq(Packets) /\ Distinct(b)
      /\ D!ToSet(b) = D!ToSet(to_stack) \cap (Packets \ (tcp \cup merged))
  <2>1. a \in Seq(Packets) /\ Distinct(a) /\ D!ToSet(a) = D!ToSet(to_stack) \cap tcp
    BY <1>1, Kept
  <2>2. /\ b \in Seq(Packets) /\ Distinct(b)
        /\ D!ToSet(b) = D!ToSet(to_stack) \cap (DOMAIN burst \ (tcp \cup merged))
    BY <1>1, Kept
  <2> QED BY <2>1, <2>2 DEF Packets
<1> HIDE DEF a, b
<1>4. order \in Seq(Packets) /\ Distinct(order) /\ D!ToSet(order) = D!ToSet(to_stack) \ merged
  <2>1. D!ToSet(a) \cap D!ToSet(b) = {}
    BY <1>3
  <2>2. order \in Seq(Packets) /\ Distinct(order) /\ D!ToSet(order) = D!ToSet(a) \cup D!ToSet(b)
    BY <1>3, <2>1, Joined
  <2> QED BY <1>1, <1>3, <2>2
<1> HIDE DEF order, tagged
<1>5. /\ c \in Seq(Packets) /\ Distinct(c) /\ D!ToSet(c) = D!ToSet(order) \cap tagged
      /\ d \in Seq(Packets) /\ Distinct(d) /\ D!ToSet(d) = D!ToSet(order) \cap (Packets \ tagged)
  BY <1>4, Kept DEF Packets
<1> HIDE DEF c, d
<1>6. D!ToSet(c) \cap D!ToSet(d) = {}
  BY <1>5
<1>7. D!ToSet(c) \cup D!ToSet(d) = D!ToSet(order)
  <2>1. D!ToSet(order) \subseteq Packets
    BY <1>1, <1>4
  <2> QED BY <1>5, <2>1
<1>8. Distinct(c \o d) /\ D!ToSet(c \o d) = D!ToSet(order)
  BY <1>5, <1>6, <1>7, Joined
<1>9. merged \subseteq Packets /\ IsFiniteSet(merged)
  <2>1. merged \subseteq Packets
    BY <1>1
  <2>2. Packets = 1..Len(burst) /\ Len(burst) \in Nat
    BY BurstPackets DEF Shape, WorkerTypes
  <2>3. IsFiniteSet(Packets)
    BY <2>2, FS_Interval
  <2> QED BY <2>1, <2>3, FS_Subset
<1>10. /\ D!SetToSeq(merged) \in Seq(Packets) /\ Distinct(D!SetToSeq(merged))
       /\ D!ToSet(D!SetToSeq(merged)) = merged
  BY <1>9, Listed
<1>11. released' = D!SetToSeq(merged)
  BY <1>1, <1>10, ConcatEmptySeq DEF D!gro
<1> QED BY <1>2, <1>4, <1>8, <1>10, <1>11

\* What GRO chains to another packet is released with it.
LEMMA OnceGro ==
    ASSUME Shape, Once, NEW tcp \in SUBSET D!ToSet(to_stack),
           NEW merged \in SUBSET (D!ToSet(to_stack) \ tcp), D!gro(merged, tcp)
    PROVE  Once'
<1>1. /\ burst' = burst /\ pc' = "stack" /\ to_free' = to_free
      /\ Parted(Packets, todo, to_stack, to_free) /\ todo = <<>>
  BY DEF D!gro, D!listVars, Once, Shape, Fresh
<1>2. Parted(Packets, todo', to_free', released')
  BY <1>1, GroKeeps, NoElements DEF Parted
<1> QED BY <1>1, <1>2 DEF Once, Packets

\* A packet for the stack is released, and in the end the others.
LEMMA OnceStack == ASSUME Shape, Once, D!stack_dispatch \/ D!free PROVE Once'
<1>1. /\ burst' = burst /\ to_free' = to_free /\ pc = "stack"
      /\ Parted(Packets, todo, to_free, released)
      /\ todo \in Seq(Packets) /\ to_free \in Seq(Packets) /\ released \in Seq(Packets)
  BY DEF D!stack_dispatch, D!free, D!listVars, Once, Shape, WorkerTypes
<1>2. CASE D!stack_dispatch
  <2>1. /\ todo # <<>> /\ todo' = Tail(todo) /\ released' = Append(released, Head(todo))
        /\ pc' = "stack"
    BY <1>1, <1>2 DEF D!stack_dispatch
  <2>2. Parted(Packets, todo', to_free', released')
    BY <1>1, <2>1, PartMoves
  <2> QED BY <1>1, <2>1, <2>2 DEF Once, Packets
<1>3. CASE D!free
  <2>1. todo = <<>> /\ released' = released \o to_free /\ pc' = "done"
    BY <1>3 DEF D!free
  <2>2. Distinct(released') /\ D!ToSet(released') = Packets
    <3>0. D!ToSet(todo) = {}
      BY <2>1, NoElements
    <3>1. /\ Distinct(released) /\ Distinct(to_free)
          /\ D!ToSet(released) \cap D!ToSet(to_free) = {}
          /\ D!ToSet(released) \cup D!ToSet(to_free) = Packets
      BY <1>1, <3>0 DEF Parted
    <3>2. /\ Distinct(released \o to_free)
          /\ D!ToSet(released \o to_free) = D!ToSet(released) \cup D!ToSet(to_free)
      <4>1. released \in Seq(Packets) /\ to_free \in Seq(Packets)
        BY <1>1
      <4> QED BY <3>1, <4>1, Joined
    <3> QED BY <2>1, <3>1, <3>2
  <2> QED BY <1>1, <2>1, <2>2 DEF Once, Packets
<1> QED BY <1>2, <1>3

\* Every packet stays in one place.
LEMMA OnceInvariant == MCSpec => []Once
<1>1. MCInit => Once
  BY DEF MCInit, D!Init, Once
<1>2. Table /\ Shape /\ Once /\ [MCNext]_all => Once'
  <2> SUFFICES ASSUME Table, Shape, Once, [MCNext]_all PROVE Once'
    OBVIOUS
  <2>1. CASE UNCHANGED workerVars
    BY <2>1 DEF workerVars, Once, Packets
  <2>2. CASE D!server
    BY <2>1, <2>2, ServerTouches
  <2>3. CASE D!worker
    <3>1. CASE D!rx_sink_dispatch \/ D!rx_burst_return
      BY <3>1 DEF D!rx_sink_dispatch, D!rx_burst_return, Once
    <3>2. ASSUME NEW packets, D!rx_burst(packets) PROVE Once'
      BY <3>2 DEF D!rx_burst, Once
    <3> QED BY <2>3, <3>1, <3>2, OnceInterfaces, OnceSinks, OnceSort, OncePush, OnceGro, OnceStack
            DEF D!worker
  <2> QED BY <2>1, <2>2, <2>3 DEF MCNext, all, dvars, D!Next, workerVars
<1> QED BY <1>1, <1>2, TableInvariant, ShapeInvariant, PTL DEF MCSpec

\* rx_burst() (worker.cpp) frees each packet of a burst or gives it to the stack, once,
\* however the forwarding table changes meanwhile.
THEOREM NoPacketLeaks == MCSpec => []ReleasedOnce
<1>1. Shape /\ Once => ReleasedOnce
  <2> SUFFICES ASSUME Shape, Once PROVE D!ReleasedOnce
    BY DEF ReleasedOnce
  <2>1. DOMAIN released = 1..Len(released)
    BY LenProperties DEF Shape, WorkerTypes
  <2>2. Distinct(released)
    BY NoElements DEF Shape, Fresh, Once, Parted
  <2>3. pc = "done" => D!ToSet(released) = DOMAIN burst
    BY DEF Once, Packets
  <2> QED BY <2>1, <2>2, <2>3 DEF Distinct, D!ReleasedOnce, D!Done
<1> QED BY <1>1, ShapeInvariant, OnceInvariant, PTL

-----------------------------------------------------------------------------
(* What the sinks get: the right packets, in their order.                   *)

\* A sorted list stays sorted when a greater element is added.
LEMMA SortedMore ==
    ASSUME NEW X, X \subseteq Nat, NEW s \in Seq(X), NEW x \in X, Sorted(s),
           \A y \in D!ToSet(s) : y < x
    PROVE  Sorted(Append(s, x))
<1>1. /\ Len(Append(s, x)) = Len(s) + 1 /\ Append(s, x)[Len(s) + 1] = x
      /\ \A k \in 1..Len(s) : Append(s, x)[k] = s[k]
  BY AppendProperties
<1>2. Len(s) \in Nat /\ \A k \in 1..Len(s) : s[k] \in D!ToSet(s)
  BY Elements
<1> SUFFICES ASSUME NEW j \in 1..(Len(s) + 1), NEW k \in 1..(Len(s) + 1), j < k
             PROVE  Append(s, x)[j] < Append(s, x)[k]
  BY <1>1 DEF Sorted
<1>3. j \in 1..Len(s)
  BY <1>2
<1>4. CASE k = Len(s) + 1
  BY <1>1, <1>2, <1>3, <1>4
<1>5. CASE k \in 1..Len(s)
  BY <1>1, <1>3, <1>5 DEF Sorted
<1> QED BY <1>2, <1>4, <1>5

\* The head of a sorted list comes before the others.
LEMMA SortedTail ==
    ASSUME NEW X, X \subseteq Nat, NEW s \in Seq(X), s # <<>>, Sorted(s)
    PROVE  Sorted(Tail(s)) /\ \A y \in D!ToSet(Tail(s)) : Head(s) < y
<1>1. /\ Tail(s) \in Seq(X) /\ Head(s) = s[1]
      /\ Len(s) \in Nat \ {0} /\ Len(Tail(s)) = Len(s) - 1
      /\ \A i \in 1..(Len(s) - 1) : Tail(s)[i] = s[i + 1]
  BY Taken
<1>2. \A i \in 1..(Len(s) - 1) : i + 1 \in 1..Len(s) /\ 1 < i + 1
  BY <1>1
<1>3. Sorted(Tail(s))
  <2> SUFFICES ASSUME NEW j \in 1..(Len(s) - 1), NEW k \in 1..(Len(s) - 1), j < k
               PROVE  s[j + 1] < s[k + 1]
    BY <1>1 DEF Sorted
  <2>1. j + 1 < k + 1
    BY <1>1
  <2> QED BY <1>2, <2>1 DEF Sorted
<1>4. ASSUME NEW y \in D!ToSet(Tail(s)) PROVE Head(s) < y
  <2>0. \A t \in Seq(X) : y \in D!ToSet(t) => \E i \in 1..Len(t) : y = t[i]
    BY Elements
  <2>1. PICK i \in 1..(Len(s) - 1) : y = Tail(s)[i]
    BY <1>1, <2>0
  <2>2. 1 \in 1..Len(s)
    BY <1>1
  <2> QED BY <1>1, <1>2, <2>1, <2>2 DEF Sorted
<1> QED BY <1>3, <1>4

\* The sinks' lists are sorted.
LEMMA SortedGot ==
    ASSUME got \in [D!Sinks -> Seq(Packets)]
    PROVE  D!SinkOrder <=>
             /\ \A s \in D!Sinks : Sorted(got[s])
             /\ \A i \in Ifs : D!ToSet(got[i]) \subseteq
                   D!addressed(i) \cup D!addressed(D!Multicast)
<1>1. \A s \in D!Sinks : DOMAIN got[s] = 1..Len(got[s])
  BY LenProperties
<1> QED BY <1>1 DEF D!SinkOrder, Sorted

\* Outside of the loops the lists need only stay as they are.
LEMMA OrderedStays ==
    ASSUME Ordered, burst' = burst, got' = got, pc' \notin {"sinks", "push"}
    PROVE  Ordered'
BY DEF Ordered, Filed, D!SinkOrder, D!addressed

\* One packet of the loop in rx_interface_sink_dispatch.
LEMMA LoopStep ==
    ASSUME Table, Shape, D!sinks, todo # <<>>
    PROVE  /\ pc = "sinks" /\ pc' = "sinks" /\ UNCHANGED <<burst, got>>
           /\ Head(todo) \in Packets /\ todo' = Tail(todo)
           /\ last_entry' = LoopEntry(Head(todo))
           /\ last_dst' = IF D!unicast(Head(todo)) THEN burst[Head(todo)].dst ELSE last_dst
           /\ pushed = 0 /\ pushed' = 0
           /\ Len(bursts) = Len(to_stack) /\ Len(to_stack) \in Nat
           /\ \/ /\ D!unicast(Head(todo)) /\ last_entry' = D!NoEntry
                 /\ to_free' = Append(to_free, Head(todo)) /\ UNCHANGED <<to_stack, tag, bursts>>
              \/ /\ D!unicast(Head(todo)) => /\ last_entry' # D!NoEntry
                                             /\ last_entry'.ifp = burst[Head(todo)].dst
                 /\ to_stack' = Append(to_stack, Head(todo)) /\ UNCHANGED to_free
                 /\ Len(bursts') = Len(bursts) + 1
                 /\ \A k \in 1..Len(bursts) : bursts'[k] = bursts[k] /\ to_stack'[k] = to_stack[k]
                 /\ bursts'[Len(bursts) + 1].entry = last_entry'
                 /\ to_stack'[Len(bursts) + 1] = Head(todo)
                 /\ tag' = [tag EXCEPT ![Head(todo)] =
                              IF D!unicast(Head(todo)) THEN last_entry'.ifp ELSE D!None]
<1>1. /\ pc = "sinks" /\ pc' = "sinks" /\ UNCHANGED <<burst, got>> /\ todo' = Tail(todo)
      /\ last_entry' = LoopEntry(Head(todo))
      /\ last_dst' = IF D!unicast(Head(todo)) THEN burst[Head(todo)].dst ELSE last_dst
  BY DEF D!sinks, LoopEntry, D!outVars
<1>2. Head(todo) \in Packets
  BY Taken DEF Shape, WorkerTypes
<1>3. Shape'
  BY ShapeFile
<1>4. /\ Len(bursts) = Len(to_stack) /\ Len(to_stack) \in Nat
      /\ bursts \in Seq([start : Nat, count : {1}, entry : Entries])
      /\ to_stack \in Seq(Packets)
  BY <1>1, LenProperties DEF Shape, Positions, WorkerTypes
<1>5. Len(bursts') = Len(to_stack') /\ Len(to_stack') \in Nat
  BY <1>1, <1>3, LenProperties DEF Shape, Positions, WorkerTypes
<1>6. pushed = 0 /\ pushed' = 0
  BY <1>4, <1>5 DEF pushed
<1>7. CASE D!unicast(Head(todo)) /\ last_entry' = D!NoEntry
  <2>1. to_free' = Append(to_free, Head(todo)) /\ UNCHANGED <<to_stack, tag, bursts>>
    BY <1>1, <1>7 DEF D!sinks, LoopEntry
  <2> QED BY <1>1, <1>2, <1>4, <1>6, <1>7, <2>1
<1>8. CASE ~(D!unicast(Head(todo)) /\ last_entry' = D!NoEntry)
  <2>1. PICK e : e = last_entry'
    OBVIOUS
  <2>2. /\ to_stack' = Append(to_stack, Head(todo)) /\ UNCHANGED to_free
        /\ bursts' = Append(bursts, [start |-> Len(to_stack) + 1, count |-> 1, entry |-> e])
        /\ tag' = [tag EXCEPT ![Head(todo)] = IF D!unicast(Head(todo)) THEN e.ifp ELSE D!None]
    BY <1>1, <1>8, <2>1 DEF D!sinks, LoopEntry
  <2>3. e \in Entries
    BY <1>1, <1>2, <2>1, EntryFound DEF Shape
  <2>4. [start |-> Len(to_stack) + 1, count |-> 1, entry |-> e]
           \in [start : Nat, count : {1}, entry : Entries]
    BY <1>4, <2>3
  <2>5. /\ Len(bursts') = Len(bursts) + 1
        /\ \A k \in 1..Len(bursts) : bursts'[k] = bursts[k]
        /\ bursts'[Len(bursts) + 1].entry = e
    BY <1>4, <2>2, <2>4, AppendProperties
  <2>6. /\ \A k \in 1..Len(to_stack) : to_stack'[k] = to_stack[k]
        /\ to_stack'[Len(to_stack) + 1] = Head(todo)
    BY <1>2, <1>4, <2>2, AppendProperties
  <2>7. D!unicast(Head(todo)) => e # D!NoEntry /\ e.ifp = burst[Head(todo)].dst
    BY <1>1, <1>3, <1>8, <2>1 DEF Shape, Fresh
  <2> QED BY <1>1, <1>2, <1>4, <1>6, <2>1, <2>2, <2>5, <2>6, <2>7
<1> QED BY <1>7, <1>8

\* The loop files the packets in the order of their arrival.
LEMMA OrderedLoop == ASSUME Table, Shape, Ordered, D!sinks PROVE Ordered'
<1>1. pc = "sinks" /\ UNCHANGED <<burst, got>>
  BY DEF D!sinks, D!outVars
<1>2. D!SinkOrder'
  BY <1>1 DEF Ordered, D!SinkOrder, D!addressed
<1>3. CASE todo = <<>>
  <2>1. pc' = "push" /\ UNCHANGED <<to_stack, bursts>> /\ pushed' = pushed
    BY <1>3 DEF D!sinks, D!loopVars, D!listVars, pushed
  <2>2. \A i \in Ifs : D!ToSet(got'[i]) = {}
    BY <1>1, NoElements DEF Shape, Fresh
  <2> QED BY <1>1, <1>2, <2>1, <2>2 DEF Ordered, Filed, D!unicast
<1>4. CASE todo # <<>>
  <2>1. PICK m : m = Head(todo)
    OBVIOUS
  <2>2. Packets \subseteq Nat /\ todo \in Seq(Packets) /\ to_stack \in Seq(Packets)
    BY BurstPackets DEF Shape, WorkerTypes
  <2>3. Sorted(todo) /\ \A x \in D!ToSet(to_stack), y \in D!ToSet(todo) : x < y
    BY <1>1 DEF Ordered, Filed
  <2>4. /\ Sorted(Tail(todo)) /\ D!ToSet(todo) = {m} \cup D!ToSet(Tail(todo))
        /\ \A y \in D!ToSet(Tail(todo)) : m < y
    BY <1>4, <2>1, <2>2, <2>3, Taken, SortedTail
  <2>5. pc' = "sinks" /\ todo' = Tail(todo) /\ m \in Packets /\ pushed = 0 /\ pushed' = 0
        /\ Len(bursts) = Len(to_stack) /\ Len(to_stack) \in Nat
    BY <1>4, <2>1, LoopStep
  <2>6. CASE UNCHANGED <<to_stack, bursts>>
    <3>1. \A x \in D!ToSet(to_stack'), y \in D!ToSet(todo') : x < y
      BY <2>3, <2>4, <2>5, <2>6
    <3> QED BY <1>1, <1>2, <2>4, <2>5, <2>6, <3>1 DEF Ordered, Filed, D!unicast
  <2>7. CASE /\ D!unicast(m) => /\ last_entry' # D!NoEntry /\ last_entry'.ifp = burst[m].dst
             /\ to_stack' = Append(to_stack, m)
             /\ Len(bursts') = Len(bursts) + 1
             /\ \A k \in 1..Len(bursts) : bursts'[k] = bursts[k] /\ to_stack'[k] = to_stack[k]
             /\ bursts'[Len(bursts) + 1].entry = last_entry'
             /\ to_stack'[Len(bursts) + 1] = m
    <3>1. D!ToSet(to_stack') = D!ToSet(to_stack) \cup {m}
      BY <2>2, <2>5, <2>7, Appended
    <3>2. \A x \in D!ToSet(to_stack'), y \in D!ToSet(todo') : x < y
      BY <2>3, <2>4, <2>5, <3>1
    <3>3. Sorted(to_stack')
      <4>1. \A x \in D!ToSet(to_stack) : x < m
        BY <2>3, <2>4
      <4>2. Sorted(to_stack)
        BY <1>1 DEF Ordered, Filed
      <4> QED BY <2>2, <2>5, <2>7, <4>1, <4>2, SortedMore
    <3>4. \A k \in 1..Len(bursts') : D!unicast(to_stack'[pushed' + k]) =>
             /\ bursts'[k].entry # D!NoEntry
             /\ bursts'[k].entry.ifp = burst[to_stack'[pushed' + k]].dst
      <4> SUFFICES ASSUME NEW k \in 1..(Len(bursts) + 1), D!unicast(to_stack'[k])
                   PROVE  /\ bursts'[k].entry # D!NoEntry
                          /\ bursts'[k].entry.ifp = burst[to_stack'[k]].dst
        BY <2>5, <2>7
      <4>1. CASE k = Len(bursts) + 1
        BY <2>7, <4>1
      <4>2. CASE k \in 1..Len(bursts)
        <5>1. \A j \in 1..Len(bursts) : D!unicast(to_stack[j]) =>
                 bursts[j].entry # D!NoEntry /\ bursts[j].entry.ifp = burst[to_stack[j]].dst
          BY <1>1, <2>5 DEF Ordered, Filed
        <5> QED BY <2>7, <4>2, <5>1
      <4> QED BY <2>5, <4>1, <4>2
    <3> QED BY <1>1, <1>2, <2>4, <2>5, <3>2, <3>3, <3>4 DEF Ordered, Filed, D!unicast
  <2> QED BY <1>4, <2>1, <2>6, <2>7, LoopStep
<1> QED BY <1>3, <1>4

\* A burst goes to interfaces' sinks only; a unicast packet only to its own.
LEMMA Receivers ==
    ASSUME Table, Shape, Filed, D!push, bursts # <<>>
    PROVE  /\ D!receivers(bursts[1].entry) \subseteq Ifs
           /\ \A i \in D!receivers(bursts[1].entry) :
                 D!unicast(to_stack[pushed + 1]) => i = burst[to_stack[pushed + 1]].dst
<1>1. bursts[1].entry \in Entries /\ 1 \in 1..Len(bursts)
  BY PushedPacket
<1>2. D!receivers(bursts[1].entry) \subseteq Ifs
  BY <1>1 DEF D!receivers, Entries, Table
<1>3. D!unicast(to_stack[pushed + 1]) =>
         /\ bursts[1].entry # D!NoEntry
         /\ bursts[1].entry.ifp = burst[to_stack[pushed + 1]].dst
  BY <1>1 DEF Filed, D!push
<1>4. \A i \in D!receivers(bursts[1].entry) :
         bursts[1].entry # D!NoEntry => i = bursts[1].entry.ifp
  BY DEF D!receivers
<1> QED BY <1>2, <1>3, <1>4

\* A pushed packet comes after those that the sink has.
LEMMA OrderedPush == ASSUME Table, Shape, Ordered, D!push, bursts # <<>> PROVE Ordered'
<1> DEFINE p == to_stack[pushed + 1]
           R == D!receivers(bursts[1].entry)
<1>1. /\ pc = "push" /\ pc' = "push" /\ UNCHANGED <<burst, to_stack>>
      /\ pushed + 1 \in 1..Len(to_stack) /\ pushed \in Nat /\ pushed' = pushed + 1
      /\ Len(bursts') = Len(bursts) - 1 /\ Len(bursts) \in Nat \ {0}
      /\ \A k \in 1..(Len(bursts) - 1) : bursts'[k] = bursts[k + 1]
      /\ got' = [s \in D!Sinks |-> IF s \in R THEN Append(got[s], p) ELSE got[s]]
  BY PushedPacket DEF D!push
<1>2. /\ Packets \subseteq Nat /\ to_stack \in Seq(Packets) /\ got \in [D!Sinks -> Seq(Packets)]
      /\ \A m \in Packets : burst[m].dst \in Ifs \cup {D!Multicast}
  BY BurstPackets DEF Shape, WorkerTypes
<1>3. p \in Packets
  BY <1>1, <1>2, ElementOfSeq
<1>4. R \subseteq Ifs /\ \A i \in R : D!unicast(p) => i = burst[p].dst
  BY Receivers DEF Ordered
<1>5. Filed /\ D!SinkOrder /\ Sorted(to_stack)
  BY <1>1 DEF Ordered, Filed
<1>6. \A s \in D!Sinks : Sorted(got[s])
  BY <1>2, <1>5, SortedGot
<1>7. \A i \in Ifs : /\ i \in D!Sinks
                     /\ D!ToSet(got[i]) \subseteq D!addressed(i) \cup D!addressed(D!Multicast)
                     /\ \A x \in D!ToSet(got[i]) : \E j \in 1..pushed : x = to_stack[j]
  BY <1>1, <1>2, <1>5 DEF Filed, D!SinkOrder, D!Sinks
<1> HIDE DEF p, R
<1>8. \A i \in R : /\ Append(got[i], p) \in Seq(Packets)
                   /\ D!ToSet(Append(got[i], p)) = D!ToSet(got[i]) \cup {p}
  BY <1>2, <1>3, <1>4, <1>7, Appended
<1>9. ASSUME NEW i \in R PROVE Sorted(Append(got[i], p))
  <2>1. ASSUME NEW x \in D!ToSet(got[i]) PROVE x < p
    <3>1. PICK j \in 1..pushed : x = to_stack[j]
      BY <1>4, <1>7
    <3>2. j \in 1..Len(to_stack) /\ j < pushed + 1
      BY <1>1
    <3> QED BY <1>1, <1>5, <3>1, <3>2 DEF Sorted, p
  <2>2. got[i] \in Seq(Packets) /\ Sorted(got[i])
    BY <1>2, <1>4, <1>6, <1>7
  <2> QED BY <1>2, <1>3, <2>1, <2>2, SortedMore
<1>10. \A s \in D!Sinks : Sorted(got'[s])
  BY <1>1, <1>6, <1>9
<1>11. p \in D!addressed(D!Multicast) \/ \A i \in R : p \in D!addressed(i)
  BY <1>3, <1>4 DEF D!addressed, D!unicast, Packets
<1>17. \A i \in Ifs : \/ D!ToSet(got'[i]) = D!ToSet(got[i])
                      \/ i \in R /\ D!ToSet(got'[i]) = D!ToSet(got[i]) \cup {p}
  <2>1. \A i \in Ifs : got'[i] = IF i \in R THEN Append(got[i], p) ELSE got[i]
    BY <1>1, <1>7
  <2> QED BY <1>8, <2>1
<1>12. \A i \in Ifs : D!ToSet(got'[i]) \subseteq D!addressed(i) \cup D!addressed(D!Multicast)
  BY <1>7, <1>11, <1>17
<1>13. D!SinkOrder'
  <2>1. got' \in [D!Sinks -> Seq(Packets)]
    BY <1>1, <1>2, <1>4, <1>8
  <2>2. \A s \in D!Sinks : DOMAIN got'[s] = 1..Len(got'[s])
    BY <2>1, LenProperties
  <2>3. \A d : D!addressed(d)' = D!addressed(d)
    BY <1>1 DEF D!addressed
  <2> QED BY <1>10, <1>12, <2>2, <2>3 DEF D!SinkOrder, Sorted, D!addressed
<1>14. \A i \in Ifs : \A x \in D!ToSet(got'[i]) : \E j \in 1..pushed' : x = to_stack'[j]
  <2> SUFFICES ASSUME NEW i \in Ifs, NEW x \in D!ToSet(got'[i])
               PROVE  \E j \in 1..(pushed + 1) : x = to_stack[j]
    BY <1>1
  <2>1. x \in D!ToSet(got[i]) \/ x = p
    BY <1>17
  <2>2. CASE x = p
    BY <1>1, <2>2 DEF p
  <2>3. CASE x \in D!ToSet(got[i])
    <3>1. PICK j \in 1..pushed : x = to_stack[j]
      BY <1>7, <2>3
    <3>2. j \in 1..(pushed + 1)
      BY <1>1
    <3> QED BY <3>1, <3>2
  <2> QED BY <2>1, <2>2, <2>3
<1>15. \A k \in 1..Len(bursts') : D!unicast(to_stack[pushed' + k]) =>
          /\ bursts'[k].entry # D!NoEntry
          /\ bursts'[k].entry.ifp = burst[to_stack[pushed' + k]].dst
  <2> SUFFICES ASSUME NEW k \in 1..(Len(bursts) - 1), D!unicast(to_stack[pushed' + k])
               PROVE  /\ bursts[k + 1].entry # D!NoEntry
                      /\ bursts[k + 1].entry.ifp = burst[to_stack[pushed' + k]].dst
    BY <1>1
  <2>1. pushed' + k = pushed + (k + 1) /\ k + 1 \in 1..Len(bursts)
    BY <1>1
  <2>2. \A j \in 1..Len(bursts) : D!unicast(to_stack[pushed + j]) =>
           /\ bursts[j].entry # D!NoEntry
           /\ bursts[j].entry.ifp = burst[to_stack[pushed + j]].dst
    BY <1>1, <1>5 DEF Filed
  <2> QED BY <2>1, <2>2
<1>16. Filed'
  BY <1>1, <1>5, <1>14, <1>15 DEF Filed, D!unicast
<1> QED BY <1>13, <1>16 DEF Ordered

\* Sinks get the right packets in their order, always.
LEMMA OrderedInvariant == MCSpec => []Ordered
<1>1. MCInit => Ordered
  <2> SUFFICES ASSUME MCInit PROVE Ordered
    OBVIOUS
  <2>1. pc = "idle" /\ got = [s \in D!Sinks |-> <<>>]
    BY DEF MCInit, D!Init
  <2>2. \A i \in Ifs : i \in D!Sinks
    BY DEF D!Sinks
  <2> QED BY <2>1, <2>2, NoElements DEF Ordered, Filed, D!SinkOrder
<1>2. Table /\ Shape /\ Shape' /\ Ordered /\ [MCNext]_all => Ordered'
  <2> SUFFICES ASSUME Table, Shape, Shape', Ordered, [MCNext]_all PROVE Ordered'
    OBVIOUS
  <2>1. CASE UNCHANGED workerVars
    BY <2>1 DEF workerVars, Ordered, Filed, D!SinkOrder, D!addressed, D!unicast, pushed
  <2>2. CASE D!server
    BY <2>1, <2>2, ServerTouches
  <2>3. CASE D!worker
    <3>1. ASSUME NEW packets, D!rx_burst(packets) PROVE Ordered'
      <4>1. pc = "idle" /\ pc' = "port" /\ got' = got
        BY <3>1 DEF D!rx_burst, D!outVars
      <4>2. \A s \in D!Sinks : got[s] = <<>>
        BY <4>1 DEF Shape, Fresh, D!Sinks
      <4>3. \A i \in Ifs : D!ToSet(got[i]) = {}
        BY <4>2, NoElements DEF D!Sinks
      <4> QED BY <4>1, <4>2, <4>3 DEF Ordered, Filed, D!SinkOrder
    <3>2. CASE D!rx_sink_dispatch
      <4>1. pc = "port" /\ pc' = "interfaces" /\ burst' = burst
        BY <3>2 DEF D!rx_sink_dispatch
      <4>2. /\ got \in [D!Sinks -> Seq(Packets)] /\ got' \in [D!Sinks -> Seq(Packets)]
            /\ D!Port \notin Ifs /\ burst \in Seq(Kinds) /\ burst' \in Seq(Kinds)
        BY <4>1, DispatchConstants DEF Shape, WorkerTypes, Packets
      <4>3. /\ \A i \in Ifs : got'[i] = got[i]
            /\ got'[D!Port] = got[D!Port] \/ got'[D!Port] = D!all
        BY <3>2, <4>2 DEF D!rx_sink_dispatch, D!Sinks
      <4>4. Sorted(D!all) /\ \A s \in D!Sinks : Sorted(got[s])
        BY <4>2, BurstPackets, SortedGot DEF Ordered
      <4>5. \A s \in D!Sinks : Sorted(got'[s]) /\ DOMAIN got'[s] = 1..Len(got'[s])
        BY <4>2, <4>3, <4>4, LenProperties DEF D!Sinks
      <4> QED BY <4>1, <4>3, <4>5 DEF Ordered, Filed, D!SinkOrder, D!addressed, Sorted
    <3>3. ASSUME NEW flag, D!check_interfaces(flag) PROVE Ordered'
      BY <3>3, OrderedStays DEF D!check_interfaces
    <3>4. CASE D!check_sinks
      <4>1. burst' = burst /\ got' = got /\ pc = "count"
        BY <3>4 DEF D!check_sinks, D!outVars
      <4>2. CASE pc' = "sinks"
        <5>1. todo' = D!all /\ to_stack' = <<>> /\ bursts' = <<>>
          BY <3>4, <4>1, <4>2 DEF D!check_sinks, Shape, Fresh
        <5>2. Sorted(todo') /\ Sorted(to_stack') /\ D!ToSet(to_stack') = {} /\ Len(bursts') = 0
          BY <5>1, BurstPackets, NoElements DEF Shape, WorkerTypes
        <5> QED BY <4>1, <4>2, <5>2 DEF Ordered, Filed, D!SinkOrder, D!addressed
      <4> QED BY <3>4, <4>1, <4>2, OrderedStays DEF D!check_sinks
    <3>5. CASE D!resolve
      BY <3>5, OrderedStays DEF D!resolve, D!outVars
    <3>6. CASE D!push /\ bursts = <<>>
      BY <3>6, OrderedStays DEF D!push
    <3>7. ASSUME NEW merged, NEW tcp, D!gro(merged, tcp) PROVE Ordered'
      BY <3>7, OrderedStays DEF D!gro
    <3>8. CASE D!stack_dispatch \/ D!free
      BY <3>8, OrderedStays DEF D!stack_dispatch, D!free
    <3>9. CASE D!rx_burst_return
      <4>1. pc' = "idle" /\ \A s \in D!Sinks : got'[s] = <<>>
        BY <3>9 DEF D!rx_burst_return
      <4>2. \A i \in Ifs : D!ToSet(got'[i]) = {}
        BY <4>1, NoElements DEF D!Sinks
      <4> QED BY <4>1, <4>2 DEF Ordered, Filed, D!SinkOrder
    <3> QED BY <2>3, <3>1, <3>2, <3>3, <3>4, <3>5, <3>6, <3>7, <3>8, <3>9, OrderedLoop,
               OrderedPush DEF D!worker
  <2> QED BY <2>1, <2>2, <2>3 DEF MCNext, all, dvars, D!Next, workerVars
<1> QED BY <1>1, <1>2, TableInvariant, ShapeInvariant, PTL DEF MCSpec

-----------------------------------------------------------------------------
(* What the sinks get: all packets that are for them.                       *)

\* The worker forgets no touch during a burst.
LEMMA WorkerTouches ==
    ASSUME D!worker, pc \notin {"idle", "done"} PROVE touched \subseteq touched'
BY DEF D!worker, D!rx_burst, D!rx_sink_dispatch, D!check_interfaces, D!check_sinks,
       D!resolve, D!sinks, D!push, D!gro, D!stack_dispatch, D!free, D!rx_burst_return,
       D!histVars

\* Nobody becomes a live sink during a burst.
LEMMA LiveBefore ==
    ASSUME Table, (D!server /\ pc # "idle") \/ (D!worker /\ pc \notin {"idle", "done"}),
           NEW i \in Ifs, Live(i)'
    PROVE  Live(i)
<1>1. CASE D!server /\ pc # "idle"
  BY <1>1, ServerTouches DEF Live
<1>2. CASE D!worker /\ pc \notin {"idle", "done"}
  BY <1>2, WorkerTouches, WorkerKeepsTable DEF Live, D!tableVars
<1> QED BY <1>1, <1>2

\* The loop finds the entry of a live sink.
LEMMA FedLoop ==
    ASSUME Table, Shape, NEW i \in Ifs, Live(i), Fed(i), D!sinks
    PROVE  Fed(i)'
<1>1. pc = "sinks" /\ UNCHANGED <<burst, got>>
  BY DEF D!sinks, D!outVars
<1>2. CASE todo = <<>>
  <2>1. /\ pc' = "push" /\ UNCHANGED <<to_stack, to_free, bursts>> /\ pushed' = pushed
    BY <1>2 DEF D!sinks, D!loopVars, D!listVars, pushed
  <2>2. Len(bursts) = Len(to_stack) /\ Len(to_stack) \in Nat
    BY <1>1, LenProperties DEF Shape, Positions, WorkerTypes
  <2>3. pushed = 0
    BY <2>2 DEF pushed
  <2> QED BY <1>1, <2>1, <2>3 DEF Fed, D!addressed
<1>3. CASE todo # <<>>
  <2> DEFINE m == Head(todo)
             mine == [ifp |-> i, sink |-> TRUE]
  <2>1. /\ pc' = "sinks" /\ m \in Packets /\ last_entry' = LoopEntry(m)
        /\ last_dst' = IF D!unicast(m) THEN burst[m].dst ELSE last_dst
        /\ pushed = 0 /\ pushed' = 0 /\ Len(bursts) = Len(to_stack) /\ Len(to_stack) \in Nat
    BY <1>3, LoopStep
  <2>2. i # D!Multicast /\ i # D!None /\ mine # D!NoEntry
    BY DispatchConstants DEF D!NoEntry
  <2>3. burst[m].dst = i => D!unicast(m) /\ LoopEntry(m) = mine
    BY <1>1, <2>2 DEF D!unicast, LoopEntry, D!entry_of, D!find_interface_and_sinks, Live, Table,
                      Fed
  <2>4. last_dst' = i => last_entry' = mine
    <3>1. CASE D!unicast(m)
      BY <2>1, <2>3, <3>1
    <3>2. CASE ~D!unicast(m)
      BY <1>1, <2>1, <3>2 DEF LoopEntry, Fed
    <3> QED BY <3>1, <3>2
  <2>5. CASE /\ D!unicast(m) /\ last_entry' = D!NoEntry
             /\ to_free' = Append(to_free, m) /\ UNCHANGED <<to_stack, tag, bursts>>
    <3>1. D!ToSet(to_free') = D!ToSet(to_free) \cup {m}
      BY <2>1, <2>5, Appended DEF Shape, WorkerTypes
    <3>2. m \notin D!addressed(i)
      BY <2>1, <2>2, <2>3, <2>5 DEF D!addressed
    <3>3. D!addressed(i) \cap D!ToSet(to_free') = {}
      BY <1>1, <3>1, <3>2 DEF Fed
    <3>4. D!addressed(i)' = D!addressed(i)
      BY <1>1 DEF D!addressed
    <3>5. \A k \in 1..Len(bursts') :
             burst'[to_stack'[pushed' + k]].dst = i => bursts'[k].entry.sink = TRUE
      BY <1>1, <2>1, <2>5 DEF Fed
    <3> QED BY <2>1, <2>4, <3>3, <3>4, <3>5 DEF Fed
  <2>6. CASE /\ UNCHANGED to_free /\ Len(bursts') = Len(bursts) + 1
             /\ \A k \in 1..Len(bursts) : bursts'[k] = bursts[k] /\ to_stack'[k] = to_stack[k]
             /\ bursts'[Len(bursts) + 1].entry = last_entry'
             /\ to_stack'[Len(bursts) + 1] = m
    <3>1. ASSUME NEW k \in 1..(Len(bursts) + 1), burst[to_stack'[k]].dst = i
          PROVE  bursts'[k].entry.sink = TRUE
      <4>1. CASE k = Len(bursts) + 1
        BY <2>1, <2>3, <2>6, <3>1, <4>1
      <4>2. CASE k \in 1..Len(bursts)
        <5>1. \A j \in 1..Len(bursts) : burst[to_stack[j]].dst = i => bursts[j].entry.sink = TRUE
          BY <1>1, <2>1 DEF Fed
        <5>2. bursts'[k] = bursts[k] /\ to_stack'[k] = to_stack[k]
          BY <2>6, <4>2
        <5> QED BY <3>1, <4>2, <5>1, <5>2
      <4>3. k \in 1..Len(bursts) \/ k = Len(bursts) + 1
        BY <2>1
      <4> QED BY <4>1, <4>2, <4>3
    <3>2. \A k \in 1..Len(bursts') :
             burst'[to_stack'[pushed' + k]].dst = i => bursts'[k].entry.sink = TRUE
      <4>1. \A k \in 1..(Len(bursts) + 1) : pushed' + k = k
        BY <2>1
      <4> QED BY <1>1, <2>6, <3>1, <4>1
    <3>3. D!addressed(i)' \cap D!ToSet(to_free') = {}
      BY <1>1, <2>6 DEF Fed, D!addressed
    <3> QED BY <2>1, <2>4, <3>2, <3>3 DEF Fed
  <2> HIDE DEF m
  <2> QED BY <1>3, <2>5, <2>6, LoopStep DEF m
<1> QED BY <1>2, <1>3

\* A live sink gets what is pushed for it; when all is pushed it has all.
LEMMA FedPush ==
    ASSUME Table, Shape, Once, Ordered, NEW i \in Ifs, Live(i), Fed(i), D!push
    PROVE  Fed(i)'
<1>1. pc = "push" /\ UNCHANGED burst
  BY DEF D!push
<1>2. CASE bursts = <<>>
  <2>1. pc' = "gro" /\ got' = got
    BY <1>2 DEF D!push
  <2>2. D!addressed(i) \subseteq D!ToSet(got[i])
    <3> SUFFICES ASSUME NEW x \in D!addressed(i) PROVE x \in D!ToSet(got[i])
      OBVIOUS
    <3>1. x \in Packets /\ burst[x].dst = i
      BY DEF D!addressed, Packets
    <3>2. D!ToSet(todo) = {} /\ Parted(Packets, todo, to_stack, to_free)
      BY <1>1, NoElements DEF Shape, Fresh, Once
    <3>3. x \in D!ToSet(to_stack)
      BY <1>1, <3>1, <3>2 DEF Parted, Fed
    <3>4. to_stack \in Seq(Packets)
      BY DEF Shape, WorkerTypes
    <3>5. PICK j \in 1..Len(to_stack) : x = to_stack[j]
      BY <3>3, <3>4, Elements
    <3>6. Len(bursts) = 0 /\ Len(to_stack) \in Nat
      BY <1>2, <3>4, NoElements, LenProperties, EmptySeq
    <3>7. pushed = Len(to_stack)
      BY <3>6 DEF pushed
    <3> QED BY <1>1, <3>1, <3>5, <3>7 DEF Fed
  <2> QED BY <1>1, <2>1, <2>2 DEF Fed, D!addressed
<1>3. CASE bursts # <<>>
  <2> DEFINE p == to_stack[pushed + 1]
             R == D!receivers(bursts[1].entry)
  <2>1. /\ pc' = "push" /\ UNCHANGED <<to_stack, to_free>>
        /\ pushed + 1 \in 1..Len(to_stack) /\ pushed \in Nat /\ pushed' = pushed + 1
        /\ Len(bursts') = Len(bursts) - 1 /\ Len(bursts) \in Nat \ {0}
        /\ \A k \in 1..(Len(bursts) - 1) : bursts'[k] = bursts[k + 1]
        /\ got' = [s \in D!Sinks |-> IF s \in R THEN Append(got[s], p) ELSE got[s]]
    BY <1>1, <1>3, PushedPacket
  <2>2. /\ to_stack \in Seq(Packets) /\ got[i] \in Seq(Packets) /\ i \in D!Sinks
        /\ i # D!Multicast
    BY DispatchConstants DEF Shape, WorkerTypes, D!Sinks
  <2>3. p \in Packets
    BY <2>1, <2>2, ElementOfSeq
  <2>4. D!ToSet(Append(got[i], p)) = D!ToSet(got[i]) \cup {p}
    BY <2>2, <2>3, Appended
  <2>5. burst[p].dst = i => i \in R
    <3> SUFFICES ASSUME burst[p].dst = i PROVE i \in R
      OBVIOUS
    <3>1. 1 \in 1..Len(bursts) /\ D!unicast(p)
      BY <2>1, <2>2 DEF D!unicast
    <3>2. bursts[1].entry # D!NoEntry /\ bursts[1].entry.ifp = i
      BY <1>1, <3>1 DEF Ordered, Filed
    <3>3. bursts[1].entry.sink = TRUE
      BY <1>1, <3>1 DEF Fed
    <3> QED BY <3>2, <3>3 DEF D!receivers, Live
  <2>6. got'[i] = IF i \in R THEN Append(got[i], p) ELSE got[i]
    BY <2>1, <2>2
  <2>7. ASSUME NEW j \in 1..(pushed + 1), burst[to_stack[j]].dst = i
        PROVE  to_stack[j] \in D!ToSet(got'[i])
    <3>1. CASE j = pushed + 1
      BY <2>4, <2>5, <2>6, <2>7, <3>1
    <3>2. CASE j \in 1..pushed
      <4>1. to_stack[j] \in D!ToSet(got[i])
        BY <1>1, <2>7, <3>2 DEF Fed
      <4> QED BY <2>4, <2>6, <4>1
    <3> QED BY <2>1, <3>1, <3>2
  <2>8. ASSUME NEW k \in 1..(Len(bursts) - 1), burst[to_stack[pushed' + k]].dst = i
        PROVE  bursts'[k].entry.sink = TRUE
    <3>1. pushed' + k = pushed + (k + 1) /\ k + 1 \in 1..Len(bursts)
      BY <2>1
    <3>2. bursts[k + 1].entry.sink = TRUE
      BY <1>1, <2>8, <3>1 DEF Fed
    <3> QED BY <2>1, <3>2
  <2>9. D!addressed(i)' \cap D!ToSet(to_free') = {}
    BY <1>1, <2>1 DEF Fed, D!addressed
  <2> HIDE DEF p, R
  <2> QED BY <1>1, <2>1, <2>7, <2>8, <2>9 DEF Fed
<1> QED BY <1>2, <1>3

\* Every step of the worker feeds a live sink.
LEMMA FedWorker ==
    ASSUME Table, Shape, Shape', Once, Ordered, D!worker, NEW i \in Ifs, Live(i), Fed(i)
    PROVE  Fed(i)'
<1>1. CASE pc' \in {"idle", "port", "interfaces", "count"}
  BY <1>1 DEF Fed
<1>2. ASSUME NEW flag, D!check_interfaces(flag) PROVE Fed(i)'
  BY <1>1, <1>2 DEF D!check_interfaces, Live, Table
<1>3. CASE D!check_sinks
  <2>1. pc = "count" /\ last_dst' = D!None /\ to_stack' = <<>> /\ bursts' = <<>>
    BY <1>3 DEF D!check_sinks, Shape, Fresh
  <2>2. sink_count > 0
    <3>1. sink_count = 0 => rx_sinks \subseteq {update}
      BY NoneCounted
    <3>2. sink_count # 0
      BY <2>1, <3>1, DispatchConstants DEF Shape, Fresh, Live
    <3> QED BY <3>2 DEF Table
  <2>3. pc' = "sinks" /\ to_free' = <<>>
    BY <1>3, <2>1, <2>2 DEF D!check_sinks, Shape, Fresh
  <2>4. D!ToSet(to_free') = {} /\ Len(bursts') = 0 /\ i # D!None
    BY <2>1, <2>3, NoElements, DispatchConstants
  <2> QED BY <2>1, <2>3, <2>4 DEF Fed
<1>4. CASE D!resolve
  BY <1>4 DEF D!resolve, Fed
<1>5. ASSUME NEW merged, NEW tcp, D!gro(merged, tcp) PROVE Fed(i)'
  BY <1>5 DEF D!gro, Fed, D!addressed
<1>6. CASE D!stack_dispatch \/ D!free
  BY <1>6 DEF D!stack_dispatch, D!free, Fed, D!addressed
<1>7. CASE D!rx_sink_dispatch \/ D!rx_burst_return
  BY <1>1, <1>7 DEF D!rx_sink_dispatch, D!rx_burst_return
<1>8. ASSUME NEW packets, D!rx_burst(packets) PROVE Fed(i)'
  BY <1>1, <1>8 DEF D!rx_burst
<1> QED BY <1>2, <1>3, <1>4, <1>5, <1>6, <1>7, <1>8, FedLoop, FedPush DEF D!worker

\* After its turn the port's sink keeps what it got.
LEMMA PortSinkKept ==
    ASSUME Table, Shape, Ordered, D!worker, pc' \notin {"idle", "port", "interfaces"}
    PROVE  got'[D!Port] = got[D!Port] /\ burst' = burst /\ pc \notin {"idle", "port", "done"}
<1>1. D!Port \in D!Sinks /\ D!Port \notin Ifs
  BY DispatchConstants DEF D!Sinks
<1>2. CASE D!push
  <2>1. pc = "push" /\ burst' = burst
    BY <1>2 DEF D!push
  <2>2. CASE bursts = <<>>
    BY <1>2, <2>1, <2>2 DEF D!push
  <2>3. CASE bursts # <<>>
    <3>1. D!Port \notin D!receivers(bursts[1].entry)
      BY <1>1, <1>2, <2>3, Receivers DEF Ordered
    <3> QED BY <1>1, <1>2, <2>1, <2>3, <3>1, PushedPacket
  <2> QED BY <2>2, <2>3
<1>3. CASE D!worker /\ ~D!push
  BY <1>3 DEF D!worker, D!rx_burst, D!rx_sink_dispatch, D!check_interfaces, D!check_sinks,
       D!resolve, D!sinks, D!gro, D!stack_dispatch, D!free, D!rx_burst_return, D!outVars
<1> QED BY <1>2, <1>3

\* The port's sink gets the packets first.
LEMMA PortFedWorker == ASSUME Table, Shape, Ordered, PortFed, D!worker PROVE PortFed'
<1>1. CASE pc' \in {"idle", "port"}
  BY <1>1 DEF PortFed
<1>2. CASE pc' = "interfaces"
  <2>1. D!rx_sink_dispatch
    BY <1>2 DEF D!worker, D!rx_burst, D!check_interfaces, D!check_sinks, D!resolve, D!sinks,
         D!push, D!gro, D!stack_dispatch, D!free, D!rx_burst_return
  <2>2. /\ got \in [D!Sinks -> Seq(Packets)] /\ D!Port \in D!Sinks /\ D!all' = D!all
        /\ UNCHANGED <<port_sink, inactive, touched>>
    BY <2>1 DEF Shape, WorkerTypes, D!Sinks, D!rx_sink_dispatch, D!all, D!tableVars, D!histVars
  <2>3. port_sink /\ D!Port \notin inactive => got'[D!Port] = D!all
    BY <2>1, <2>2 DEF D!rx_sink_dispatch
  <2> QED BY <2>2, <2>3 DEF PortFed
<1>3. CASE pc' \notin {"idle", "port", "interfaces"}
  <2>1. got'[D!Port] = got[D!Port] /\ D!all' = D!all /\ pc \notin {"idle", "port", "done"}
    BY <1>3, PortSinkKept DEF D!all
  <2>2. touched \subseteq touched' /\ UNCHANGED <<port_sink, inactive>>
    BY <2>1, WorkerTouches, WorkerKeepsTable DEF D!tableVars
  <2> QED BY <2>1, <2>2 DEF PortFed
<1> QED BY <1>1, <1>2, <1>3

\* Live sinks and the port's sink miss nothing.
LEMMA CompleteInvariant == MCSpec => []Complete
<1>1. MCInit => Complete
  BY DEF MCInit, D!Init, Complete, PortFed, Fed
<1>2. Table /\ Shape /\ Shape' /\ Once /\ Ordered /\ Complete /\ [MCNext]_all => Complete'
  <2> SUFFICES ASSUME Table, Shape, Shape', Once, Ordered, Complete, [MCNext]_all
               PROVE  Complete'
    OBVIOUS
  <2>0. PortFed /\ \A i \in Ifs : Live(i) => Fed(i)
    BY DEF Complete
  <2>1. CASE UNCHANGED dvars
    BY <2>1 DEF dvars, Complete, PortFed, Fed, Live, pushed, D!addressed, D!all
  <2>2. CASE D!server
    <3>1. UNCHANGED workerVars
      BY <2>2, ServerTouches
    <3>2. \A i \in Ifs : Fed(i) => Fed(i)'
      BY <3>1 DEF workerVars, Fed, pushed, D!addressed
    <3>3. CASE pc = "idle"
      BY <3>1, <3>3 DEF workerVars, Complete, PortFed, Fed
    <3>4. CASE pc # "idle"
      <4>1. \A i \in Ifs : Live(i)' => Live(i)
        BY <2>2, <3>4, LiveBefore
      <4>2. PortFed'
        <5>1. D!all' = D!all /\ got' = got /\ pc' = pc
          BY <3>1 DEF workerVars, D!all
        <5> QED BY <2>0, <2>2, <3>4, <5>1, ServerTouches DEF PortFed
      <4>3. \A i \in Ifs : Live(i)' => Fed(i)'
        BY <2>0, <3>2, <4>1
      <4> QED BY <4>2, <4>3 DEF Complete
    <3> QED BY <3>3, <3>4
  <2>3. CASE D!worker
    <3>1. PortFed'
      BY <2>0, <2>3, PortFedWorker
    <3>2. ASSUME NEW i \in Ifs, Live(i)' PROVE Fed(i)'
      <4>1. CASE pc \in {"idle", "done"}
        <5>1. pc' \in {"idle", "port"}
          BY <2>3, <4>1 DEF D!worker, D!rx_burst, D!rx_sink_dispatch, D!check_interfaces,
               D!check_sinks, D!resolve, D!sinks, D!push, D!gro, D!stack_dispatch, D!free,
               D!rx_burst_return
        <5> QED BY <5>1 DEF Fed
      <4>2. CASE pc \notin {"idle", "done"}
        <5>1. Live(i)
          BY <2>3, <3>2, <4>2, LiveBefore
        <5> QED BY <2>0, <2>3, <5>1, FedWorker
      <4> QED BY <4>1, <4>2
    <3> QED BY <3>1, <3>2 DEF Complete
  <2> QED BY <2>1, <2>2, <2>3 DEF MCNext, all, D!Next
<1> QED BY <1>1, <1>2, TableInvariant, ShapeInvariant, OnceInvariant, OrderedInvariant, PTL
        DEF MCSpec

-----------------------------------------------------------------------------
(* What the stack gets.                                                     *)

\* No interface appears during a burst and counts as one that was there.
LEMMA PresentBefore ==
    ASSUME Table, (D!server /\ pc # "idle") \/ (D!worker /\ pc \notin {"idle", "done"}),
           NEW i \in Ifs, Present(i)'
    PROVE  Present(i)
<1>1. CASE D!server /\ pc # "idle"
  BY <1>1, ServerTouches DEF Present
<1>2. CASE D!worker /\ pc \notin {"idle", "done"}
  BY <1>2, WorkerTouches, WorkerKeepsTable DEF Present, D!tableVars
<1> QED BY <1>1, <1>2

\* Interfaces that are present are interfaces.
LEMMA PresentIf == ASSUME Table, NEW d, Present(d) PROVE d \in Ifs
BY DEF Table, Present

\* The loop of rx_resolve_interfaces.
LEMMA SiftedResolve ==
    ASSUME Table, Shape, Sifted, D!resolve PROVE Sifted'
<1>1. pc = "resolve" /\ UNCHANGED <<burst, tags_trusted, m_interfaces, touched>>
      /\ D!ForStack' = D!ForStack
  BY DEF D!resolve, D!tableVars, D!histVars, D!ForStack, D!for_stack
<1>2. CASE todo = <<>>
  <2>1. pc' = "gro" /\ UNCHANGED <<todo, to_stack, to_free, tag>>
    BY <1>2 DEF D!resolve, D!listVars
  <2> QED BY <1>1, <2>1 DEF Sifted, Present
<1>3. CASE todo # <<>>
  <2> DEFINE m == Head(todo)
  <2>1. /\ m \in Packets /\ D!ToSet(todo) = {m} \cup D!ToSet(Tail(todo))
        /\ todo' = Tail(todo) /\ pc' = "resolve"
    BY <1>1, <1>3, Taken DEF Shape, WorkerTypes, D!resolve
  <2>2. /\ to_stack \in Seq(Packets) /\ to_free \in Seq(Packets)
        /\ tag \in [Packets -> Ifs \cup {D!None}]
        /\ burst[m].dst \in Ifs \cup {D!Multicast}
        /\ D!None \notin Ifs
    BY <2>1, BurstPackets, DispatchConstants DEF Shape, WorkerTypes
  <2>3. /\ m \in D!ForStack /\ D!ToSet(todo') \subseteq D!ForStack
        /\ D!ToSet(to_stack) \subseteq D!ForStack
        /\ \A x \in D!ToSet(to_stack) : tag[x] = D!None => burst[x].dst = D!Multicast
        /\ \A x \in D!ToSet(to_free) : x \in D!ForStack =>
              burst[x].dst # D!Multicast /\ ~Present(burst[x].dst)
    BY <1>1, <2>1 DEF Sifted
  <2>4. CASE /\ D!unicast(m) /\ burst[m].dst \notin m_interfaces
             /\ to_free' = Append(to_free, m) /\ UNCHANGED <<to_stack, tag>>
    <3>1. D!ToSet(to_free') = D!ToSet(to_free) \cup {m}
      BY <2>1, <2>2, <2>4, Appended
    <3>2. burst[m].dst # D!Multicast /\ ~Present(burst[m].dst)
      BY <2>4 DEF D!unicast, Present
    <3>3. \A x \in D!ToSet(to_free') : x \in D!ForStack' =>
             burst'[x].dst # D!Multicast /\ ~Present(burst[x].dst)'
      BY <1>1, <2>3, <3>1, <3>2 DEF Present
    <3> QED BY <1>1, <2>1, <2>3, <2>4, <3>3 DEF Sifted
  <2>5. CASE /\ to_stack' = Append(to_stack, m) /\ UNCHANGED to_free
             /\ tag' = [tag EXCEPT ![m] = IF D!unicast(m) THEN burst[m].dst ELSE D!None]
    <3>1. D!ToSet(to_stack') = D!ToSet(to_stack) \cup {m}
      BY <2>1, <2>2, <2>5, Appended
    <3>2. tag'[m] = D!None => burst[m].dst = D!Multicast
      BY <2>1, <2>2, <2>5 DEF D!unicast
    <3>3. \A x \in Packets : x # m => tag'[x] = tag[x]
      BY <2>1, <2>2, <2>5
    <3>4. D!ToSet(to_stack) \subseteq Packets
      BY <2>2, StackSets
    <3>5. \A x \in D!ToSet(to_stack') : tag'[x] = D!None => burst'[x].dst = D!Multicast
      BY <1>1, <2>3, <3>1, <3>2, <3>3, <3>4
    <3>6. D!ToSet(to_stack') \subseteq D!ForStack'
      BY <1>1, <2>3, <3>1
    <3> QED BY <1>1, <2>1, <2>3, <2>5, <3>5, <3>6 DEF Sifted, Present
  <2> HIDE DEF m
  <2> QED BY <1>3, <2>4, <2>5 DEF D!resolve, m
<1> QED BY <1>2, <1>3

\* A packet whose interface is there finds its entry.
LEMMA LoopFinds ==
    ASSUME Table, Shape, Sifted, pc = "sinks", NEW m \in Packets, D!unicast(m),
           Present(burst[m].dst)
    PROVE  LoopEntry(m) # D!NoEntry
<1>1. burst[m].dst \in Ifs /\ D!None \notin Ifs /\ burst[m].dst \in m_interfaces
  BY PresentIf, DispatchConstants DEF Present
<1>2. CASE burst[m].dst = last_dst
  BY <1>2 DEF Sifted, LoopEntry, D!entry_of
<1>3. CASE burst[m].dst # last_dst
  <2>1. LoopEntry(m) = [ifp |-> burst[m].dst, sink |-> burst[m].dst \in rx_sinks]
    BY <1>1, <1>3 DEF LoopEntry, D!entry_of, D!find_interface_and_sinks
  <2>2. LoopEntry(m).ifp # D!NoEntry.ifp
    BY <1>1, <2>1 DEF D!NoEntry
  <2> QED BY <2>2
<1> QED BY <1>2, <1>3

\* The loop of rx_interface_sink_dispatch.
LEMMA SiftedLoop == ASSUME Table, Shape, Sifted, D!sinks PROVE Sifted'
<1>1. pc = "sinks" /\ UNCHANGED <<burst, tags_trusted, m_interfaces, touched>>
      /\ D!ForStack' = D!ForStack
  BY DEF D!sinks, D!tableVars, D!histVars, D!ForStack, D!for_stack
<1>2. CASE todo = <<>>
  <2>1. pc' = "push" /\ UNCHANGED <<to_stack, to_free, tag>>
    BY <1>2 DEF D!sinks, D!listVars
  <2> QED BY <1>1, <2>1 DEF Sifted, Present
<1>3. CASE todo # <<>>
  <2> DEFINE m == Head(todo)
  <2>1. /\ pc' = "sinks" /\ m \in Packets /\ last_entry' = LoopEntry(m)
        /\ last_dst' = IF D!unicast(m) THEN burst[m].dst ELSE last_dst
    BY <1>3, LoopStep
  <2>2. /\ to_stack \in Seq(Packets) /\ to_free \in Seq(Packets)
        /\ tag \in [Packets -> Ifs \cup {D!None}]
        /\ burst[m].dst \in Ifs \cup {D!Multicast}
        /\ D!None \notin Ifs
    BY <2>1, BurstPackets, DispatchConstants DEF Shape, WorkerTypes
  <2>3. /\ \A x \in D!ToSet(to_stack) : tag[x] = D!None => burst[x].dst = D!Multicast
        /\ \A x \in D!ToSet(to_free) : x \in D!ForStack =>
              burst[x].dst # D!Multicast /\ ~Present(burst[x].dst)
        /\ Present(last_dst) => last_entry # D!NoEntry
    BY <1>1 DEF Sifted
  <2>4. D!unicast(m) /\ Present(burst[m].dst) => last_entry' # D!NoEntry
    BY <1>1, <2>1, LoopFinds
  <2>5. Present(last_dst)' => last_entry' # D!NoEntry
    <3>1. CASE D!unicast(m)
      BY <1>1, <2>1, <2>4, <3>1 DEF Present
    <3>2. CASE ~D!unicast(m)
      BY <1>1, <2>1, <2>3, <3>2 DEF LoopEntry, Present
    <3> QED BY <3>1, <3>2
  <2>6. CASE /\ D!unicast(m) /\ last_entry' = D!NoEntry
             /\ to_free' = Append(to_free, m) /\ UNCHANGED <<to_stack, tag, bursts>>
    <3>1. D!ToSet(to_free') = D!ToSet(to_free) \cup {m}
      BY <2>1, <2>2, <2>6, Appended
    <3>2. burst[m].dst # D!Multicast /\ ~Present(burst[m].dst)
      BY <2>4, <2>6 DEF D!unicast
    <3>3. \A x \in D!ToSet(to_free') : x \in D!ForStack' =>
             burst'[x].dst # D!Multicast /\ ~Present(burst[x].dst)'
      BY <1>1, <2>3, <3>1, <3>2 DEF Present
    <3>4. \A x \in D!ToSet(to_stack') : tag'[x] = D!None => burst'[x].dst = D!Multicast
      BY <1>1, <2>3, <2>6
    <3> QED BY <2>1, <2>5, <3>3, <3>4 DEF Sifted
  <2>7. CASE /\ D!unicast(m) => last_entry'.ifp = burst[m].dst
             /\ to_stack' = Append(to_stack, m) /\ UNCHANGED to_free
             /\ tag' = [tag EXCEPT ![m] = IF D!unicast(m) THEN last_entry'.ifp ELSE D!None]
    <3>1. D!ToSet(to_stack') = D!ToSet(to_stack) \cup {m}
      BY <2>1, <2>2, <2>7, Appended
    <3>2. tag'[m] = D!None => burst[m].dst = D!Multicast
      BY <2>1, <2>2, <2>7 DEF D!unicast
    <3>3. \A x \in Packets : x # m => tag'[x] = tag[x]
      BY <2>1, <2>2, <2>7
    <3>4. D!ToSet(to_stack) \subseteq Packets
      BY <2>2, StackSets
    <3>5. \A x \in D!ToSet(to_stack') : tag'[x] = D!None => burst'[x].dst = D!Multicast
      BY <1>1, <2>3, <3>1, <3>2, <3>3, <3>4
    <3>6. \A x \in D!ToSet(to_free') : x \in D!ForStack' =>
             burst'[x].dst # D!Multicast /\ ~Present(burst[x].dst)'
      BY <1>1, <2>3, <2>7 DEF Present
    <3> QED BY <2>1, <2>5, <3>5, <3>6 DEF Sifted
  <2> HIDE DEF m
  <2> QED BY <1>3, <2>6, <2>7, LoopStep DEF m
<1> QED BY <1>2, <1>3

\* The partition after the last push.
LEMMA SiftedPush == ASSUME Shape, Sifted, D!push PROVE Sifted'
<1>1. pc = "push" /\ UNCHANGED <<burst, tags_trusted, m_interfaces, touched, tag>>
      /\ D!ForStack' = D!ForStack
  BY DEF D!push, D!tableVars, D!histVars, D!ForStack, D!for_stack
<1>2. CASE bursts # <<>>
  BY <1>1, <1>2 DEF D!push, Sifted, Present
<1>3. CASE bursts = <<>>
  <2>1. /\ pc' = "gro" /\ to_stack' = D!Only(to_stack, D!ForStack)
        /\ to_free' = to_free \o D!Only(to_stack, D!NotForStack)
    BY <1>3 DEF D!push, D!partition
  <2>2. to_stack \in Seq(Packets) /\ to_free \in Seq(Packets)
    BY DEF Shape, WorkerTypes
  <2>3. D!ToSet(to_stack') = D!ToSet(to_stack) \cap D!ForStack
    BY <2>1, <2>2, Kept
  <2>4. D!ToSet(to_free') = D!ToSet(to_free) \cup (D!ToSet(to_stack) \cap D!NotForStack)
    <3>1. /\ D!Only(to_stack, D!NotForStack) \in Seq(Packets)
          /\ D!ToSet(D!Only(to_stack, D!NotForStack)) = D!ToSet(to_stack) \cap D!NotForStack
      BY <2>2, Kept
    <3> QED BY <2>1, <2>2, <3>1, Joined
  <2>5. D!NotForStack \cap D!ForStack = {}
    BY StackSets
  <2>6. \A x \in D!ToSet(to_free') : x \in D!ForStack' =>
           burst'[x].dst # D!Multicast /\ ~Present(burst[x].dst)'
    BY <1>1, <2>4, <2>5 DEF Sifted, Present
  <2> QED BY <1>1, <2>1, <2>3, <2>6 DEF Sifted
<1> QED BY <1>2, <1>3

\* Outside of the loops.
LEMMA SiftedWorker == ASSUME Table, Shape, Once, Sifted, D!worker PROVE Sifted'
<1>1. CASE pc' \in {"idle", "port", "interfaces", "count", "done"}
  BY <1>1 DEF Sifted
<1>2. CASE D!check_sinks
  <2>1. /\ pc = "count" /\ to_stack' = <<>> /\ to_free = <<>> /\ last_dst' = D!None
        /\ UNCHANGED <<burst, m_interfaces>> /\ D!ForStack' = D!ForStack
        /\ D!all \in Seq(Packets) /\ D!ToSet(D!all) = Packets
    BY <1>2, BurstPackets DEF D!check_sinks, Shape, Fresh, WorkerTypes, D!tableVars, D!ForStack,
                              D!for_stack
  <2>2. D!ToSet(to_stack') = {}
    BY <2>1, NoElements
  <2>3. ~Present(last_dst)'
    BY <2>1, DispatchConstants DEF Present, Table
  <2>4. CASE pc' = "sinks"
    <3>1. to_free' = <<>>
      BY <1>2, <2>1, <2>4 DEF D!check_sinks
    <3>2. D!ToSet(to_free') = {}
      BY <3>1, NoElements
    <3> QED BY <2>2, <2>3, <2>4, <3>2 DEF Sifted
  <2>5. CASE /\ pc' = "resolve" /\ todo' = D!Only(D!all, D!ForStack)
             /\ to_free' = D!Only(D!all, D!NotForStack)
    <3>1. D!ToSet(todo') = D!ToSet(D!all) \cap D!ForStack
      BY <2>1, <2>5, Kept
    <3>2. D!ToSet(to_free') = D!ToSet(D!all) \cap D!NotForStack
      BY <2>1, <2>5, Kept
    <3>3. D!ToSet(todo') \subseteq D!ForStack' /\ D!ToSet(to_free') \cap D!ForStack' = {}
      BY <2>1, <3>1, <3>2, StackSets
    <3> QED BY <2>2, <2>5, <3>3 DEF Sifted
  <2> QED BY <1>2, <2>4, <2>5 DEF D!check_sinks
<1>3. ASSUME NEW tcp \in SUBSET D!ToSet(to_stack),
             NEW merged \in SUBSET (D!ToSet(to_stack) \ tcp), D!gro(merged, tcp)
      PROVE  Sifted'
  <2>1. /\ pc = "gro" /\ pc' = "stack" /\ UNCHANGED <<burst, tag>> /\ D!ForStack' = D!ForStack
    BY <1>3 DEF D!gro, D!listVars, D!ForStack, D!for_stack
  <2>2. D!ToSet(todo') \subseteq D!ToSet(to_stack)
    BY <1>3, GroKeeps
  <2> QED BY <2>1, <2>2 DEF Sifted
<1>4. CASE D!stack_dispatch
  <2> DEFINE m == Head(todo)
  <2>1. /\ pc = "stack" /\ pc' = "stack" /\ UNCHANGED burst /\ D!ForStack' = D!ForStack
        /\ todo # <<>> /\ todo' = Tail(todo) /\ tag' = [tag EXCEPT ![m] = D!None]
    BY <1>4 DEF D!stack_dispatch, D!ForStack, D!for_stack
  <2>2. todo \in Seq(Packets) /\ Distinct(todo) /\ tag \in [Packets -> Ifs \cup {D!None}]
    BY <2>1 DEF Shape, WorkerTypes, Once, Parted
  <2>3. /\ D!ToSet(todo) = {m} \cup D!ToSet(Tail(todo)) /\ m \notin D!ToSet(Tail(todo))
        /\ D!ToSet(todo) \subseteq Packets
    BY <2>1, <2>2, Taken, StackSets
  <2> HIDE DEF m
  <2>4. \A x \in D!ToSet(todo') : tag'[x] = tag[x] /\ x \in D!ToSet(todo)
    BY <2>1, <2>2, <2>3
  <2> QED BY <2>1, <2>4 DEF Sifted
<1>5. ASSUME NEW flag, D!check_interfaces(flag) PROVE Sifted'
  BY <1>1, <1>5 DEF D!check_interfaces
<1>6. ASSUME NEW packets, D!rx_burst(packets) PROVE Sifted'
  BY <1>1, <1>6 DEF D!rx_burst
<1>7. CASE D!rx_sink_dispatch \/ D!rx_burst_return \/ D!free
  BY <1>1, <1>7 DEF D!rx_sink_dispatch, D!rx_burst_return, D!free
<1> QED BY <1>2, <1>3, <1>4, <1>5, <1>6, <1>7, SiftedResolve, SiftedLoop, SiftedPush DEF D!worker

\* A packet leaves for the stack.
LEMMA StackStep ==
    ASSUME Table, Shape, Once, Stacked, D!stack_dispatch
    PROVE  /\ UNCHANGED <<burst, m_interfaces>> /\ D!ForStack' = D!ForStack /\ pc = "stack"
           /\ Head(todo) \in Packets /\ Head(todo) \in D!ForStack
           /\ D!ToSet(todo) = {Head(todo)} \cup D!ToSet(todo')
           /\ touched \subseteq touched'
           /\ \E to \in SUBSET Ifs :
                 /\ \A i \in Ifs : D!ToSet(stack'[i]) =
                       IF i \in to THEN D!ToSet(stack[i]) \cup {Head(todo)} ELSE D!ToSet(stack[i])
                 /\ \/ burst[Head(todo)].dst \in Ifs /\ to = {burst[Head(todo)].dst}
                    \/ burst[Head(todo)].dst = D!Multicast /\ m_interfaces \ touched' \subseteq to
<1>1. /\ UNCHANGED <<burst, m_interfaces>> /\ D!ForStack' = D!ForStack /\ pc = "stack"
      /\ todo # <<>> /\ todo' = Tail(todo)
  BY DEF D!stack_dispatch, D!ForStack, D!for_stack, D!tableVars
<1>2. /\ todo \in Seq(Packets) /\ tag \in [Packets -> Ifs \cup {D!None}]
      /\ stack \in [Ifs -> Seq(Packets)]
  BY DEF Shape, WorkerTypes
<1>3. Head(todo) \in Packets /\ D!ToSet(todo) = {Head(todo)} \cup D!ToSet(todo')
  BY <1>1, <1>2, Taken
<1>4. Head(todo) \in D!ForStack
  BY <1>1, <1>3 DEF Stacked, Sifted
<1>5. PICK m : m = Head(todo)
  OBVIOUS
<1>6. PICK to \in IF tag[m] # D!None THEN {{tag[m]}} ELSE SUBSET m_interfaces :
         /\ stack' = [i \in Ifs |-> IF i \in to THEN Append(stack[i], m) ELSE stack[i]]
         /\ touched' = IF tag[m] # D!None THEN touched ELSE touched \cup (m_interfaces \ to)
  BY <1>5 DEF D!stack_dispatch
<1>7. \A i \in Ifs : D!ToSet(Append(stack[i], m)) = D!ToSet(stack[i]) \cup {m}
  BY <1>2, <1>3, <1>5, Appended
<1>8. \A i \in Ifs : D!ToSet(stack'[i]) =
         IF i \in to THEN D!ToSet(stack[i]) \cup {m} ELSE D!ToSet(stack[i])
  BY <1>6, <1>7
<1>9. CASE tag[m] # D!None
  <2>1. tag[m] = burst[m].dst /\ tag[m] \in Ifs
    BY <1>2, <1>3, <1>5, <1>9 DEF Shape, Fresh
  <2>2. to = {burst[m].dst} /\ to \in SUBSET Ifs /\ touched' = touched
    BY <1>6, <1>9, <2>1
  <2> QED BY <1>1, <1>3, <1>4, <1>5, <1>8, <2>1, <2>2
<1>10. CASE tag[m] = D!None
  <2>1. burst[m].dst = D!Multicast
    BY <1>1, <1>3, <1>5, <1>10 DEF Stacked, Sifted
  <2>2. /\ to \in SUBSET Ifs /\ touched \subseteq touched' /\ m_interfaces \ touched' \subseteq to
    BY <1>6, <1>10 DEF Table
  <2> QED BY <1>1, <1>3, <1>4, <1>5, <1>8, <2>1, <2>2
<1> QED BY <1>9, <1>10

\* It is one that its interfaces may have, and the packets that they need
\* are there or still on their way.
LEMMA StackedDispatch ==
    ASSUME Table, Shape, Once, Stacked, D!stack_dispatch
    PROVE  StackOwn' /\ \A i \in Ifs : Present(i)' => Served(i)'
<1> DEFINE m == Head(todo)
<1>1. /\ UNCHANGED <<burst, m_interfaces>> /\ D!ForStack' = D!ForStack /\ pc = "stack"
      /\ m \in Packets /\ m \in D!ForStack
      /\ D!ToSet(todo) = {m} \cup D!ToSet(todo') /\ touched \subseteq touched'
  BY StackStep
<1>2. PICK to \in SUBSET Ifs :
         /\ \A i \in Ifs : D!ToSet(stack'[i]) =
               IF i \in to THEN D!ToSet(stack[i]) \cup {m} ELSE D!ToSet(stack[i])
         /\ \/ burst[m].dst \in Ifs /\ to = {burst[m].dst}
            \/ burst[m].dst = D!Multicast /\ m_interfaces \ touched' \subseteq to
  BY StackStep
<1> HIDE DEF m
<1>3. \A d : D!addressed(d)' = D!addressed(d)
  BY <1>1 DEF D!addressed
<1>4. \A i \in to : m \in D!addressed(i) \cup D!addressed(D!Multicast)
  BY <1>1, <1>2 DEF D!addressed, Packets
<1>5. \A i \in Ifs : D!ToSet(stack'[i]) \subseteq
         (D!addressed(i) \cup D!addressed(D!Multicast)) \cap D!ForStack
  BY <1>1, <1>2, <1>4 DEF Stacked, StackOwn
<1>6. StackOwn'
  BY <1>1, <1>5 DEF StackOwn, D!addressed
<1>7. ASSUME NEW i \in Ifs, Present(i)' PROVE Served(i)'
  <2>1. i \in m_interfaces \ touched' /\ Served(i) /\ D!Multicast \notin Ifs
    BY <1>1, <1>7, DispatchConstants DEF Present, Stacked
  <2>2. burst[m].dst \in {i, D!Multicast} => i \in to
    BY <1>2, <2>1
  <2>3. D!ToSet(stack[i]) \subseteq D!ToSet(stack'[i]) /\ (i \in to => m \in D!ToSet(stack'[i]))
    BY <1>2
  <2>4. ASSUME NEW x \in D!ForStack, burst[x].dst \in {i, D!Multicast}
        PROVE  \E h \in Packets : /\ burst[h].dst = burst[x].dst
                                  /\ h \in D!ToSet(todo') \cup D!ToSet(stack'[i])
    <3>1. PICK h \in Packets : /\ burst[h].dst = burst[x].dst
                               /\ h \in D!ToSet(todo) \cup D!ToSet(stack[i])
      BY <2>1, <2>4 DEF Served
    <3>2. h \in D!ToSet(todo') \cup D!ToSet(stack'[i])
      BY <1>1, <2>2, <2>3, <2>4, <3>1
    <3> QED BY <3>1, <3>2
  <2> QED BY <1>1, <2>4 DEF Served, Packets
<1> QED BY <1>6, <1>7

\* GRO chains packets to others of the same address.
LEMMA StackedGro ==
    ASSUME Table, Shape, Once, Stacked, NEW tcp \in SUBSET D!ToSet(to_stack),
           NEW merged \in SUBSET (D!ToSet(to_stack) \ tcp), D!gro(merged, tcp),
           NEW i \in Ifs, Present(i)
    PROVE  Served(i)'
<1>1. /\ UNCHANGED <<burst, stack>> /\ D!ForStack' = D!ForStack /\ pc = "gro"
      /\ \A x \in merged : \E h \in tcp : burst[h].dst = burst[x].dst
  BY DEF D!gro, D!ForStack, D!for_stack
<1>2. D!ToSet(todo') = D!ToSet(to_stack) \ merged
  BY GroKeeps
<1>3. /\ Parted(Packets, todo, to_stack, to_free) /\ D!ToSet(todo) = {}
      /\ D!ToSet(to_stack) \subseteq Packets
  BY <1>1, NoElements DEF Once, Shape, Fresh, Parted
<1>4. ASSUME NEW x \in D!ForStack, burst[x].dst \in {i, D!Multicast}
      PROVE  \E h \in Packets : /\ burst[h].dst = burst[x].dst
                                /\ h \in D!ToSet(todo') \cup D!ToSet(stack'[i])
  <2>1. x \in Packets
    BY StackSets
  <2>2. x \notin D!ToSet(to_free)
    BY <1>1, <1>4 DEF Stacked, Sifted
  <2>3. x \in D!ToSet(to_stack)
    BY <1>3, <2>1, <2>2 DEF Parted
  <2>4. CASE x \in merged
    <3>1. PICK h \in tcp : burst[h].dst = burst[x].dst
      BY <1>1, <2>4
    <3> QED BY <1>2, <1>3, <3>1
  <2>5. CASE x \notin merged
    BY <1>2, <2>1, <2>3, <2>5
  <2> QED BY <2>4, <2>5
<1> QED BY <1>1, <1>4 DEF Served, Packets

\* The stack of an interface gets what is for it, and all of it.
LEMMA StackedInvariant == MCSpec => []Stacked
<1>1. MCInit => Stacked
  <2> SUFFICES ASSUME MCInit PROVE Stacked
    OBVIOUS
  <2>1. pc = "idle" /\ \A i \in Ifs : stack[i] = <<>>
    BY DEF MCInit, D!Init
  <2> QED BY <2>1, NoElements DEF Stacked, Sifted, StackOwn
<1>2. Table /\ Table' /\ Shape /\ Shape' /\ Once /\ Stacked /\ [MCNext]_all => Stacked'
  <2> SUFFICES ASSUME Table, Table', Shape, Shape', Once, Stacked, [MCNext]_all
               PROVE  Stacked'
    OBVIOUS
  <2>0. Sifted /\ StackOwn
    BY DEF Stacked
  <2>1. CASE UNCHANGED dvars
    BY <2>1 DEF dvars, Stacked, StackOwn, Sifted, Served, Present, Packets, D!addressed, D!ForStack,
                D!for_stack
  <2>2. CASE D!server
    <3>1. UNCHANGED workerVars
      BY <2>2, ServerTouches
    <3>2. UNCHANGED <<pc, burst, todo, to_stack, to_free, tag, stack, last_dst, last_entry>>
          /\ D!ForStack' = D!ForStack
      BY <3>1 DEF workerVars, D!ForStack, D!for_stack
    <3>3. StackOwn'
      BY <2>0, <3>2 DEF StackOwn, D!addressed
    <3>4. CASE pc = "idle"
      BY <3>2, <3>3, <3>4 DEF Stacked, Sifted, StackOwn
    <3>5. CASE pc # "idle"
      <4>1. \A i \in Ifs : Present(i)' => Present(i)
        BY <2>2, <3>5, PresentBefore
      <4>2. \A i \in Ifs : Served(i) => Served(i)'
        BY <3>2 DEF Served, Packets
      <4>3. ASSUME NEW x \in D!ToSet(to_free), ~Present(burst[x].dst),
                   burst[x].dst # D!Multicast, to_free \in Seq(Packets), burst \in Seq(Kinds)
            PROVE  ~Present(burst[x].dst)'
        <5>1. x \in Packets
          BY <4>3, StackSets
        <5>2. burst[x].dst \in Ifs
          BY <4>3, <5>1, BurstPackets
        <5> QED BY <3>2, <4>1, <4>3, <5>2 DEF Present
      <4>4. Present(last_dst)' => Present(last_dst)
        <5> SUFFICES ASSUME Present(last_dst)' PROVE Present(last_dst)
          OBVIOUS
        <5>1. last_dst \in Ifs
          BY <3>2 DEF Present, Table
        <5> QED BY <3>2, <4>1, <5>1 DEF Present
      <4>5. to_free \in Seq(Packets) /\ burst \in Seq(Kinds)
        BY DEF Shape, WorkerTypes
      <4>6. Sifted'
        BY <2>0, <3>2, <4>3, <4>4, <4>5 DEF Sifted
      <4> QED BY <3>2, <3>3, <4>1, <4>2, <4>6 DEF Stacked
    <3> QED BY <3>4, <3>5
  <2>3. CASE D!worker
    <3>1. Sifted'
      BY <2>0, <2>3, SiftedWorker
    <3>2. CASE \A i \in Ifs : stack'[i] = <<>> /\ pc' \notin {"stack", "done"}
      BY <3>1, <3>2, NoElements DEF Stacked, StackOwn
    <3>3. CASE pc' \notin {"stack", "done"}
      BY <3>2, <3>3 DEF Shape, Fresh
    <3>4. CASE D!stack_dispatch
      BY <3>1, <3>4, StackedDispatch DEF Stacked
    <3>5. ASSUME NEW tcp \in SUBSET D!ToSet(to_stack),
                 NEW merged \in SUBSET (D!ToSet(to_stack) \ tcp), D!gro(merged, tcp)
          PROVE  Stacked'
      <4>1. UNCHANGED <<burst, stack, touched, m_interfaces>> /\ D!ForStack' = D!ForStack
        BY <3>5 DEF D!gro, D!ForStack, D!for_stack, D!tableVars, D!histVars
      <4>2. StackOwn'
        BY <2>0, <4>1 DEF StackOwn, D!addressed
      <4>3. \A i \in Ifs : Present(i)' => Present(i)
        BY <4>1 DEF Present
      <4>4. \A i \in Ifs : Present(i) => Served(i)'
        BY <3>5, StackedGro
      <4> QED BY <3>1, <4>2, <4>3, <4>4 DEF Stacked
    <3>6. CASE D!free
      <4>1. UNCHANGED <<burst, stack, todo, touched, m_interfaces>> /\ D!ForStack' = D!ForStack
            /\ pc = "stack"
        BY <3>6 DEF D!free, D!loopVars, D!ForStack, D!for_stack, D!tableVars, D!histVars
      <4>2. StackOwn'
        BY <2>0, <4>1 DEF StackOwn, D!addressed
      <4>3. \A i \in Ifs : (Present(i)' => Present(i)) /\ (Served(i) => Served(i)')
        BY <4>1 DEF Present, Served, Packets
      <4> QED BY <3>1, <4>1, <4>2, <4>3 DEF Stacked
    <3>7. ASSUME NEW flag, D!check_interfaces(flag) PROVE Stacked'
      <4>1. CASE m_interfaces # {}
        BY <3>3, <3>7, <4>1 DEF D!check_interfaces
      <4>2. CASE m_interfaces = {}
        <5>1. /\ \A i \in Ifs : stack'[i] = <<>>
              /\ m_interfaces' = {}
          BY <3>7, <4>2 DEF D!check_interfaces, D!tableVars, Shape, Fresh
        <5>2. \A i \in Ifs : D!ToSet(stack'[i]) = {} /\ ~Present(i)'
          BY <5>1, NoElements DEF Present
        <5> QED BY <3>1, <5>2 DEF Stacked, StackOwn
      <4> QED BY <4>1, <4>2
    <3>8. CASE D!check_sinks \/ D!resolve \/ D!sinks \/ D!push \/ D!rx_sink_dispatch
               \/ D!rx_burst_return
      <4>1. pc' \notin {"stack", "done"}
        BY <3>8 DEF D!check_sinks, D!resolve, D!sinks, D!push, D!rx_sink_dispatch,
                    D!rx_burst_return
      <4> QED BY <3>3, <4>1
    <3>9. ASSUME NEW packets, D!rx_burst(packets) PROVE Stacked'
      BY <3>3, <3>9 DEF D!rx_burst
    <3> QED BY <2>3, <3>4, <3>5, <3>6, <3>7, <3>8, <3>9 DEF D!worker
  <2> QED BY <2>1, <2>2, <2>3 DEF MCNext, all, D!Next
<1> QED BY <1>1, <1>2, TableInvariant, ShapeInvariant, OnceInvariant, PTL DEF MCSpec

\* rx_burst() (worker.cpp) gives the sinks the packets of their interface in order, a sink
\* that was there all the time all of them, and the stack what is for it and nothing else,
\* for any interleaving with the changes of the forwarding table.
THEOREM EveryPacketServed == MCSpec => []PacketsServed
<1>1. Table /\ Shape /\ Ordered /\ Complete /\ Stacked => PacketsServed
  <2> SUFFICES ASSUME Table, Shape, Ordered, Complete, Stacked
               PROVE  D!SinkOrder /\ D!SinkComplete /\ D!StackComplete
    BY DEF PacketsServed
  <2>1. D!SinkOrder
    BY DEF Ordered
  <2>2. D!SinkComplete
    <3> SUFFICES ASSUME pc = "done"
                 PROVE  /\ \A i \in rx_sinks \ (inactive \cup touched) :
                              D!addressed(i) \subseteq D!ToSet(got[i])
                        /\ port_sink /\ D!Port \notin inactive \cup touched => got[D!Port] = D!all
      BY DEF D!SinkComplete, D!Done
    <3>1. \A i \in rx_sinks \ (inactive \cup touched) : i \in Ifs /\ Live(i)
      BY DEF Table, Live
    <3>2. \A i \in Ifs : Live(i) => D!addressed(i) \subseteq D!ToSet(got[i])
      BY DEF Complete, Fed
    <3>3. port_sink /\ D!Port \notin inactive \cup touched => got[D!Port] = D!all
      BY DEF Complete, PortFed
    <3> QED BY <3>1, <3>2, <3>3
  <2>3. D!StackComplete
    <3>1. \A i \in Ifs : \A m \in D!ToSet(stack[i]) :
             m \in D!addressed(i) \cup D!addressed(D!Multicast) /\ D!for_stack(m)
      BY DEF Stacked, StackOwn, D!ForStack
    <3>2. ASSUME pc = "done", NEW i \in m_interfaces \ touched,
                 NEW d \in {i, D!Multicast}, NEW m \in D!addressed(d), D!for_stack(m)
          PROVE  m \in D!ToSet(stack[i]) \/ \E h \in D!addressed(d) \ {m} : h \in D!ToSet(stack[i])
      <4>1. i \in Ifs /\ Present(i)
        BY DEF Table, Present
      <4>2. D!ToSet(todo) = {}
        BY <3>2, NoElements DEF Shape, Fresh
      <4>3. m \in D!ForStack /\ burst[m].dst = d
        BY <3>2 DEF D!ForStack, D!addressed
      <4>4. PICK h \in Packets : burst[h].dst = burst[m].dst
                                /\ h \in D!ToSet(todo) \cup D!ToSet(stack[i])
        BY <3>2, <4>1, <4>3 DEF Stacked, Served
      <4>5. h \in D!addressed(d) /\ h \in D!ToSet(stack[i])
        BY <4>2, <4>3, <4>4 DEF D!addressed, Packets
      <4> QED BY <4>5
    <3> QED BY <3>1, <3>2 DEF D!StackComplete, D!Done
  <2> QED BY <2>1, <2>2, <2>3
<1> QED BY <1>1, TableInvariant, ShapeInvariant, OrderedInvariant, CompleteInvariant,
           StackedInvariant, PTL
=============================================================================
