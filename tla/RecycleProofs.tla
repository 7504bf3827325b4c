--------------------------- MODULE RecycleProofs ----------------------------
(***************************************************************************)
(* Proofs about Recycle, for any number of readers, tables and versions.   *)
(***************************************************************************)
EXTENDS Recycle, TLAPS

(***************************************************************************)
(* The inductive invariant.  The safety properties are not inductive: they *)
(* say nothing about callbacks that are yet to run.  What makes a callback *)
(* harmless is that its version is not below any version that a reader     *)
(* holding one of its objects has stored or is about to store.             *)
(***************************************************************************)
refs(r) == held[r] \ exposed[r]

\* The stores that can still reach memory as the version of reader r.
pending(r) == {version[r]} \cup {buffered[r][i] : i \in 1..Len(buffered[r])}

\* Nobody has seen a version that the writer has not reached.
VersionInv ==
    /\ m_writer_version >= base_version
    /\ \A v \in DOMAIN m_callbacks : v < m_writer_version
    /\ \A r \in Readers :
          /\ loaded[r] <= m_writer_version
          /\ \A x \in pending(r) : x <= m_writer_version

\* Whatever was unlinked is older than the current table.
AgeInv ==
    /\ \A o \in freed \cup to_delete : o < table
    /\ \A v \in DOMAIN m_callbacks : \A o \in m_callbacks[v] : o < table

\* The writer starts the workers after it has registered all of them.
ActiveInv == wpc # "setup" => m_active_readers = Readers

\* A reader holds references only inside a section or a drain.
SectionInv ==
    \A r \in Readers :
        rpc[r] \notin {"section", "drain"} => held[r] = {}

\* A reference taken while visible pins its object.
PinInv ==
    \A r \in Readers : \A o \in refs(r) :
        /\ idle_version \notin pending(r)
        /\ o \notin freed
        /\ \A v \in DOMAIN m_callbacks :
              o \in m_callbacks[v] => \A x \in pending(r) : x <= v

\* A reader the scan has passed cannot hold what the scan will free.
ScanInv ==
    wpc = "scan" =>
        \A r \in Readers \ unscanned : \A o \in refs(r) :
            \A v \in DOMAIN m_callbacks :
                o \in m_callbacks[v] => min_version <= v

IInv == /\ TypeOK /\ VersionInv /\ AgeInv /\ ActiveInv
        /\ SectionInv /\ PinInv /\ ScanInv

-----------------------------------------------------------------------------
\* The initial state has the right types and satisfies the invariant.
LEMMA InitIInv == Init => IInv
<1> SUFFICES ASSUME Init PROVE IInv
  OBVIOUS
<1>1. TypeOK
  BY DEF Init, TypeOK, idle_version, base_version, ReaderStates
<1>2. VersionInv /\ AgeInv /\ ActiveInv /\ SectionInv
  BY DEF Init, VersionInv, AgeInv, ActiveInv, SectionInv, pending, idle_version,
         base_version
<1>3. PinInv /\ ScanInv
  BY DEF Init, PinInv, ScanInv, refs
<1> QED BY <1>1, <1>2, <1>3 DEF IInv

\* Every step of the writer preserves the types.
LEMMA WriterType == ASSUME TypeOK, writer_step PROVE TypeOK'
<1> USE DEF TypeOK
<1>1. CASE \E r \in Readers : writer_add_reader(r)
  BY <1>1 DEF writer_add_reader, writerVars, readerVars, memVars
<1>2. CASE start_workers
  BY <1>2 DEF start_workers, depotVars, readerVars, memVars
<1>3. CASE exchange
  BY <1>3 DEF exchange, depotVars, readerVars, memVars
<1>4. ASSUME NEW objs \in SUBSET to_delete, writer_add_gc_callback(objs)
      PROVE  TypeOK'
  <2>1. /\ DOMAIN m_callbacks' \subseteq Nat
        /\ m_callbacks' \in [DOMAIN m_callbacks' -> SUBSET Nat]
    <3>1. CASE m_writer_version \in DOMAIN m_callbacks
      BY <1>4, <3>1 DEF writer_add_gc_callback
    <3>2. CASE m_writer_version \notin DOMAIN m_callbacks
      <4>1. m_callbacks' = [v \in DOMAIN m_callbacks \cup {m_writer_version} |->
                              IF v = m_writer_version THEN objs ELSE m_callbacks[v]]
        BY <1>4, <3>2 DEF writer_add_gc_callback
      <4>2. objs \in SUBSET Nat
        BY <1>4
      <4> QED BY <4>1, <4>2
    <3> QED BY <3>1, <3>2
  <2>2. m_writer_version' \in Nat /\ to_delete' \subseteq Nat
    BY <1>4 DEF writer_add_gc_callback
  <2> QED BY <1>4, <2>1, <2>2 DEF writer_add_gc_callback, readerVars, memVars
<1>5. CASE gc_begin
  BY <1>5 DEF gc_begin, depotVars, readerVars, memVars
<1>6. CASE \E r \in Readers : gc_scan(r)
  BY <1>6 DEF gc_scan, depotVars, readerVars, memVars
<1>7. ASSUME NEW retry \in SUBSET eligible, gc_run(retry)
      PROVE  TypeOK'
  <2>1. /\ DOMAIN m_callbacks' \subseteq Nat
        /\ m_callbacks' \in [DOMAIN m_callbacks' -> SUBSET Nat]
    BY <1>7 DEF gc_run, eligible
  <2>2. freed' \subseteq Nat
    BY <1>7 DEF gc_run, eligible
  <2> QED BY <1>7, <2>1, <2>2 DEF gc_run, readerVars, memVars, base_version
<1> QED BY <1>1, <1>2, <1>3, <1>4, <1>5, <1>6, <1>7 DEF writer_step

\* A store by a reader adds at most its own value to what can reach memory,
\* and touches no other reader.
LEMMA StoreFacts ==
  ASSUME TypeOK, NEW r \in Readers, NEW v \in Nat, reader_store(r, v)
  PROVE  /\ version' \in [Readers -> Nat]
         /\ buffered' \in [Readers -> Seq(Nat)]
         /\ pending(r)' \subseteq pending(r) \cup {v}
         /\ \A q \in Readers \ {r} :
               version'[q] = version[q] /\ buffered'[q] = buffered[q]
<1> USE DEF TypeOK
<1>1. CASE r \in Buffering
  <2> DEFINE b == Append(buffered[r], v)
  <2>1. buffered' = [buffered EXCEPT ![r] = b] /\ version' = version
    BY <1>1 DEF reader_store
  <2>2. /\ b \in Seq(Nat)
        /\ \A i \in 1..Len(b) : \/ b[i] = v
                                \/ i \in 1..Len(buffered[r]) /\ b[i] = buffered[r][i]
    <3>1. buffered[r] \in Seq(Nat)
      OBVIOUS
    <3> QED BY <3>1
  <2> HIDE DEF b
  <2>3. buffered'[r] = b
    BY <2>1
  <2> QED BY <2>1, <2>2, <2>3 DEF pending
<1>2. CASE r \notin Buffering
  BY <1>2 DEF reader_store, pending
<1> QED BY <1>1, <1>2

\* When a waiting store reaches memory nothing new becomes pending.
LEMMA DrainFacts ==
  ASSUME TypeOK, NEW r \in Readers, store_drains(r)
  PROVE  /\ version' \in [Readers -> Nat]
         /\ buffered' \in [Readers -> Seq(Nat)]
         /\ pending(r)' \subseteq pending(r)
         /\ \A q \in Readers \ {r} :
               version'[q] = version[q] /\ buffered'[q] = buffered[q]
<1> USE DEF TypeOK
<1> DEFINE b == buffered[r]
<1>1. b \in Seq(Nat) /\ b # <<>>
  BY DEF store_drains
<1>2. /\ Head(b) = b[1] /\ 1 \in 1..Len(b) /\ Head(b) \in Nat
      /\ Tail(b) \in Seq(Nat)
      /\ \A i \in 1..Len(Tail(b)) : i + 1 \in 1..Len(b) /\ Tail(b)[i] = b[i + 1]
  BY <1>1
<1>3. version' = [version EXCEPT ![r] = Head(b)] /\ buffered' = [buffered EXCEPT ![r] = Tail(b)]
  BY DEF store_drains
<1> HIDE DEF b
<1>4. version'[r] = b[1] /\ buffered'[r] = Tail(b)
  BY <1>2, <1>3
<1>5. pending(r)' \subseteq pending(r)
  BY <1>2, <1>4 DEF pending, b
<1> QED BY <1>2, <1>3, <1>5

\* Every step of a reader preserves the types.
LEMMA ReaderType == ASSUME TypeOK, NEW r \in Readers, reader_step(r) PROVE TypeOK'
<1> USE DEF TypeOK, ReaderStates, idle_version
<1>1. CASE store_drains(r)
  BY <1>1, DrainFacts DEF store_drains, depotVars, writerVars, readerVars
<1>2. CASE reader_checkpoint_load(r)
  BY <1>2 DEF reader_checkpoint_load, depotVars, writerVars, memVars
<1>3. CASE reader_checkpoint_store(r)
  <2>1. reader_store(r, loaded[r]) /\ loaded[r] \in Nat
    BY <1>3 DEF reader_checkpoint_store
  <2>2. version' \in [Readers -> Nat] /\ buffered' \in [Readers -> Seq(Nat)]
    BY <2>1, StoreFacts
  <2> QED BY <1>3, <2>2 DEF reader_checkpoint_store, depotVars, writerVars
<1>4. CASE load_table(r)
  BY <1>4 DEF load_table, depotVars, writerVars, memVars
<1>5. CASE reader_idle(r)
  <2>1. reader_store(r, idle_version) /\ idle_version \in Nat
    BY <1>5 DEF reader_idle
  <2>2. version' \in [Readers -> Nat] /\ buffered' \in [Readers -> Seq(Nat)]
    BY <2>1, StoreFacts
  <2> QED BY <1>5, <2>2 DEF reader_idle, depotVars, writerVars
<1>6. CASE begin_drain(r)
  BY <1>6 DEF begin_drain, depotVars, writerVars, memVars
<1>7. CASE end_drain(r)
  BY <1>7 DEF end_drain, depotVars, writerVars, memVars
<1>8. CASE leave_spinning(r)
  BY <1>8 DEF leave_spinning, depotVars, writerVars, memVars
<1> QED BY <1>1, <1>2, <1>3, <1>4, <1>5, <1>6, <1>7, <1>8 DEF reader_step

\* The writer's steps preserve the invariant: they leave the readers alone, so
\* only the callbacks, the table and the progress of the scan matter.
LEMMA WriterIInv == ASSUME IInv, writer_step PROVE IInv'
<1>0. TypeOK'
  BY WriterType DEF IInv
<1> USE DEF IInv, VersionInv, AgeInv, ActiveInv, SectionInv, PinInv, ScanInv
<1>1. CASE (\E r \in Readers : writer_add_reader(r)) \/ start_workers
  BY <1>0, <1>1 DEF writer_add_reader, start_workers, writerVars, depotVars,
     readerVars, memVars, refs, pending
<1>2. CASE exchange
  BY <1>0, <1>2 DEF exchange, depotVars, readerVars, memVars, refs, pending, TypeOK
<1>3. ASSUME NEW objs \in SUBSET to_delete, writer_add_gc_callback(objs)
      PROVE  IInv'
  <2>1. m_writer_version \notin DOMAIN m_callbacks
    BY DEF TypeOK
  <2>2. /\ m_writer_version' = m_writer_version + 1
        /\ m_callbacks' = [v \in DOMAIN m_callbacks \cup {m_writer_version} |->
                              IF v = m_writer_version THEN objs ELSE m_callbacks[v]]
        /\ to_delete' \subseteq to_delete
        /\ wpc = "ready"
        /\ UNCHANGED <<m_active_readers, wpc, readerVars, memVars, table, freed>>
    BY <1>3, <2>1 DEF writer_add_gc_callback
  <2>3. \A r \in Readers : refs(r)' = refs(r) /\ pending(r)' = pending(r)
    BY <2>2 DEF refs, pending, readerVars, memVars
  <2>4. \A v \in DOMAIN m_callbacks' :
           \/ v \in DOMAIN m_callbacks /\ m_callbacks'[v] = m_callbacks[v]
           \/ v = m_writer_version /\ m_callbacks'[v] = objs
    BY <2>2
  <2>5. \A r \in Readers : \A x \in pending(r) : x \in Nat
    BY DEF pending, TypeOK
  <2>6. VersionInv' /\ AgeInv' /\ ActiveInv' /\ SectionInv'
    BY <1>0, <2>2, <2>3, <2>4, <2>5 DEF TypeOK, readerVars, base_version
  <2>7. PinInv'
    BY <2>2, <2>3, <2>4
  <2>8. ScanInv'
    BY <2>2
  <2> QED BY <1>0, <2>6, <2>7, <2>8
<1>4. CASE gc_begin
  BY <1>0, <1>4 DEF gc_begin, depotVars, readerVars, memVars, refs, pending
<1>5. ASSUME NEW r \in Readers, gc_scan(r)
      PROVE  IInv'
  <2>1. UNCHANGED <<depotVars, wpc, to_delete, readerVars, memVars, table, freed>>
    BY <1>5 DEF gc_scan
  <2>2. \A q \in Readers : refs(q)' = refs(q) /\ pending(q)' = pending(q)
    BY <2>1 DEF refs, pending, readerVars, memVars
  <2>3. VersionInv' /\ AgeInv' /\ ActiveInv' /\ SectionInv' /\ PinInv'
    BY <2>1, <2>2 DEF depotVars, readerVars
  <2>4. ScanInv'
    <3> SUFFICES ASSUME NEW q \in Readers, q \notin unscanned', NEW o \in refs(q),
                        NEW v \in DOMAIN m_callbacks, o \in m_callbacks[v]
                 PROVE  min_version' <= v
      BY <2>1, <2>2 DEF depotVars
    <3>1. version[r] \in pending(r) /\ version[r] \in Nat /\ min_version \in Nat /\ v \in Nat
      BY DEF pending, TypeOK
    <3>2. CASE q = r
      BY <1>5, <3>1, <3>2 DEF gc_scan
    <3>3. CASE q # r
      BY <1>5, <3>1, <3>3 DEF gc_scan
    <3> QED BY <3>2, <3>3
  <2> QED BY <1>0, <2>3, <2>4
<1>6. ASSUME NEW retry \in SUBSET eligible, gc_run(retry)
      PROVE  IInv'
  <2>1. /\ DOMAIN m_callbacks' \subseteq DOMAIN m_callbacks
        /\ \A v \in DOMAIN m_callbacks' : m_callbacks'[v] = m_callbacks[v]
        /\ wpc = "scan" /\ wpc' = "ready" /\ unscanned = {}
        /\ UNCHANGED <<m_writer_version, m_active_readers, to_delete, readerVars,
                       memVars, table>>
    BY <1>6 DEF gc_run, eligible
  <2>2. \A o \in freed' : \/ o \in freed
                          \/ \E v \in DOMAIN m_callbacks :
                                v < min_version /\ o \in m_callbacks[v]
    BY <1>6 DEF gc_run, eligible
  <2>3. \A q \in Readers : refs(q)' = refs(q) /\ pending(q)' = pending(q)
    BY <2>1 DEF refs, pending, readerVars, memVars
  <2>4. VersionInv' /\ AgeInv' /\ ActiveInv' /\ SectionInv'
    BY <2>1, <2>2, <2>3 DEF readerVars
  <2>5. \A q \in Readers : \A o \in refs(q) : o \notin freed'
    <3> SUFFICES ASSUME NEW q \in Readers, NEW o \in refs(q), o \in freed'
                 PROVE  FALSE
      OBVIOUS
    <3>1. o \notin freed
      OBVIOUS
    <3>2. PICK v \in DOMAIN m_callbacks : v < min_version /\ o \in m_callbacks[v]
      BY <2>2, <3>1
    <3>3. min_version <= v
      BY <2>1, <3>2
    <3> QED BY <3>2, <3>3 DEF TypeOK
  <2>6. PinInv'
    BY <2>1, <2>3, <2>5
  <2> QED BY <1>0, <2>1, <2>4, <2>6
<1> QED BY <1>1, <1>2, <1>3, <1>4, <1>5, <1>6 DEF writer_step

\* A reader's step preserves the invariant if it changes nothing but that
\* reader and if the reader gains at most the current table, while visible.
LEMMA ReaderFrame ==
  ASSUME IInv, TypeOK', NEW r \in Readers,
         UNCHANGED <<depotVars, writerVars, table, freed>>,
         \A q \in Readers \ {r} :
            /\ version'[q] = version[q] /\ buffered'[q] = buffered[q]
            /\ loaded'[q] = loaded[q] /\ rpc'[q] = rpc[q]
            /\ held'[q] = held[q] /\ exposed'[q] = exposed[q],
         loaded'[r] <= m_writer_version,
         \A x \in pending(r)' : x <= m_writer_version,
         rpc'[r] \notin {"section", "drain"} => held'[r] = {},
         \A o \in refs(r)' : /\ o \in refs(r) \/ o = table
                            /\ idle_version \notin pending(r)'
                            /\ pending(r)' \subseteq pending(r)
  PROVE  IInv'
<1> USE DEF IInv, VersionInv, AgeInv, ActiveInv, SectionInv, PinInv, ScanInv
<1>1. \A q \in Readers \ {r} : refs(q)' = refs(q) /\ pending(q)' = pending(q)
  BY DEF refs, pending
<1>2. VersionInv' /\ AgeInv' /\ ActiveInv' /\ SectionInv'
  BY <1>1 DEF depotVars, writerVars
<1>3. table \notin freed /\ \A v \in DOMAIN m_callbacks : table \notin m_callbacks[v]
  BY DEF TypeOK
<1>4. \A x \in pending(r) : x <= m_writer_version
  OBVIOUS
<1>5. PinInv'
  BY <1>1, <1>3 DEF depotVars
<1>6. ScanInv'
  BY <1>1, <1>3 DEF depotVars, writerVars
<1> QED BY <1>2, <1>5, <1>6

\* Every step of a reader preserves the invariant.
LEMMA ReaderIInv == ASSUME IInv, NEW r \in Readers, reader_step(r) PROVE IInv'
<1>0. TypeOK /\ TypeOK'
  BY ReaderType DEF IInv
<1>1. /\ m_writer_version \in Nat /\ idle_version <= m_writer_version
      /\ loaded[r] \in Nat /\ loaded[r] <= m_writer_version
      /\ \A x \in pending(r) : x <= m_writer_version
      /\ idle_version \in Nat
  BY DEF IInv, TypeOK, VersionInv, idle_version, base_version
<1>2. rpc[r] \notin {"section", "drain"} => held[r] = {}
  BY DEF IInv, SectionInv
<1>3. CASE store_drains(r)
  <2>1. pending(r)' \subseteq pending(r)
    BY <1>0, <1>3, DrainFacts
  <2>2. \A o \in refs(r)' : o \in refs(r) /\ idle_version \notin pending(r)
    BY <1>3 DEF store_drains, readerVars, refs, IInv, PinInv
  <2> QED BY <1>0, <1>1, <1>2, <1>3, <2>1, <2>2, DrainFacts, ReaderFrame
          DEF store_drains, readerVars
<1>4. CASE reader_checkpoint_load(r)
  <2>1. refs(r)' = {} /\ pending(r)' = pending(r) /\ held'[r] = {}
    BY <1>0, <1>4 DEF reader_checkpoint_load, refs, pending, memVars, TypeOK
  <2>2. loaded'[r] <= m_writer_version
    BY <1>0, <1>1, <1>4 DEF reader_checkpoint_load, TypeOK
  <2>3. /\ UNCHANGED <<depotVars, writerVars, table, freed, memVars>>
        /\ \A q \in Readers \ {r} :
            /\ loaded'[q] = loaded[q] /\ rpc'[q] = rpc[q]
            /\ held'[q] = held[q] /\ exposed'[q] = exposed[q]
    BY <1>0, <1>4 DEF reader_checkpoint_load, TypeOK
  <2> QED BY <1>0, <1>1, <2>1, <2>2, <2>3, ReaderFrame DEF memVars
<1>5. CASE reader_checkpoint_store(r)
  <2>1. reader_store(r, loaded[r])
    BY <1>5 DEF reader_checkpoint_store
  <2>2. /\ pending(r)' \subseteq pending(r) \cup {loaded[r]}
        /\ \A q \in Readers \ {r} :
              version'[q] = version[q] /\ buffered'[q] = buffered[q]
    BY <1>0, <1>1, <2>1, StoreFacts
  <2>3. refs(r)' = {} /\ held' = held /\ exposed' = exposed
    BY <1>2, <1>5 DEF reader_checkpoint_store, refs
  <2>4. /\ UNCHANGED <<depotVars, writerVars, table, freed>>
        /\ loaded'[r] = idle_version /\ rpc'[r] = "section"
        /\ \A q \in Readers \ {r} : loaded'[q] = loaded[q] /\ rpc'[q] = rpc[q]
    BY <1>0, <1>5 DEF reader_checkpoint_store, TypeOK
  <2> QED BY <1>0, <1>1, <2>2, <2>3, <2>4, ReaderFrame
<1>6. CASE load_table(r)
  <2>1. pending(r)' = pending(r)
    BY <1>6 DEF load_table, pending, memVars
  <2>2. published(r) => idle_version \notin pending(r)
    BY DEF published, pending
  <2>3. \A o \in refs(r)' : /\ o \in refs(r) \/ o = table
                           /\ idle_version \notin pending(r)
    <3>1. held'[r] = held[r] \cup {table}
      BY <1>0, <1>6 DEF load_table, TypeOK
    <3>2. CASE published(r)
      <4>1. exposed'[r] = exposed[r]
        BY <1>0, <1>6, <3>2 DEF load_table, TypeOK
      <4> QED BY <2>2, <3>1, <3>2, <4>1 DEF refs
    <3>3. CASE ~published(r)
      <4>1. exposed'[r] = exposed[r] \cup {table}
        BY <1>0, <1>6, <3>3 DEF load_table, TypeOK
      <4> QED BY <3>1, <4>1 DEF refs, IInv, PinInv
    <3> QED BY <3>2, <3>3
  <2>4. /\ UNCHANGED <<depotVars, writerVars, table, freed, memVars, rpc, loaded>>
        /\ rpc[r] \in {"section", "drain"}
        /\ \A q \in Readers \ {r} : held'[q] = held[q] /\ exposed'[q] = exposed[q]
    BY <1>0, <1>6 DEF load_table, TypeOK
  <2> QED BY <1>0, <1>1, <2>1, <2>3, <2>4, ReaderFrame DEF memVars
<1>7. CASE reader_idle(r)
  <2>1. reader_store(r, idle_version)
    BY <1>7 DEF reader_idle
  <2>2. /\ pending(r)' \subseteq pending(r) \cup {idle_version}
        /\ \A q \in Readers \ {r} :
              version'[q] = version[q] /\ buffered'[q] = buffered[q]
    BY <1>0, <1>1, <2>1, StoreFacts
  <2>3. refs(r)' = {} /\ held'[r] = {}
    BY <1>0, <1>7 DEF reader_idle, refs, TypeOK
  <2>4. /\ UNCHANGED <<depotVars, writerVars, table, freed, loaded>>
        /\ \A q \in Readers \ {r} :
              rpc'[q] = rpc[q] /\ held'[q] = held[q] /\ exposed'[q] = exposed[q]
    BY <1>0, <1>7 DEF reader_idle, TypeOK
  <2> QED BY <1>0, <1>1, <2>2, <2>3, <2>4, ReaderFrame
<1>8. CASE begin_drain(r)
  <2>1. refs(r)' = {} /\ pending(r)' = pending(r) /\ held' = held /\ held[r] = {}
    BY <1>2, <1>8 DEF begin_drain, refs, pending, memVars
  <2>2. /\ UNCHANGED <<depotVars, writerVars, table, freed, memVars, loaded, exposed>>
        /\ \A q \in Readers \ {r} : rpc'[q] = rpc[q]
    BY <1>0, <1>8 DEF begin_drain, TypeOK
  <2> QED BY <1>0, <1>1, <2>1, <2>2, ReaderFrame DEF memVars
<1>9. CASE end_drain(r) \/ leave_spinning(r)
  <2>1. refs(r)' = {} /\ pending(r)' = pending(r) /\ held'[r] = {}
    BY <1>0, <1>9 DEF end_drain, leave_spinning, refs, pending, memVars, TypeOK
  <2>2. /\ UNCHANGED <<depotVars, writerVars, table, freed, memVars, loaded>>
        /\ \A q \in Readers \ {r} :
              rpc'[q] = rpc[q] /\ held'[q] = held[q] /\ exposed'[q] = exposed[q]
    BY <1>0, <1>9 DEF end_drain, leave_spinning, TypeOK
  <2> QED BY <1>0, <1>1, <2>1, <2>2, ReaderFrame DEF memVars
<1> QED BY <1>3, <1>4, <1>5, <1>6, <1>7, <1>8, <1>9 DEF reader_step

\* Stuttering changes nothing.
LEMMA StutterIInv == ASSUME IInv, UNCHANGED vars PROVE IInv'
  BY DEF IInv, TypeOK, VersionInv, AgeInv, ActiveInv, SectionInv, PinInv, ScanInv,
         refs, pending, vars, depotVars, writerVars, readerVars, memVars

-----------------------------------------------------------------------------
\* The invariant holds in every reachable state.
THEOREM Inductive == Spec => []IInv
<1>1. IInv /\ [Next]_vars => IInv'
  BY WriterIInv, ReaderIInv, StutterIInv DEF Next
<1> QED BY InitIInv, <1>1, PTL DEF Spec

\* The depot's state always has the types that recycle.hpp declares.
THEOREM TypeCorrect == Spec => []TypeOK
<1>1. IInv => TypeOK
  BY DEF IInv
<1> QED BY Inductive, <1>1, PTL

\* With store buffers and with unguarded drains: a table pointer loaded while
\* the writer could see the version of the reader (reader_checkpoint took
\* effect) is valid until the reader's next checkpoint or reader_idle.
THEOREM PublishedSafe == Spec => []PublishedRefsSafe
<1>1. IInv => PublishedRefsSafe
  BY DEF IInv, PinInv, PublishedRefsSafe, refs
<1> QED BY Inductive, <1>1, PTL

-----------------------------------------------------------------------------
\* A step of the writer keeps the owners of objects apart.  registered objects
\* are older than the table and new callbacks take from to_delete.
LEMMA WriterSingleOwner ==
  ASSUME IInv, SingleOwner, writer_step
  PROVE  SingleOwner'
<1> USE DEF SingleOwner
<1>1. CASE (\E r \in Readers : writer_add_reader(r)) \/ start_workers \/ gc_begin
           \/ \E r \in Readers : gc_scan(r)
  BY <1>1 DEF writer_add_reader, start_workers, gc_begin, gc_scan, depotVars, writerVars
<1>2. CASE exchange
  BY <1>2 DEF exchange, depotVars, IInv, AgeInv, TypeOK
<1>3. ASSUME NEW objs \in SUBSET to_delete, writer_add_gc_callback(objs)
      PROVE  SingleOwner'
  <2>1. /\ m_writer_version' = m_writer_version + 1
        /\ m_callbacks' = [v \in DOMAIN m_callbacks \cup {m_writer_version} |->
                              IF v = m_writer_version THEN objs ELSE m_callbacks[v]]
        /\ to_delete' = to_delete \ objs
        /\ UNCHANGED <<table, freed>>
    BY <1>3 DEF writer_add_gc_callback
  <2>2. \A v \in DOMAIN m_callbacks' :
           \/ /\ v \in DOMAIN m_callbacks /\ v # m_writer_version
              /\ m_callbacks'[v] = m_callbacks[v]
           \/ v = m_writer_version /\ m_callbacks'[v] = objs
    BY <2>1
  <2>3. m_writer_version' \notin DOMAIN m_callbacks'
    BY <2>1 DEF IInv, VersionInv, TypeOK
  <2> QED BY <2>1, <2>2, <2>3
<1>4. ASSUME NEW retry \in SUBSET eligible, gc_run(retry)
      PROVE  SingleOwner'
  <2>1. /\ \A v \in DOMAIN m_callbacks' : /\ v \in DOMAIN m_callbacks
                                          /\ v \notin eligible \ retry
                                          /\ m_callbacks'[v] = m_callbacks[v]
        /\ UNCHANGED <<m_writer_version, to_delete, table>>
    BY <1>4 DEF gc_run, eligible
  <2>2. \A o \in freed' : \/ o \in freed
                          \/ \E v \in eligible \ retry :
                                v \in DOMAIN m_callbacks /\ o \in m_callbacks[v]
    BY <1>4 DEF gc_run, eligible
  <2> QED BY <2>1, <2>2
<1> QED BY <1>1, <1>2, <1>3, <1>4 DEF writer_step

\* Whatever the readers do and whichever callbacks answer retry, no object is
\* deleted twice and the live table is never deleted.
THEOREM NoDoubleFree == Spec => []SingleOwner
<1>1. Init => SingleOwner
  BY DEF Init, SingleOwner
<1>2. ASSUME IInv, SingleOwner, [Next]_vars PROVE SingleOwner'
  <2>1. CASE \E r \in Readers : reader_step(r)
    BY <1>2, <2>1 DEF SingleOwner, reader_step, store_drains, reader_checkpoint_load,
       reader_checkpoint_store, load_table, reader_idle, begin_drain, end_drain,
       leave_spinning, depotVars, writerVars
  <2>2. CASE UNCHANGED vars
    BY <1>2, <2>2 DEF SingleOwner, vars, depotVars, writerVars
  <2> QED BY <1>2, <2>1, <2>2, WriterSingleOwner DEF Next
<1> QED BY <1>1, <1>2, Inductive, PTL DEF Spec

-----------------------------------------------------------------------------
Ordered == Readers \ (Draining \cup Buffering)

\* A reader that is guarded everywhere and has no store buffer is never seen idle
\* inside a section, so none of its references is exposed.
VisibleInv ==
    \A r \in Ordered :
        /\ buffered[r] = <<>>
        /\ rpc[r] # "drain"
        /\ rpc[r] = "loaded" => loaded[r] # idle_version
        /\ rpc[r] = "section" => version[r] # idle_version
        /\ exposed[r] = {}

\* VisibleInv is preserved by every step.
LEMMA VisibleStep ==
  ASSUME IInv, VisibleInv, [Next]_vars
  PROVE  VisibleInv'
<1> USE DEF VisibleInv
<1>1. CASE writer_step
  <2>1. UNCHANGED <<readerVars, memVars>>
    BY <1>1 DEF writer_step, writer_add_reader, start_workers, exchange,
       writer_add_gc_callback, gc_begin, gc_scan, gc_run
  <2> QED BY <2>1 DEF readerVars, memVars
<1>2. ASSUME NEW r \in Readers, reader_step(r)
      PROVE  VisibleInv'
  <2>0. TypeOK /\ m_writer_version # idle_version
    BY DEF IInv, VersionInv, TypeOK, base_version, idle_version
  <2>1. ASSUME r \notin Ordered
        PROVE  VisibleInv'
    <3>1. \A q \in Readers \ {r} :
             /\ version'[q] = version[q] /\ buffered'[q] = buffered[q]
             /\ rpc'[q] = rpc[q] /\ loaded'[q] = loaded[q] /\ exposed'[q] = exposed[q]
      BY <2>0, <1>2 DEF reader_step, reader_checkpoint_load, reader_checkpoint_store,
         reader_store, load_table, reader_idle, begin_drain, end_drain, leave_spinning,
         store_drains, readerVars, memVars, TypeOK
    <3> QED BY <2>1, <3>1 DEF Ordered
  <2>2. ASSUME r \in Ordered
        PROVE  VisibleInv'
    <3> USE DEF Ordered
    <3>1. ~store_drains(r) /\ ~begin_drain(r) /\ ~end_drain(r)
      BY <2>2 DEF store_drains, begin_drain, end_drain
    <3>2. CASE reader_checkpoint_load(r)
      BY <2>0, <3>2 DEF reader_checkpoint_load, memVars, TypeOK
    <3>3. CASE reader_checkpoint_store(r)
      BY <2>0, <2>2, <3>3 DEF reader_checkpoint_store, reader_store, TypeOK
    <3>4. CASE load_table(r)
      <4>1. published(r)
        BY <2>2, <3>4 DEF load_table, published
      <4> QED BY <2>0, <3>4, <4>1 DEF load_table, memVars, TypeOK
    <3>5. CASE reader_idle(r)
      BY <2>0, <2>2, <3>5 DEF reader_idle, reader_store, TypeOK
    <3>6. CASE leave_spinning(r)
      BY <2>0, <3>6 DEF leave_spinning, memVars, TypeOK
    <3> QED BY <1>2, <3>1, <3>2, <3>3, <3>4, <3>5, <3>6 DEF reader_step
  <2> QED BY <2>1, <2>2
<1>3. CASE UNCHANGED vars
  BY <1>3 DEF vars, readerVars, memVars
<1> QED BY <1>1, <1>2, <1>3 DEF Next

\* The promise of recycle.hpp, for the readers that meet the two conditions it
\* needs: their stores take effect in program order, and they look at a table
\* only inside a guard or a checkpointed turn.  Such a reader never reaches a
\* deleted object, whatever the other readers do.
THEOREM QsbrSafe == Spec => []OrderedReadersSafe
<1>1. Init => VisibleInv
  BY DEF Init, VisibleInv, Ordered
<1>2. IInv /\ VisibleInv /\ [Next]_vars => VisibleInv'
  BY VisibleStep
<1>3. IInv /\ VisibleInv => OrderedReadersSafe
  BY DEF IInv, PinInv, refs, VisibleInv, Ordered, OrderedReadersSafe
<1> QED BY <1>1, <1>2, <1>3, Inductive, PTL DEF Spec
=============================================================================
