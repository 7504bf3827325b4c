------------------------------ MODULE TxSources ------------------------------
(***************************************************************************)
(* The transmit side of packetio/workers/dpdk/worker_controller.cpp: add,  *)
(* delete and swap of packet sources in the transmit table, the load per   *)
(* worker, and the packet pools of tx_mempool_allocator.cpp, which are     *)
(* shared, counted and given back through the recycler while workers and   *)
(* drivers may still hold packets of them.                                 *)
(*                                                                         *)
(* The recycler appears by what it promises (module Recycle): a callback   *)
(* runs when no reader that was active at its registration still is in the *)
(* same read section.                                                      *)
(***************************************************************************)
EXTENDS Integers, FiniteSets, FiniteSetsExt

CONSTANTS
    Sources,        \* packet sources (generators), by id
    TargetPort,     \* [Sources -> port]
    Load,           \* get_source_load: [Sources -> Nat]
    Signature,      \* the sources that use spirent_signature_encode
    MaxLen,         \* max_packet_length: [Sources -> Nat]
    PortQueues,     \* set of <<port, queue>> with a transmit scheduler
    WorkerOf,       \* m_tx_workers: [PortQueues -> workers]
    Pools,          \* names for rte_mempools
    Overhead,       \* elt_size - room for packet data
    AllocFails,     \* TRUE: a pool allocation may fail
    MaxOut          \* bound: mbufs of one pool in flight

Workers == {WorkerOf[pq] : pq \in PortQueues}
Null    == "null"
Absent  == "absent"

TxSourcesAssumption ==
    /\ IsFiniteSet(Sources) /\ IsFiniteSet(PortQueues)
    /\ Load \in [Sources -> Nat] /\ MaxLen \in [Sources -> Nat]
    /\ Signature \subseteq Sources
    /\ Null \notin Pools /\ Absent \notin Pools
    /\ Overhead \in Nat \ {0} /\ MaxOut \in Nat /\ AllocFails \in BOOLEAN
    /\ \A pq \in PortQueues : pq[2] \in Nat
    /\ \A s \in Sources : \E pq \in PortQueues : pq[1] = TargetPort[s]

VARIABLES
    m_tib,          \* the transmit table: set of [source, pq, pool]
    m_tx_loads,     \* [Workers -> Nat]
    m_pools,        \* shared pools: set of [pool, pq, ref_count]
    m_source_pools, \* [Sources -> Pools \cup {Null, Absent}]
    elt_size,       \* [Pools -> Nat], 0: not allocated
    callbacks,      \* pending do_mempool_release: set of [pool, readers]
    active,         \* workers in a read section
    using,          \* [Workers -> pool of the source it has in hand, or Absent]
    out             \* [Pools -> mbufs held by workers and drivers]

tableVars == <<m_tib, m_tx_loads>>
poolVars  == <<m_pools, m_source_pools, elt_size, callbacks>>
readVars  == <<active, using, out>>
vars == <<tableVars, poolVars, readVars>>

Init ==
    /\ m_tib = {}
    /\ m_tx_loads = [w \in Workers |-> 0]
    /\ m_pools = {}
    /\ m_source_pools = [s \in Sources |-> Absent]
    /\ elt_size = [p \in Pools |-> 0]
    /\ callbacks = {}
    /\ active = {}
    /\ using = [w \in Workers |-> Absent]
    /\ out = [p \in Pools |-> 0]

-----------------------------------------------------------------------------
(* tx_mempool_allocator.                                                   *)

live(p) == elt_size[p] > 0

\* get_mempool: a fresh pool, or none when memory is short.
get_mempool == {p \in Pools : ~live(p)} \cup (IF AllocFails THEN {Null} ELSE {})

\* std::map::emplace: an entry that is already there stays.
emplace(s, p) == IF m_source_pools[s] = Absent
                 THEN [m_source_pools EXCEPT ![s] = p] ELSE m_source_pools

allocate(p, s) == IF p = Null THEN elt_size
                  ELSE [elt_size EXCEPT ![p] = MaxLen[s] + Overhead]

\* The shared pools of a queue that acquire() takes to be large enough.
matching(pq, s) == {e \in m_pools : e.pq = pq /\ MaxLen[s] <= elt_size[e.pool]}

\* One more source uses the shared pool e.
share(e) == (m_pools \ {e}) \cup {[e EXCEPT !.ref_count = @ + 1]}

\* acquire: what can become of a request for a pool for source s at queue pq.
\* A source without signatures gets a pool of its own, others the smallest
\* matching shared pool or a new one.  pool = Null: out of memory.
acquire(pq, s) ==
    LET own   == {[pool |-> p, shared |-> m_pools, known |-> emplace(s, p),
                   size |-> allocate(p, s)] : p \in get_mempool}
        e     == CHOOSE e \in matching(pq, s) :
                    \A f \in matching(pq, s) : elt_size[e.pool] <= elt_size[f.pool]
        reuse == [pool |-> e.pool, shared |-> share(e), known |-> emplace(s, e.pool),
                  size |-> elt_size]
        fresh(p) == [pool |-> p,
                     shared |-> m_pools \cup {[pool |-> p, pq |-> pq, ref_count |-> 1]},
                     known |-> emplace(s, p),
                     size |-> allocate(p, s)]
        fail  == [pool |-> Null, shared |-> m_pools, known |-> m_source_pools,
                  size |-> elt_size]
    IN  IF s \notin Signature THEN own
        ELSE IF matching(pq, s) # {} THEN {reuse}
        ELSE {IF p = Null THEN fail ELSE fresh(p) : p \in get_mempool}

recycle(p) == callbacks \cup {[pool |-> p, readers |-> active]}

\* release: the last source of a pool hands it to the recycler.  a holds the
\* pools as an acquire() before it has left them.
release(s, a) ==
    IF a.known[s] = Absent
    THEN m_pools' = a.shared /\ m_source_pools' = a.known /\ UNCHANGED callbacks
    ELSE LET mine == {e \in a.shared : e.pool = a.known[s]}
             kept == {[e EXCEPT !.ref_count = @ - 1] : e \in {f \in mine : f.ref_count > 1}}
         IN  /\ m_source_pools' = [a.known EXCEPT ![s] = Absent]
             /\ m_pools' = (a.shared \ mine) \cup kept
             /\ callbacks' = IF kept # {} THEN callbacks ELSE recycle(a.known[s])

-----------------------------------------------------------------------------
(* worker_controller.                                                      *)

\* get_queue_and_worker_idx: the first of the port's queues whose worker has the
\* least load.
get_queue(port, loads) ==
    LET range == {pq \in PortQueues : pq[1] = port}
        least == {pq \in range : \A r \in range : loads[WorkerOf[pq]] <= loads[WorkerOf[r]]}
    IN  CHOOSE pq \in least : \A r \in least : pq[2] <= r[2]

find_queue(s) == {e \in m_tib : e.source = s}
plus_load(loads, w, s)  == [loads EXCEPT ![w] = @ + Load[s]]
minus_load(loads, w, s) == [loads EXCEPT ![w] = IF Load[s] <= @ THEN @ - Load[s] ELSE 0]

entry(s, pq, pool) == [source |-> s, pq |-> pq, pool |-> pool]

add_source(s) ==
    /\ find_queue(s) = {}
    /\ LET pq == get_queue(TargetPort[s], m_tx_loads)
       IN  \E a \in acquire(pq, s) :
              /\ m_pools' = a.shared /\ m_source_pools' = a.known /\ elt_size' = a.size
              /\ IF a.pool = Null
                 THEN UNCHANGED tableVars
                 ELSE /\ m_tib' = m_tib \cup {entry(s, pq, a.pool)}
                      /\ m_tx_loads' = plus_load(m_tx_loads, WorkerOf[pq], s)
    /\ UNCHANGED <<callbacks, readVars>>

del_source(s) ==
    \E e \in find_queue(s) :
        /\ m_tx_loads' = minus_load(m_tx_loads, WorkerOf[e.pq], s)
        /\ m_tib' = m_tib \ {e}
        /\ release(s, [shared |-> m_pools, known |-> m_source_pools])
        /\ UNCHANGED <<elt_size, readVars>>

\* Mutation: when there is no pool the load of the outgoing source is not put
\* back.
swap_source_forgets(o, i) ==
    /\ o # i /\ TargetPort[o] = TargetPort[i] /\ find_queue(i) = {}
    /\ \E e \in find_queue(o) :
          LET loads == minus_load(m_tx_loads, WorkerOf[e.pq], o)
              pq    == get_queue(TargetPort[i], loads)
          IN  \E a \in acquire(pq, i) :
                 IF a.pool = Null
                 THEN /\ m_tx_loads' = loads
                      /\ m_source_pools' = a.known
                      /\ UNCHANGED <<m_tib, m_pools, elt_size, callbacks>>
                 ELSE /\ m_tx_loads' = plus_load(loads, WorkerOf[pq], i)
                      /\ m_tib' = (m_tib \ {e}) \cup {entry(i, pq, a.pool)}
                      /\ elt_size' = a.size
                      /\ release(o, a)
    /\ UNCHANGED readVars

\* Queue and pool of the incoming source are chosen with the outgoing one's
\* load removed.  Without a pool the load is put back; else the table entries
\* are exchanged and then the outgoing source's pool is released.
swap_source(o, i) ==
    /\ o # i /\ TargetPort[o] = TargetPort[i] /\ find_queue(i) = {}
    /\ \E e \in find_queue(o) :
          LET loads == minus_load(m_tx_loads, WorkerOf[e.pq], o)
              pq    == get_queue(TargetPort[i], loads)
          IN  \E a \in acquire(pq, i) :
                 IF a.pool = Null
                 THEN /\ m_tx_loads' = plus_load(loads, WorkerOf[e.pq], o)
                      /\ m_source_pools' = a.known
                      /\ UNCHANGED <<m_tib, m_pools, elt_size, callbacks>>
                 ELSE /\ m_tx_loads' = plus_load(loads, WorkerOf[pq], i)
                      /\ m_tib' = (m_tib \ {e}) \cup {entry(i, pq, a.pool)}
                      /\ elt_size' = a.size
                      /\ release(o, a)
    /\ UNCHANGED readVars

-----------------------------------------------------------------------------
(* The recycler and the workers.                                           *)

\* The callback of a pool with buffers out answers "retry" and stays.  (With no
\* pool at all it would crash; NoNullRelease is about that.)
do_mempool_release(c) ==
    /\ c.readers = {} /\ c.pool # Null
    /\ out[c.pool] = 0
    /\ elt_size' = [elt_size EXCEPT ![c.pool] = 0]
    /\ callbacks' = callbacks \ {c}
    /\ UNCHANGED <<tableVars, m_pools, m_source_pools, readVars>>

without(w) == {[c EXCEPT !.readers = @ \ {w}] : c \in callbacks}

\* A read section begins, and ends or passes a checkpoint.
guard(w) ==
    /\ w \notin active
    /\ active' = active \cup {w}
    /\ UNCHANGED <<tableVars, poolVars, using, out>>

\* Mutation: the recycler does not hear of it.
checkpoint_silent(w) ==
    /\ w \in active /\ using[w] = Absent
    /\ active' \in {active, active \ {w}}
    /\ UNCHANGED <<tableVars, poolVars, using, out>>

checkpoint(w) ==
    /\ w \in active /\ using[w] = Absent
    /\ active' \in {active, active \ {w}}
    /\ callbacks' = without(w)
    /\ UNCHANGED <<tableVars, m_pools, m_source_pools, elt_size, using, out>>

\* The transmit scheduler of one of its queues finds a source in the table...
get_source(w) ==
    /\ w \in active /\ using[w] = Absent
    /\ \E e \in {x \in m_tib : WorkerOf[x.pq] = w} : using' = [using EXCEPT ![w] = e.pool]
    /\ UNCHANGED <<tableVars, poolVars, active, out>>

\* ... takes a packet buffer from its pool ...
pull(w) ==
    /\ using[w] # Absent
    /\ out[using[w]] < MaxOut
    /\ out' = [out EXCEPT ![using[w]] = @ + 1]
    /\ UNCHANGED <<tableVars, poolVars, active, using>>

\* ... and is done with it.
done(w) ==
    /\ using[w] # Absent
    /\ using' = [using EXCEPT ![w] = Absent]
    /\ UNCHANGED <<tableVars, poolVars, active, out>>

\* The driver has sent a packet and puts its buffer back.
sent(p) ==
    /\ out[p] > 0
    /\ out' = [out EXCEPT ![p] = @ - 1]
    /\ UNCHANGED <<tableVars, poolVars, active, using>>

server == \E s \in Sources : \/ add_source(s) \/ del_source(s)
                             \/ \E i \in Sources : swap_source(s, i)
gc == \E c \in callbacks : do_mempool_release(c)
worker(w) == guard(w) \/ checkpoint(w) \/ get_source(w) \/ pull(w) \/ done(w)

Next == \/ server \/ gc
        \/ \E w \in Workers : worker(w)
        \/ \E p \in Pools : sent(p)

Spec == Init /\ [][Next]_vars

\* The recycler's timer keeps firing, workers leave what they are doing, and
\* drivers send what they have.
Fairness ==
    /\ \A p \in Pools : WF_vars(\E c \in callbacks : c.pool = p /\ do_mempool_release(c))
    /\ \A w \in Workers : WF_vars(done(w)) /\ SF_vars(checkpoint(w))
    /\ \A p \in Pools : WF_vars(sent(p))

FairSpec == Spec /\ Fairness

-----------------------------------------------------------------------------
(* Properties.                                                             *)

\* Every variable has its type.
TypeOK ==
    /\ m_tib \subseteq [source : Sources, pq : PortQueues, pool : Pools]
    /\ m_tx_loads \in [Workers -> Nat]
    /\ m_pools \subseteq [pool : Pools, pq : PortQueues, ref_count : 1..Cardinality(Sources)]
    /\ m_source_pools \in [Sources -> Pools \cup {Null, Absent}]
    /\ elt_size \in [Pools -> Nat]
    /\ callbacks \subseteq [pool : Pools \cup {Null}, readers : SUBSET Workers]
    /\ active \subseteq Workers
    /\ using \in [Workers -> Pools \cup {Absent}]
    /\ out \in [Pools -> 0..MaxOut]

\* m_tx_loads is the sum of the loads of the sources each worker serves, after
\* any sequence of adds, deletes and swaps, failed ones included.
LoadConserved ==
    \A w \in Workers :
        m_tx_loads[w] = MapThenSumSet(LAMBDA e : Load[e.source],
                                      {e \in m_tib : WorkerOf[e.pq] = w})

\* A shared pool is known once and counts the sources of the table that use it.
RefCounted ==
    /\ \A e, f \in m_pools : e.pool = f.pool => e = f
    /\ \A e \in m_pools :
          e.ref_count = Cardinality({x \in m_tib : x.pool = e.pool})

\* A pool is not freed while the table offers it, a worker that found its
\* source in an older table still uses it, or buffers of it are out.
PoolsOutliveUse ==
    /\ \A e \in m_tib : live(e.pool)
    /\ \A w \in Workers : using[w] # Absent => live(using[w])
    /\ \A p \in Pools : out[p] > 0 => live(p)

\* Every pool is in use or on its way back: failed adds and swaps lose none, as
\* long as no nullptr takes the place of a pool (see NoNullRelease).
NoPoolLost ==
    (\A c \in callbacks : c.pool # Null) =>
        \A p \in Pools : live(p) => \/ \E e \in m_tib : e.pool = p
                                    \/ \E c \in callbacks : c.pool = p

\* A pool whose last source has gone is freed one day.
PoolsReclaimed ==
    \A p \in Pools : (\E c \in callbacks : c.pool = p) ~> ~live(p)

\* acquire() finds "the one with the lowest packet size that works": a pool has
\* room for the largest packet of each source that uses it.
PoolFits == \A e \in m_tib : MaxLen[e.source] <= elt_size[e.pool] - Overhead

\* m_source_pools maps a source to its pool: a pool is released, not a nullptr.
NoNullRelease == \A c \in callbacks : c.pool # Null
=============================================================================
