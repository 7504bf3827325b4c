------------------------------- MODULE Recycle -------------------------------
(***************************************************************************)
(* Quiescent state based reclamation: openperf::utils::recycle::depot and  *)
(* guard (framework/utils/recycle.hpp, recycle.tcc) together with the way  *)
(* the packetio workers use them (workers/dpdk/worker.cpp) and the way     *)
(* worker_controller feeds them (exchange a table pointer, then register   *)
(* a callback that deletes the old table).                                 *)
(*                                                                         *)
(* One root pointer, table, stands for every pointer that the writer swaps *)
(* (interface maps, sink vectors, the source map).  Object n is the n-th   *)
(* table ever published; object 0 is the one the constructor allocated.    *)
(* The writer is the single server thread; each reader is one worker.      *)
(*                                                                         *)
(* Three kinds of reader, by the run function of worker.cpp:               *)
(*   Spinning  run_spinning: checkpoint on every turn, never idle again;   *)
(*   Draining  run_pollable with rx queues: serves them once before the    *)
(*             loop, outside of any guard, then polls under a guard;       *)
(*   others    run_pollable without rx queues: polls under a guard.        *)
(*                                                                         *)
(* The plain stores (memory_order_release on x86) of a reader in Buffering *)
(* wait in its store buffer while later loads execute; the writer's        *)
(* exchange and fetch_add are locked instructions and never wait.          *)
(***************************************************************************)
EXTENDS Integers, Sequences, FiniteSets

CONSTANTS
    Readers,        \* the registered worker threads
    Spinning,       \* readers that execute run_spinning
    Draining,       \* readers that execute run_pollable with rx queues
    Buffering,      \* readers whose stores may be delayed
    MaxTables,      \* bound: number of pointer exchanges
    MaxVersion,     \* bound: writer version above which no empty callback is added
    MaxBuffered     \* bound: stores waiting in one store buffer

ASSUME RecycleAssumption ==
    /\ IsFiniteSet(Readers)
    /\ Spinning \subseteq Readers
    /\ Draining \subseteq Readers \ Spinning
    /\ Buffering \subseteq Readers
    /\ MaxTables \in Nat /\ MaxVersion \in Nat /\ MaxBuffered \in Nat

idle_version == 0
base_version == 1

VARIABLES
    m_writer_version,  \* version counter, advanced by every new callback
    m_callbacks,       \* version |-> objects that its callback deletes
    m_active_readers,  \* readers registered with the depot
    version,           \* version[r]: m_reader_states[r].version in memory
    buffered,          \* buffered[r]: stores of r not yet in memory
    table,             \* the object the shared pointer refers to
    to_delete,         \* objects unlinked, callback not yet registered
    freed,             \* objects that a callback has deleted
    wpc,               \* writer: "setup", "ready" or "scan"
    min_version,       \* writer: running minimum of the scan (local, reset after)
    unscanned,         \* writer: readers the scan has still to look at
    rpc,               \* rpc[r]: where reader r is
    loaded,            \* loaded[r]: version read by the checkpoint (local, reset after)
    held,              \* held[r]: objects r may still dereference
    exposed            \* exposed[r]: history, the members of held[r] that r
                       \* picked up while the writer could see it idle

depotVars  == <<m_writer_version, m_callbacks, m_active_readers>>
writerVars == <<wpc, min_version, unscanned, to_delete>>
readerVars == <<rpc, loaded, held, exposed>>
memVars    == <<version, buffered>>
vars == <<depotVars, writerVars, readerVars, memVars, table, freed>>

ReaderStates == {"idle", "drain", "loaded", "section", "parked"}

Init ==
    /\ m_writer_version = base_version
    /\ m_callbacks = [v \in {} |-> {}]
    /\ m_active_readers = {}
    /\ version = [r \in Readers |-> idle_version]
    /\ buffered = [r \in Readers |-> <<>>]
    /\ table = 0
    /\ to_delete = {}
    /\ freed = {}
    /\ wpc = "setup"
    /\ min_version = base_version
    /\ unscanned = {}
    /\ rpc = [r \in Readers |-> "idle"]
    /\ loaded = [r \in Readers |-> idle_version]
    /\ held = [r \in Readers |-> {}]
    /\ exposed = [r \in Readers |-> {}]

-----------------------------------------------------------------------------
(* The writer: worker_controller on the server thread.                     *)

\* The constructor registers every worker before it starts them.
writer_add_reader(r) ==
    /\ wpc = "setup"
    /\ r \in Readers \ m_active_readers
    /\ m_active_readers' = m_active_readers \cup {r}
    /\ UNCHANGED <<m_writer_version, m_callbacks, writerVars, readerVars,
                   memVars, table, freed>>

start_workers ==
    /\ wpc = "setup"
    /\ m_active_readers = Readers
    /\ wpc' = "ready"
    /\ UNCHANGED <<depotVars, min_version, unscanned, to_delete, readerVars,
                   memVars, table, freed>>

\* insert_* and remove_* of the forwarding and transmit tables: build a new
\* object and exchange the pointer; the caller keeps the old one to delete.
exchange ==
    /\ wpc = "ready"
    /\ table < MaxTables
    /\ table' = table + 1
    /\ to_delete' = to_delete \cup {table}
    /\ UNCHANGED <<depotVars, wpc, min_version, unscanned, readerVars,
                   memVars, freed>>

\* emplace is local to the writer; fetch_add is what readers can see.  objs
\* is {} when the table operation found nothing and returned nullptr.
writer_add_gc_callback(objs) ==
    /\ wpc = "ready"
    /\ objs \subseteq to_delete
    /\ objs = {} => m_writer_version < MaxVersion
    /\ to_delete' = to_delete \ objs
    /\ IF m_writer_version \in DOMAIN m_callbacks
       THEN UNCHANGED <<m_callbacks, m_writer_version>>
       ELSE /\ m_callbacks' =
                  [v \in DOMAIN m_callbacks \cup {m_writer_version} |->
                      IF v = m_writer_version THEN objs ELSE m_callbacks[v]]
            /\ m_writer_version' = m_writer_version + 1
    /\ UNCHANGED <<m_active_readers, wpc, min_version, unscanned, readerVars,
                   memVars, table, freed>>

\* writer_process_gc_callbacks, from the recycler's timer: the scan reads the
\* reader versions one at a time while the readers keep running.
gc_begin ==
    /\ wpc = "ready"
    /\ to_delete = {}
    /\ wpc' = "scan"
    /\ min_version' = m_writer_version
    /\ unscanned' = m_active_readers
    /\ UNCHANGED <<depotVars, to_delete, readerVars, memVars, table, freed>>

gc_scan(r) ==
    /\ wpc = "scan"
    /\ r \in unscanned
    /\ unscanned' = unscanned \ {r}
    /\ min_version' = IF version[r] # idle_version /\ version[r] < min_version
                      THEN version[r] ELSE min_version
    /\ UNCHANGED <<depotVars, wpc, to_delete, readerVars, memVars, table, freed>>

\* Mutation: upper_bound instead of lower_bound.
eligible_inclusive == {v \in DOMAIN m_callbacks : v <= min_version}

eligible == {v \in DOMAIN m_callbacks : v < min_version}

\* Mutation: callbacks that answered ok are not erased.
gc_run_keep(retry) ==
    /\ wpc = "scan"
    /\ unscanned = {}
    /\ retry \subseteq eligible
    /\ freed' = freed \cup UNION {m_callbacks[v] : v \in eligible \ retry}
    /\ wpc' = "ready"
    /\ min_version' = base_version
    /\ UNCHANGED <<depotVars, unscanned, to_delete, readerVars, memVars, table>>

\* Each eligible callback answers ok (and is erased) or retry (and is kept).
gc_run(retry) ==
    /\ wpc = "scan"
    /\ unscanned = {}
    /\ retry \subseteq eligible
    /\ freed' = freed \cup UNION {m_callbacks[v] : v \in eligible \ retry}
    /\ m_callbacks' = [v \in (DOMAIN m_callbacks \ eligible) \cup retry |->
                          m_callbacks[v]]
    /\ wpc' = "ready"
    /\ min_version' = base_version
    /\ UNCHANGED <<m_writer_version, m_active_readers, unscanned, to_delete,
                   readerVars, memVars, table>>

-----------------------------------------------------------------------------
(* The readers.                                                            *)

\* A store by reader r: into its store buffer if there is one.
reader_store(r, v) ==
    IF r \in Buffering
    THEN /\ Len(buffered[r]) < MaxBuffered
         /\ buffered' = [buffered EXCEPT ![r] = Append(@, v)]
         /\ UNCHANGED version
    ELSE /\ version' = [version EXCEPT ![r] = v]
         /\ UNCHANGED buffered

\* The hardware writes the oldest waiting store to memory.
store_drains(r) ==
    /\ buffered[r] # <<>>
    /\ version' = [version EXCEPT ![r] = Head(buffered[r])]
    /\ buffered' = [buffered EXCEPT ![r] = Tail(@)]
    /\ UNCHANGED <<depotVars, writerVars, readerVars, table, freed>>

\* reader_checkpoint, first half: load the writer's version.  A spinning
\* reader is at the top of its loop and has dropped what it held.
reader_checkpoint_load(r) ==
    /\ wpc # "setup"
    /\ \/ rpc[r] = "idle"
       \/ rpc[r] \in {"section", "parked"} /\ r \in Spinning
    /\ loaded' = [loaded EXCEPT ![r] = m_writer_version]
    /\ held' = [held EXCEPT ![r] = {}]
    /\ exposed' = [exposed EXCEPT ![r] = {}]
    /\ rpc' = [rpc EXCEPT ![r] = "loaded"]
    /\ UNCHANGED <<depotVars, writerVars, memVars, table, freed>>

\* Mutation: the version is not published.
reader_checkpoint_store_none(r) ==
    /\ rpc[r] = "loaded"
    /\ rpc' = [rpc EXCEPT ![r] = "section"]
    /\ loaded' = [loaded EXCEPT ![r] = idle_version]
    /\ UNCHANGED <<depotVars, writerVars, held, exposed, memVars, table, freed>>

\* reader_checkpoint, second half: publish it.
reader_checkpoint_store(r) ==
    /\ rpc[r] = "loaded"
    /\ reader_store(r, loaded[r])
    /\ rpc' = [rpc EXCEPT ![r] = "section"]
    /\ loaded' = [loaded EXCEPT ![r] = idle_version]
    /\ UNCHANGED <<depotVars, writerVars, held, exposed, table, freed>>

\* The writer cannot find r idle, now or when waiting stores arrive.
published(r) ==
    /\ version[r] # idle_version
    /\ \A i \in 1..Len(buffered[r]) : buffered[r][i] # idle_version

\* A lookup while packets are being served: load the table pointer.
load_table(r) ==
    /\ rpc[r] \in {"section", "drain"}
    /\ held' = [held EXCEPT ![r] = @ \cup {table}]
    /\ exposed' = [exposed EXCEPT ![r] =
                      IF published(r) THEN @ ELSE @ \cup {table}]
    /\ UNCHANGED <<depotVars, writerVars, rpc, loaded, memVars, table, freed>>

\* Mutation: the guard's destructor does not publish idle.
reader_idle_silent(r) ==
    /\ rpc[r] = "section"
    /\ r \notin Spinning
    /\ held' = [held EXCEPT ![r] = {}]
    /\ exposed' = [exposed EXCEPT ![r] = {}]
    /\ rpc' = [rpc EXCEPT ![r] = "idle"]
    /\ UNCHANGED <<depotVars, writerVars, loaded, memVars, table, freed>>

\* The destructor of guard: reader_idle.
reader_idle(r) ==
    /\ rpc[r] = "section"
    /\ r \notin Spinning
    /\ reader_store(r, idle_version)
    /\ held' = [held EXCEPT ![r] = {}]
    /\ exposed' = [exposed EXCEPT ![r] = {}]
    /\ rpc' = [rpc EXCEPT ![r] = "idle"]
    /\ UNCHANGED <<depotVars, writerVars, loaded, table, freed>>

\* run_pollable (re)entered for a control message: serve the rx queues until
\* they are empty, before the loop that takes the guard.
begin_drain(r) ==
    /\ wpc # "setup"
    /\ r \in Draining
    /\ rpc[r] = "idle"
    /\ rpc' = [rpc EXCEPT ![r] = "drain"]
    /\ UNCHANGED <<depotVars, writerVars, loaded, held, exposed, memVars,
                   table, freed>>

end_drain(r) ==
    /\ rpc[r] = "drain"
    /\ held' = [held EXCEPT ![r] = {}]
    /\ exposed' = [exposed EXCEPT ![r] = {}]
    /\ rpc' = [rpc EXCEPT ![r] = "idle"]
    /\ UNCHANGED <<depotVars, writerVars, loaded, memVars, table, freed>>

\* run_spinning returns for a control message: the reader stops using the
\* tables but leaves its last version published.
leave_spinning(r) ==
    /\ r \in Spinning
    /\ rpc[r] = "section"
    /\ held' = [held EXCEPT ![r] = {}]
    /\ exposed' = [exposed EXCEPT ![r] = {}]
    /\ rpc' = [rpc EXCEPT ![r] = "parked"]
    /\ UNCHANGED <<depotVars, writerVars, loaded, memVars, table, freed>>

-----------------------------------------------------------------------------
writer_step ==
    \/ \E r \in Readers : writer_add_reader(r)
    \/ start_workers
    \/ exchange
    \/ \E objs \in SUBSET to_delete : writer_add_gc_callback(objs)
    \/ gc_begin
    \/ \E r \in Readers : gc_scan(r)
    \/ \E retry \in SUBSET eligible : gc_run(retry)

reader_step(r) ==
    \/ store_drains(r)
    \/ reader_checkpoint_load(r)
    \/ reader_checkpoint_store(r)
    \/ load_table(r)
    \/ reader_idle(r)
    \/ begin_drain(r)
    \/ end_drain(r)
    \/ leave_spinning(r)

Next == writer_step \/ \E r \in Readers : reader_step(r)

Spec == Init /\ [][Next]_vars

-----------------------------------------------------------------------------
(* Properties.                                                             *)

\* Every variable has its type.
TypeOK ==
    /\ m_writer_version \in Nat
    /\ DOMAIN m_callbacks \subseteq Nat
    /\ m_callbacks \in [DOMAIN m_callbacks -> SUBSET Nat]
    /\ m_active_readers \subseteq Readers
    /\ version \in [Readers -> Nat]
    /\ buffered \in [Readers -> Seq(Nat)]
    /\ table \in Nat
    /\ to_delete \subseteq Nat
    /\ freed \subseteq Nat
    /\ wpc \in {"setup", "ready", "scan"}
    /\ min_version \in Nat
    /\ unscanned \subseteq Readers
    /\ rpc \in [Readers -> ReaderStates]
    /\ loaded \in [Readers -> Nat]
    /\ held \in [Readers -> SUBSET Nat]
    /\ exposed \in [Readers -> SUBSET Nat]

\* What recycle.hpp promises: "safely deleting data shared with a bunch of
\* reader threads".  No worker can reach an object that a garbage collection
\* callback has deleted.
NoUseAfterFree ==
    \A r \in Readers : held[r] \cap freed = {}

\* It holds for workers that look at tables only inside a guard or a checkpointed
\* turn and whose stores take effect before their later loads, however many
\* other workers do not.
OrderedReadersSafe ==
    \A r \in Readers \ (Draining \cup Buffering) : held[r] \cap freed = {}

\* What the depot guarantees to all, store buffers and unguarded drains included:
\* a reference that a worker picked up while its version was visible to the
\* writer stays valid until the worker's next checkpoint or reader_idle.
PublishedRefsSafe ==
    \A r \in Readers : (held[r] \ exposed[r]) \cap freed = {}

\* An object is deleted at most once and the live table never: what callbacks
\* wait to delete, what was deleted, what is still to be registered and the
\* current table are disjoint, also when callbacks answer retry.
SingleOwner ==
    /\ \A v \in DOMAIN m_callbacks :
          /\ m_callbacks[v] \cap (freed \cup to_delete \cup {table}) = {}
          /\ \A w \in DOMAIN m_callbacks :
                w # v => m_callbacks[v] \cap m_callbacks[w] = {}
    /\ freed \cap (to_delete \cup {table}) = {}
    /\ table \notin to_delete
    /\ m_writer_version \notin DOMAIN m_callbacks

-----------------------------------------------------------------------------
(* Liveness.  A spinning worker comes back to its checkpoint (its poll has *)
(* a timeout); a polling worker may sleep in poll for ever, but leaves the *)
(* section it is in.  The recycler's timer keeps firing, waiting stores    *)
(* reach memory and a callback that is tried again and again succeeds.     *)

Fairness ==
    /\ WF_vars(\E r \in Readers : writer_add_reader(r))
    /\ WF_vars(start_workers)
    /\ WF_vars(to_delete # {} /\ writer_add_gc_callback(to_delete))
    /\ WF_vars(gc_begin)
    /\ WF_vars(\E r \in Readers : gc_scan(r))
    /\ WF_vars(gc_run({}))
    /\ SF_vars(gc_run({}) /\ eligible # {})
    /\ \A r \in Readers :
          /\ WF_vars(store_drains(r))
          /\ WF_vars(r \in Spinning /\ reader_checkpoint_load(r))
          /\ WF_vars(reader_checkpoint_store(r))
          /\ WF_vars(reader_idle(r))
          /\ WF_vars(end_drain(r))

FairSpec == Spec /\ Fairness

registered(o) == \E v \in DOMAIN m_callbacks : o \in m_callbacks[v]

\* Nothing leaks: every object whose callback is registered is deleted in the
\* end, whatever the readers do, as long as they keep turning.
EventuallyFreed ==
    \A o \in 0..MaxTables : registered(o) ~> o \in freed
=============================================================================
