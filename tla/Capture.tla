------------------------------- MODULE Capture -------------------------------
(***************************************************************************)
(* packet/capture/server.cpp and sink.cpp: captures, the results of their  *)
(* starts, and transfers of results to HTTP clients.                       *)
(*                                                                         *)
(* The server thread handles one request, event or timer at a time.        *)
(* Workers push packets into a sink without a lock; the server and they    *)
(* change the state of a result with a load and a compare and exchange.    *)
(* Transfers have a thread each.  Workers and transfers reach the server   *)
(* through eventfds (event_trigger).  Descriptors are numbers that are     *)
(* used again after a close.                                               *)
(*                                                                         *)
(* Slots for sinks, results and transfers are used again when nothing      *)
(* refers to them.  The state of a freed result that something refers to   *)
(* is anything.  Requests that fail (no worker, no memory) change nothing  *)
(* and do not appear; bulk requests that name captures are sequences of    *)
(* the ones modelled, also where they undo what they did.                  *)
(***************************************************************************)
EXTENDS Integers, FiniteSets

CONSTANTS
    Captures,       \* ids of captures, in the order in which m_sinks is sorted
    Confs,          \* how captures may be configured
    Workers,        \* workers of the port
    Fds,            \* numbers of descriptors
    MaxSinks, MaxResults, MaxTransfers,     \* bounds
    MaxBurst        \* bound: packets in a burst

CaptureAssumption ==
    /\ Captures \subseteq Nat \ {0}
    /\ IsFiniteSet(Fds) /\ Fds \subseteq Nat \ {0}
    /\ {MaxSinks, MaxResults, MaxTransfers, MaxBurst} \subseteq Nat
    /\ Confs \subseteq [duration : BOOLEAN, start_trigger : BOOLEAN, packet_count : Nat]

VARIABLES
    conf,           \* sink_config of all captures: duration, start_trigger, packet_count
    sinks,          \* sinks[s]: m_sinks, the sinks in m_trash, those that only the
                    \* workers have any more ("lost"), and freed ones
    results,        \* results[r]: m_results, the results in m_trash, and freed ones
    transfers,      \* transfers[t]: m_transfers
    m_triggers,     \* m_triggers[fd]: whose event_trigger, or Nobody
    fd,             \* fd[o]: descriptor of the event_trigger of o, 0 if o has none
    held,           \* whose callback refers to its event_trigger
    open, polled, ready,    \* descriptors open, in epoll, and readable
    stopping,       \* sink::stop() of the server between its load and its exchange
    push            \* push[w]: where worker w is in sink::push()

evars == <<m_triggers, fd, held, open, polled, ready>>
vars == <<conf, sinks, results, transfers, evars, stopping, push>>

Null == 0
Nobody == <<"none", 0>>
Sinks == 1..MaxSinks
Results == 1..MaxResults
Transfers == 1..MaxTransfers
ofResult(r) == <<"result", r>>
ofTransfer(t) == <<"transfer", t>>
Owners == {ofResult(r) : r \in Results} \cup {ofTransfer(t) : t \in Transfers}
States == {"STOPPED", "ARMED", "RUNNING"}

NoSink == [id |-> Null, where |-> "freed", m_results |-> Null, m_packet_count |-> 0]
NoResult == [parent |-> Null, where |-> "freed", state |-> "STOPPED",
             timer |-> FALSE, packets |-> 0]
NoTransfer == [phase |-> "gone", results |-> {}]
NotStopping == [sink |-> Null, result |-> Null, cur |-> "STOPPED"]
Idle == [pc |-> "idle", sink |-> Null, result |-> Null, to |-> "STOPPED",
         cur |-> "STOPPED", count |-> 0, burst |-> 0]

Init ==
    /\ conf \in Confs
    /\ sinks = [s \in Sinks |-> NoSink]
    /\ results = [r \in Results |-> NoResult]
    /\ transfers = [t \in Transfers |-> NoTransfer]
    /\ m_triggers = [f \in Fds |-> Nobody]
    /\ fd = [o \in Owners |-> 0]
    /\ held = {} /\ open = {} /\ polled = {} /\ ready = {}
    /\ stopping = NotStopping
    /\ push = [w \in Workers |-> Idle]

listed == {s \in Sinks : sinks[s].where = "listed"}
in_workers == {s \in Sinks : sinks[s].where \in {"listed", "lost"}}
in_results == {r \in Results : results[r].where = "listed"}
in_trash == {r \in Results : results[r].where = "trash"}

\* sink::active(), which reads the result even if it is freed.
active(s) ==
    LET r == sinks[s].m_results IN r # Null /\ results[r].state # "STOPPED"

\* Whether a result slot is free and no pointer leads to it.
referenced(r) ==
    \/ \E s \in Sinks : sinks[s].where # "freed" /\ sinks[s].m_results = r
    \/ \E w \in Workers : push[w].result = r
    \/ \E t \in Transfers : r \in transfers[t].results
    \/ stopping.result = r
fresh_results == {r \in Results : /\ results[r].where = "freed" /\ ~referenced(r)
                                  /\ fd[ofResult(r)] = 0}
fresh_sinks == {s \in Sinks : /\ sinks[s].where = "freed"
                              /\ \A w \in Workers : push[w].sink # s
                              /\ \A r \in in_results \cup in_trash : results[r].parent # s}
fresh_transfers == {t \in Transfers : /\ transfers[t].phase = "gone"
                                      /\ fd[ofTransfer(t)] = 0}
first(S) == CHOOSE n \in S : \A m \in S : n <= m

-----------------------------------------------------------------------------
(* Event triggers.  One that neither m_triggers nor its callback refers to *)
(* is destroyed, which closes its descriptor whatever it is by now.        *)

settle(map, hold, fds, closing, O, P, R) ==
    LET dead == {o \in Owners : /\ fds[o] # 0 /\ o \notin hold
                                /\ \A f \in Fds : map[f] # o}
        closed == closing \cup {fds[o] : o \in dead}
    IN  /\ m_triggers' = map /\ held' = hold
        /\ fd' = [o \in Owners |-> IF o \in dead THEN 0 ELSE fds[o]]
        /\ open' = O \ closed /\ polled' = P \ closed /\ ready' = R \ closed

\* The callbacks of freed results and transfers are gone.
release(owners) == settle(m_triggers, held \ owners, fd, {}, open, polled, ready)

\* make_shared<event_trigger>, which takes the lowest free number, and
\* add_event_trigger(); then, if the event is signalled at once, trigger().
add_event_trigger(o, at_once) ==
    LET f == first(Fds \ open) IN
    /\ Fds \ open # {}
    /\ settle([m_triggers EXCEPT ![f] = o], held \cup {o}, [fd EXCEPT ![o] = f], {},
               open \cup {f}, polled \cup {f}, IF at_once THEN ready \cup {f} ELSE ready)

\* event_trigger::trigger() writes to the number it knows.
trigger(o) ==
    /\ ready' = IF o \in held /\ fd[o] \in open THEN ready \cup {fd[o]} ELSE ready
    /\ UNCHANGED <<m_triggers, fd, held, open, polled>>

\* The exchange of sink::set_state(), and the callback if it succeeds.
set_state(r, cur, to, rs) ==
    IF results[r].state = cur
    THEN results' = [rs EXCEPT ![r].state = to] /\ trigger(ofResult(r))
    ELSE results' = rs /\ UNCHANGED evars

-----------------------------------------------------------------------------
(* Requests.                                                               *)

\* The requests that list and get captures and results.
read_only == UNCHANGED vars

\* Workers refuse an id that they have, but a lost sink may have another source.
create_capture(c) ==
    /\ \A s \in listed : sinks[s].id # c
    /\ fresh_sinks # {}
    /\ sinks' = [sinks EXCEPT ![first(fresh_sinks)] =
                     [NoSink EXCEPT !.id = c, !.where = "listed"]]
    /\ UNCHANGED <<conf, results, transfers, evars, stopping, push>>

\* request_start_capture: the result's callback exists only for a duration.
start_capture(s) ==
    LET r == first(fresh_results) IN
    /\ s \in listed /\ ~active(s) /\ fresh_results # {}
    /\ results' = [results EXCEPT ![r] =
                       [NoResult EXCEPT !.parent = s, !.where = "listed",
                                        !.state = IF conf.start_trigger THEN "ARMED"
                                                  ELSE "RUNNING"]]
    /\ sinks' = [sinks EXCEPT ![s].m_results = r]
    /\ IF conf.duration THEN add_event_trigger(ofResult(r), TRUE) ELSE UNCHANGED evars
    /\ UNCHANGED <<conf, transfers, stopping, push>>

\* sink::stop() up to the load in set_state().
stop(s) ==
    LET r == sinks[s].m_results IN
    stopping' = [sink |-> s, result |-> r, cur |-> results[r].state]

\* request_stop_capture.
stop_capture(s) ==
    /\ s \in listed /\ sinks[s].m_results # Null
    /\ results' = [results EXCEPT ![sinks[s].m_results].timer = FALSE]
    /\ stop(s)
    /\ UNCHANGED <<conf, sinks, transfers, evars, push>>

\* The rest of sink::stop().
stop_end ==
    LET p == stopping IN
    /\ p.sink # Null
    /\ IF p.cur = "STOPPED" THEN UNCHANGED <<results, evars>>
       ELSE set_state(p.result, p.cur, "STOPPED", results)
    /\ sinks' = [sinks EXCEPT ![p.sink].m_results = Null]
    /\ stopping' = NotStopping
    /\ UNCHANGED <<conf, transfers, push>>

\* has_transfer(sink_result).
in_use(r) == \E t \in Transfers : r \in transfers[t].results

\* has_transfer(sink): its results, and everything in the bucket of its id.
has_transfer(s) ==
    \/ \E r \in in_results : results[r].parent = s /\ in_use(r)
    \/ \E r \in in_trash : sinks[results[r].parent].id = sinks[s].id /\ in_use(r)

\* What a result is when its memory is freed.
freed(r, g) == [NoResult EXCEPT !.state = IF referenced(r) THEN g ELSE "STOPPED"]

\* Results leave m_results: deleted, or kept in the trash.
dispose(gone, kept) ==
    /\ \E g \in States :
           results' = [r \in Results |-> IF r \in gone THEN freed(r, g)
                                         ELSE IF r \in kept
                                         THEN [results[r] EXCEPT !.where = "trash", !.timer = FALSE]
                                         ELSE results[r]]
    /\ release({ofResult(r) : r \in gone})

\* Captures are deleted: a sink that has a transfer goes to the bucket of its id,
\* in place of one that is there.  Others leave m_sinks, and nothing else, with them.
delete(D, lost) ==
    LET deferred == {s \in D : has_transfer(s)}
        of(S) == {r \in in_results : results[r].parent \in S}
        replaced == {s \in Sinks : /\ sinks[s].where = "trash"
                                   /\ \E d \in deferred : sinks[d].id = sinks[s].id}
    IN
    /\ D # {} /\ \A s \in D : s \in listed /\ ~active(s)
    /\ sinks' = [s \in Sinks |-> IF s \in deferred THEN [sinks[s] EXCEPT !.where = "trash"]
                                 ELSE IF s \in D \cup replaced
                                 THEN [sinks[s] EXCEPT !.where = "freed", !.m_results = Null]
                                 ELSE IF s \in lost THEN [sinks[s] EXCEPT !.where = "lost"]
                                 ELSE sinks[s]]
    /\ dispose(of(D \ deferred), of(deferred))
    /\ UNCHANGED <<conf, transfers, stopping, push>>

\* The captures behind one in m_sinks.
behind(s) == {z \in listed : sinks[z].id > sinks[s].id}

\* request_delete_capture erases m_sinks from the capture to its end.
delete_capture(s) == delete({s}, behind(s))

\* request_delete_captures.
delete_captures == delete({s \in listed : ~active(s)}, {})

\* request_delete_capture_result and request_delete_capture_results.
delete_results(D) ==
    /\ D # {} /\ \A r \in D : r \in in_results /\ ~active(results[r].parent)
    /\ dispose({r \in D : ~in_use(r)}, {r \in D : in_use(r)})
    /\ UNCHANGED <<conf, sinks, transfers, stopping, push>>

create_capture_transfer(R) ==
    LET t == first(fresh_transfers) IN
    /\ R # {} /\ R \subseteq in_results /\ fresh_transfers # {}
    /\ transfers' = [transfers EXCEPT ![t] = [phase |-> "attached", results |-> R]]
    /\ add_event_trigger(ofTransfer(t), FALSE)
    /\ UNCHANGED <<conf, sinks, results, stopping, push>>

\* Mutation: a bucket is emptied when one of its results has no transfer.
empty_if_one(id, busy) == \E r \in in_trash \ busy : sinks[results[r].parent].id = id

\* No result in the bucket of an id has a transfer.
empty(id, busy) == \A r \in busy : sinks[results[r].parent].id # id

\* garbage_collect(): transfers that are over, then buckets without transfer.
garbage_collect(ts, map, P, R) ==
    LET over == {t \in Transfers : ts[t].phase \in {"done", "gone"}}
        busy == {r \in in_trash : \E t \in Transfers \ over : r \in ts[t].results}
        gone == {r \in in_trash : empty(sinks[results[r].parent].id, busy)}
    IN  /\ transfers' = [t \in Transfers |-> IF t \in over THEN NoTransfer ELSE ts[t]]
        /\ \E g \in States :
               results' = [r \in Results |-> IF r \in gone THEN freed(r, g) ELSE results[r]]
        /\ sinks' = [s \in Sinks |-> IF sinks[s].where = "trash" /\ empty(sinks[s].id, busy)
                                     THEN [sinks[s] EXCEPT !.where = "freed", !.m_results = Null]
                                     ELSE sinks[s]]
        /\ settle(map, held \ ({ofTransfer(t) : t \in over} \cup {ofResult(r) : r \in gone}),
                  fd, {}, open, P, R)

\* Mutation: without the garbage collection.
delete_capture_transfer_only(t) ==
    /\ transfers[t].phase = "attached"
    /\ transfers' = [transfers EXCEPT ![t] = NoTransfer]
    /\ release({ofTransfer(t)})
    /\ UNCHANGED <<conf, sinks, results, stopping, push>>

\* request_delete_capture_transfer: the header of the reply was not sent.
delete_capture_transfer(t) ==
    /\ transfers[t].phase = "attached"
    /\ garbage_collect([transfers EXCEPT ![t] = NoTransfer], m_triggers, polled, ready)
    /\ UNCHANGED <<conf, stopping, push>>

-----------------------------------------------------------------------------
(* Events and timers of the server.                                        *)

\* The callback of add_capture_start_trigger().  Its argument is a copy of the
\* event_trigger, which closes the descriptor at the end.
state_changed(r, f) ==
    LET o == ofResult(r)
        removed == [m_triggers EXCEPT ![f] = Nobody]
        state == results[r].state
        over == r \notin in_results \/ state = "STOPPED"
    IN
    /\ results' = IF r \notin in_results THEN results
                  ELSE IF state = "RUNNING" THEN [results EXCEPT ![r].timer = TRUE]
                  ELSE IF state = "STOPPED" THEN [results EXCEPT ![r].timer = FALSE]
                  ELSE results
    /\ settle(IF over THEN removed ELSE m_triggers,
              IF r \in in_results /\ over THEN held \ {o} ELSE held,
              fd, {f}, open, polled, ready)
    /\ UNCHANGED <<sinks, transfers>>

\* handle_event_trigger().
handle_event_trigger(f) ==
    /\ f \in polled \cap ready
    /\ \/ /\ m_triggers[f] = Nobody
          /\ polled' = polled \ {f} /\ ready' = ready \ {f}
          /\ UNCHANGED <<sinks, results, transfers, m_triggers, fd, held, open>>
       \/ \E r \in Results : m_triggers[f] = ofResult(r) /\ state_changed(r, f)
       \/ /\ \E t \in Transfers : m_triggers[f] = ofTransfer(t)
          /\ garbage_collect(transfers, [m_triggers EXCEPT ![f] = Nobody],
                             polled \ {f}, ready \ {f})
    /\ UNCHANGED <<conf, stopping, push>>

\* Mutation: the timer of a result that has stopped is obeyed.
due_any(r) == results[r].timer

\* The timer belongs to a result that has not stopped.
due(r) == results[r].timer /\ results[r].state # "STOPPED"

\* handle_capture_stop_timer(): stops the parent, whatever it is doing.
handle_capture_stop_timer(r) ==
    /\ r \in in_results /\ due(r)
    /\ results' = [results EXCEPT ![r].timer = FALSE]
    /\ IF sinks[results[r].parent].m_results = Null THEN UNCHANGED stopping
       ELSE stop(results[r].parent)
    /\ UNCHANGED <<conf, sinks, transfers, evars, push>>

-----------------------------------------------------------------------------
(* sink::push() on a worker.                                               *)

goto(w, p) == push' = [push EXCEPT ![w] = p]

push_begin(w) ==
    /\ push[w] = Idle
    /\ \E s \in in_workers :
           /\ sinks[s].m_results # Null
           /\ goto(w, [Idle EXCEPT !.pc = "state", !.sink = s, !.result = sinks[s].m_results])
    /\ UNCHANGED <<conf, sinks, results, transfers, evars, stopping>>

\* A packet matches the start trigger, or none does.
push_state(w) ==
    LET p == push[w]  state == results[p.result].state IN
    /\ p.pc = "state"
    /\ \/ state = "RUNNING" /\ goto(w, [p EXCEPT !.pc = "write"])
       \/ state = "ARMED" /\ goto(w, [p EXCEPT !.pc = "load", !.to = "RUNNING"])
       \/ state # "RUNNING" /\ goto(w, Idle)
    /\ UNCHANGED <<conf, sinks, results, transfers, evars, stopping>>

after_set_state(w) ==
    IF push[w].to = "RUNNING" THEN [push[w] EXCEPT !.pc = "write", !.cur = "STOPPED"] ELSE Idle

push_load(w) ==
    LET p == push[w]  state == results[p.result].state IN
    /\ p.pc = "load"
    /\ goto(w, IF state = p.to THEN after_set_state(w)
               ELSE [p EXCEPT !.pc = "exchange", !.cur = state])
    /\ UNCHANGED <<conf, sinks, results, transfers, evars, stopping>>

push_exchange(w) ==
    LET p == push[w] IN
    /\ p.pc = "exchange"
    /\ set_state(p.result, p.cur, p.to, results)
    /\ goto(w, after_set_state(w))
    /\ UNCHANGED <<conf, sinks, transfers, stopping>>

\* Packets go to the worker's own buffer.  It stops the capture when the buffer
\* is full, when a packet matches the stop trigger, or is from after the end.
stop_or_not(w, must) ==
    \/ goto(w, [push[w] EXCEPT !.pc = "load", !.to = "STOPPED", !.count = 0, !.burst = 0])
    \/ ~must /\ goto(w, Idle)

push_write(w) ==
    /\ push[w].pc = "write"
    /\ IF conf.packet_count = 0 THEN stop_or_not(w, FALSE)
       ELSE \E n \in 1..MaxBurst :
                goto(w, [push[w] EXCEPT !.pc = "count", !.burst = n,
                                        !.count = sinks[push[w].sink].m_packet_count])
    /\ UNCHANGED <<conf, sinks, results, transfers, evars, stopping>>

\* Mutation: the counter is stored without a comparison.
unchanged_count_unchecked(w) == TRUE

\* The comparison in increment_counter().
unchanged_count(w) == sinks[push[w].sink].m_packet_count = push[w].count

\* The loop of increment_counter(), and writing as many packets as it grants.
push_count(w) ==
    LET p == push[w]
        next == IF p.count + p.burst > conf.packet_count THEN conf.packet_count
                ELSE p.count + p.burst
        n == next - p.count
    IN
    /\ p.pc = "count"
    /\ \/ /\ ~unchanged_count(w)
          /\ goto(w, [p EXCEPT !.count = sinks[p.sink].m_packet_count])
          /\ UNCHANGED <<sinks, results>>
       \/ /\ unchanged_count(w)
          /\ sinks' = [sinks EXCEPT ![p.sink].m_packet_count = next]
          /\ results' = IF results[p.result].where = "freed" THEN results
                        ELSE [results EXCEPT ![p.result].packets = @ + n]
          /\ stop_or_not(w, n < p.burst)
    /\ UNCHANGED <<conf, transfers, evars, stopping>>

-----------------------------------------------------------------------------
(* Transfers.                                                              *)

\* pcap_thread_transfer_context::start().
transfer_start(t) ==
    /\ transfers[t].phase = "attached"
    /\ transfers' = [transfers EXCEPT ![t].phase = "sending"]
    /\ UNCHANGED <<conf, sinks, results, evars, stopping, push>>

\* The end of the transfer's thread: set_done().
transfer_done(t) ==
    /\ transfers[t].phase = "sending"
    /\ transfers' = [transfers EXCEPT ![t].phase = "done"]
    /\ trigger(ofTransfer(t))
    /\ UNCHANGED <<conf, sinks, results, stopping, push>>

-----------------------------------------------------------------------------
Requests ==
    \/ read_only
    \/ \E c \in Captures : create_capture(c)
    \/ \E s \in Sinks : start_capture(s) \/ stop_capture(s) \/ delete_capture(s)
    \/ delete_captures
    \/ \E r \in Results : delete_results({r})
    \/ delete_results({r \in in_results : ~active(results[r].parent)})
    \/ \E R \in SUBSET in_results : create_capture_transfer(R)

Server ==
    \/ stop_end
    \/ /\ stopping = NotStopping
       /\ \/ Requests
          \/ \E t \in Transfers : delete_capture_transfer(t)
          \/ \E f \in Fds : handle_event_trigger(f)
          \/ \E r \in Results : handle_capture_stop_timer(r)

Push(w) ==
    push_state(w) \/ push_load(w) \/ push_exchange(w) \/ push_write(w) \/ push_count(w)

Next ==
    \/ Server
    \/ \E w \in Workers : push_begin(w) \/ Push(w)
    \/ \E t \in Transfers : transfer_start(t) \/ transfer_done(t)

\* The server's loop serves its events and timers, workers finish what they are
\* in, transfers begin and end.  Nobody need send packets or requests.
Fairness ==
    /\ WF_vars(stop_end)
    /\ \A w \in Workers : WF_vars(Push(w))
    /\ \A f \in Fds : SF_vars(stopping = NotStopping /\ handle_event_trigger(f))
    /\ SF_vars(stopping = NotStopping /\ \E r \in Results : handle_capture_stop_timer(r))
    /\ \A t \in Transfers : WF_vars(transfer_start(t) \/ transfer_done(t))

Spec == Init /\ [][Next]_vars /\ Fairness

-----------------------------------------------------------------------------
(* Properties.                                                             *)

\* Every variable has its type.
TypeOK ==
    /\ \A s \in Sinks : /\ sinks[s].id \in Captures \cup {Null}
                        /\ sinks[s].where \in {"listed", "lost", "trash", "freed"}
                        /\ sinks[s].m_results \in Results \cup {Null}
    /\ \A r \in Results : /\ results[r].state \in States
                          /\ results[r].where \in {"listed", "trash", "freed"}
    /\ held \subseteq Owners
    /\ polled \cup ready \subseteq open

\* A transfer can rely on the results it reads, whatever is deleted, in any order
\* and however often captures are created again, until it is over.
TransfersKept ==
    \A t \in Transfers : transfers[t].phase \in {"attached", "sending"} =>
        \A r \in transfers[t].results : results[r].where # "freed"

\* However many workers write, the results of a capture hold no more than
\* packet_count packets together.
PacketLimit ==
    conf.packet_count # 0 =>
        \A s \in Sinks :
            LET packets(r) == IF results[r].where # "freed" /\ results[r].parent = s
                              THEN results[r].packets ELSE 0
                sum[n \in 0..MaxResults] == IF n = 0 THEN 0 ELSE sum[n - 1] + packets(n)
            IN  sinks[s].where # "freed" => sum[MaxResults] <= conf.packet_count

\* Without a start trigger, the timer of one start never ends a later one.
TimerEndsOwn ==
    [][\A r \in Results :
           ~conf.start_trigger /\ results[r].timer /\ ~results'[r].timer /\ stopping' # stopping
               => stopping'.result = r]_vars

\* What was deleted during a transfer is not forgotten: something in its bucket
\* still has a transfer, and the server is about to hear of the end of one that is
\* over.  With durations, closed descriptors may keep it from hearing.
TrashWatched ==
    ~conf.duration =>
        \A r \in in_trash : \E t \in Transfers : \E q \in transfers[t].results :
            /\ sinks[results[q].parent].id = sinks[results[r].parent].id
            /\ transfers[t].phase = "done" =>
                   fd[ofTransfer(t)] \in polled \cap ready

\* capture.yaml:86, "Delete a stopped packet capture by id": no request takes a capture
\* that has not stopped off the list, where it could not be found and stopped any more.
RunningListed ==
    \A s \in in_workers : active(s) => s \in listed

\* server.hpp:31: the sink has a result only when running, so never a freed one.
Borrowed ==
    \A s \in listed : sinks[s].m_results # Null => results[sinks[s].m_results].where # "freed"

\* server.hpp:41: neither result nor capture is deleted during a transfer.
SinksKept ==
    \A t \in Transfers : transfers[t].phase # "gone" =>
        \A r \in transfers[t].results : sinks[results[r].parent].where # "freed"

\* capture.yaml:524: a capture with a duration comes to its end.
TimedStops ==
    \A r \in Results :
        conf.duration /\ results[r].where = "listed" /\ results[r].state = "RUNNING"
            ~> results[r].where # "listed" \/ results[r].state = "STOPPED"

\* A capture that was stopped stays stopped.
StoppedStays ==
    [][\A r \in Results : results[r].where = "listed" /\ results[r].state = "STOPPED"
           => results'[r].where # "listed" \/ results'[r].state = "STOPPED"]_vars
=============================================================================
