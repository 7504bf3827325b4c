-------------------------------- MODULE Tvlp --------------------------------
(***************************************************************************)
(* src/modules/tvlp: a profile that drives generators over time.  A        *)
(* configuration has one worker for every generator module it uses (a      *)
(* part); a worker runs its series of entries on a scheduler thread that   *)
(* creates, starts, polls, stops and deletes one generator for each entry, *)
(* by requests to the server of that module, any of which may fail.  The   *)
(* server thread of tvlp starts, stops, reads and erases the configuration *)
(* while the schedulers run.                                               *)
(*                                                                         *)
(* One configuration is modelled.  A generator and its statistics are      *)
(* known by the number of the entry they belong to.                        *)
(***************************************************************************)
EXTENDS Naturals, Sequences

CONSTANTS
    NParts,     \* parts of the profile, in the order the controller visits
    Entries,    \* entries in every part's series
    Toggles,    \* parts whose module can toggle from one generator to another
    MaxStarts,  \* starts of the configuration
    MaxFaults   \* requests that fail, but for a delete after a failed start

TvlpAssumption ==
    /\ NParts \in Nat \ {0} /\ Entries \in Nat \ {0}
    /\ Toggles \subseteq 1..NParts
    /\ MaxStarts \in Nat /\ MaxFaults \in Nat

Parts == 1..NParts
States == {"READY", "COUNTDOWN", "RUNNING", "ERROR"}
Running == {"COUNTDOWN", "RUNNING"}

VARIABLES
    state,      \* m_state.state of every worker
    stopped,    \* m_state.stopped
    sched,      \* the scheduler threads
    results,    \* m_result: for every entry stored, whose statistics it holds
    gens,       \* the generators that the worker has made and not deleted
    m_state,    \* the controller's state, as update() last found it
    server,     \* the server thread: its request and how far it is
    copying,    \* parts whose results it copies; whether they are freed
    already,    \* a running worker was started
    failed,     \* kinds of requests that have failed in this start
    starts, faults

vars == <<state, stopped, sched, results, gens, m_state, server, copying,
          already, failed, starts, faults>>

Requests == {"create", "start", "toggle", "stat", "stop", "delete"}

TypeOK ==
    /\ state \in [Parts -> States] /\ stopped \in [Parts -> BOOLEAN]
    /\ sched \in [Parts ->
         [pc : {"none", "begin", "countdown", "entry", "create", "start",
                "toggle", "delete_new", "stats_prev", "delete_prev", "wait",
                "stop", "stop_stats", "stop_delete", "done"},
          i : 1..Entries + 1,           \* the entry of the loop
          entry : 0..Entries,           \* entry_state.entry, 0 when null
          prev : 0..Entries,            \* prev_state.entry
          res : {"next", "READY", "ERROR"}]]    \* what follows do_entry_stop()
    /\ results \in [Parts -> Seq(1..Entries)]
    /\ gens \in [Parts -> SUBSET (1..Entries)]
    /\ m_state \in States
    /\ server \in [op : {"none", "get", "start", "stop", "erase"},
                   pc : {"idle", "update", "act", "join"}, at : 1..NParts + 1]
    /\ copying \in [Parts -> {"no", "live", "freed"}]
    /\ already \in BOOLEAN
    /\ failed \in [Parts -> SUBSET Requests]
    /\ starts \in 0..MaxStarts /\ faults \in 0..MaxFaults

Idle == [op |-> "none", pc |-> "idle", at |-> 1]
NoThread == [pc |-> "none", i |-> 1, entry |-> 0, prev |-> 0, res |-> "next"]

Init ==
    /\ state = [p \in Parts |-> "READY"] /\ stopped = [p \in Parts |-> FALSE]
    /\ sched = [p \in Parts |-> NoThread]
    /\ results = [p \in Parts |-> <<>>] /\ gens = [p \in Parts |-> {}]
    /\ m_state = "READY" /\ server = Idle
    /\ copying = [p \in Parts |-> "no"]
    /\ already = FALSE
    /\ failed = [p \in Parts |-> {}]
    /\ starts = 0 /\ faults = 0

-----------------------------------------------------------------------------
(* The scheduler thread of part p, in the steps between its requests.      *)

Go(p, pc) == [sched EXCEPT ![p].pc = pc]

\* store_results(): a new vector replaces the one it frees.
ADD(p, e) == Append(results[p], e)
UPDATE(p, e) == [results[p] EXCEPT ![Len(results[p])] = e]

store_results(p, vector) ==
    /\ results' = [results EXCEPT ![p] = vector]
    /\ copying' = [copying EXCEPT ![p] = IF @ = "no" THEN @ ELSE "freed"]

keep_results == UNCHANGED <<results, copying>>

\* A request fails.
fault(p, request) ==
    /\ faults < MaxFaults
    /\ faults' = faults + 1
    /\ failed' = [failed EXCEPT ![p] = @ \union {request}]

no_fault == UNCHANGED <<faults, failed>>

\* schedule() returns.
return(p, s) ==
    /\ sched' = Go(p, "done")
    /\ state' = [state EXCEPT ![p] = s]

\* do_entry_stop() if there is an entry, then return.
stop_and_return(p, s) ==
    IF sched[p].entry # 0
    THEN /\ sched' = [sched EXCEPT ![p].pc = "stop", ![p].res = s]
         /\ UNCHANGED state
    ELSE return(p, s)

begin(p) ==
    /\ sched[p].pc = "begin"
    /\ state' = [state EXCEPT ![p] = "COUNTDOWN"]
    /\ sched' = Go(p, "countdown")
    /\ UNCHANGED gens /\ keep_results /\ no_fault

\* Mutation: one long sleep until the start time.
countdown_deaf(p) == FALSE

\* The loop of the countdown looks at the flag every 100 ms.
countdown(p) ==
    /\ sched[p].pc = "countdown" /\ stopped[p]
    /\ return(p, "READY")
    /\ UNCHANGED gens /\ keep_results /\ no_fault

\* The start time arrives.
arrive(p) ==
    /\ sched[p].pc = "countdown"
    /\ state' = [state EXCEPT ![p] = "RUNNING"]
    /\ sched' = Go(p, "entry")
    /\ UNCHANGED gens /\ keep_results /\ no_fault

next_entry(p) ==
    /\ sched[p].pc = "entry"
    /\ IF sched[p].i > Entries THEN return(p, "READY")
       ELSE IF stopped[p] THEN stop_and_return(p, "READY")
       ELSE sched' = Go(p, "create") /\ UNCHANGED state
    /\ UNCHANGED gens /\ keep_results /\ no_fault

create(p) ==
    /\ sched[p].pc = "create"
    /\ \/ /\ gens' = [gens EXCEPT ![p] = @ \union {sched[p].i}]
          /\ sched' = Go(p, IF sched[p].entry = 0 THEN "start" ELSE "toggle")
          /\ UNCHANGED state /\ no_fault
       \/ /\ fault(p, "create")
          /\ stop_and_return(p, "ERROR")
          /\ UNCHANGED gens
    /\ keep_results

start(p) ==
    /\ sched[p].pc = "start"
    /\ \/ /\ sched' = [sched EXCEPT ![p].pc = "wait", ![p].entry = sched[p].i]
          /\ store_results(p, ADD(p, sched[p].i))
          /\ no_fault
       \/ /\ fault(p, "start")
          /\ sched' = Go(p, "delete_new")
          /\ keep_results
    /\ UNCHANGED <<state, gens>>

toggle(p) ==
    /\ sched[p].pc = "toggle"
    /\ \/ /\ sched' = [sched EXCEPT ![p].pc = "stats_prev", ![p].entry = sched[p].i,
                                    ![p].prev = sched[p].entry]
          /\ no_fault
       \/ /\ fault(p, "toggle")
          /\ sched' = Go(p, "delete_new")
    /\ UNCHANGED <<state, gens>> /\ keep_results

\* The generator that could not be started is deleted, unless that fails too.
delete_new(p) ==
    /\ sched[p].pc = "delete_new"
    /\ \/ gens' = [gens EXCEPT ![p] = @ \ {sched[p].i}] /\ UNCHANGED failed
       \/ failed' = [failed EXCEPT ![p] = @ \union {"delete"}] /\ UNCHANGED gens
    /\ UNCHANGED faults
    /\ stop_and_return(p, "ERROR")
    /\ keep_results

\* Mutation: the new entry's result is added before the old one is updated.
after_toggle_swapped(p, updated) ==
    IF updated THEN Append(results[p], sched[p].prev)
               ELSE Append(results[p], sched[p].entry)

\* The last statistics of the previous generator, if there are any, and then
\* the first ones of the new.
after_toggle(p, updated) ==
    Append(IF updated THEN UPDATE(p, sched[p].prev) ELSE results[p], sched[p].entry)

stats_prev(p) ==
    /\ sched[p].pc = "stats_prev"
    /\ \/ /\ store_results(p, after_toggle(p, TRUE))
          /\ sched' = [sched EXCEPT ![p].pc = "delete_prev", ![p].res = "next"]
          /\ no_fault
       \/ /\ fault(p, "stat")
          /\ store_results(p, after_toggle(p, FALSE))
          /\ sched' = [sched EXCEPT ![p].pc = "delete_prev", ![p].res = "ERROR"]
    /\ UNCHANGED <<state, gens>>

delete_prev(p) ==
    /\ sched[p].pc = "delete_prev"
    /\ \/ /\ gens' = [gens EXCEPT ![p] = @ \ {sched[p].prev}]
          /\ sched' = Go(p, IF sched[p].res = "next" THEN "wait" ELSE "stop")
          /\ no_fault
       \/ /\ fault(p, "delete")
          /\ sched' = [sched EXCEPT ![p].pc = "stop", ![p].res = "ERROR"]
          /\ UNCHANGED gens
    /\ UNCHANGED state /\ keep_results

\* While the entry lasts: stop when told to, or else fetch the statistics.
poll(p) ==
    /\ sched[p].pc = "wait"
    /\ \/ /\ stopped[p]
          /\ sched' = [sched EXCEPT ![p].pc = "stop", ![p].res = "READY"]
          /\ keep_results /\ no_fault
       \/ /\ ~stopped[p]
          /\ store_results(p, UPDATE(p, sched[p].entry))
          /\ UNCHANGED sched /\ no_fault
       \/ /\ ~stopped[p] /\ fault(p, "stat")
          /\ sched' = [sched EXCEPT ![p].pc = "stop", ![p].res = "ERROR"]
          /\ keep_results
    /\ UNCHANGED <<state, gens>>

\* The entry has lasted long enough.  Its generator is kept for a toggle.
finish(p) ==
    /\ sched[p].pc = "wait"
    /\ sched' = IF p \in Toggles /\ sched[p].i < Entries
                THEN [sched EXCEPT ![p].pc = "entry", ![p].i = @ + 1]
                ELSE [sched EXCEPT ![p].pc = "stop", ![p].res = "next"]
    /\ UNCHANGED <<state, gens>> /\ keep_results /\ no_fault

\* A request of do_entry_stop() fails, and leaves the rest of it undone.
stop_fails(p, request) ==
    /\ fault(p, request)
    /\ return(p, IF sched[p].res = "READY" THEN "READY" ELSE "ERROR")
    /\ UNCHANGED gens /\ keep_results

send_stop(p) ==
    /\ sched[p].pc = "stop"
    /\ \/ /\ sched' = Go(p, "stop_stats")
          /\ UNCHANGED <<state, gens>> /\ keep_results /\ no_fault
       \/ stop_fails(p, "stop")

stop_stats(p) ==
    /\ sched[p].pc = "stop_stats"
    /\ \/ /\ store_results(p, UPDATE(p, sched[p].entry))
          /\ sched' = Go(p, "stop_delete")
          /\ UNCHANGED <<state, gens>> /\ no_fault
       \/ stop_fails(p, "stat")

\* The next entry starts afresh.
restart(p) ==
    /\ sched' = [sched EXCEPT ![p].pc = "entry", ![p].i = @ + 1, ![p].entry = 0]
    /\ UNCHANGED state

stop_delete(p) ==
    /\ sched[p].pc = "stop_delete"
    /\ \/ /\ gens' = [gens EXCEPT ![p] = @ \ {sched[p].entry}]
          /\ IF sched[p].res = "next" THEN restart(p) ELSE return(p, sched[p].res)
          /\ keep_results /\ no_fault
       \/ stop_fails(p, "delete")

\* Every step of the scheduler but those that wait for the time.
Schedule(p) ==
    /\ \/ begin(p) \/ countdown(p) \/ next_entry(p) \/ create(p) \/ start(p)
       \/ toggle(p) \/ delete_new(p) \/ stats_prev(p) \/ delete_prev(p)
       \/ poll(p) \/ send_stop(p) \/ stop_stats(p) \/ stop_delete(p)
    /\ UNCHANGED <<stopped, m_state, server, already, starts>>

Elapse(p) ==
    /\ arrive(p) \/ finish(p)
    /\ UNCHANGED <<stopped, m_state, server, already, starts>>

-----------------------------------------------------------------------------
(* The server thread.                                                      *)

wvars == <<state, stopped, sched, results, gens, failed, faults>>

\* Every request brings the controller up to date first.
request(op) ==
    /\ server.pc = "idle"
    /\ op = "start" => starts < MaxStarts
    /\ server' = [op |-> op, pc |-> "update", at |-> 1]
    /\ m_state' = "READY"
    /\ UNCHANGED <<wvars, copying, already, starts>>

\* recv_state(): how the state of a worker changes that of the controller.
recv_state(s) ==
    CASE s = "READY"     -> m_state
      [] s = "COUNTDOWN" -> IF m_state = "READY" THEN s ELSE m_state
      [] s = "RUNNING"   -> IF m_state # "ERROR" THEN s ELSE m_state
      [] s = "ERROR"     -> s

\* update(), part by part: the state and, unless it is ERROR, the pointer to
\* the results, which are copied after that.
update ==
    /\ server.pc = "update" /\ server.at <= NParts
    /\ copying[server.at] = "no"
    /\ m_state' = recv_state(state[server.at])
    /\ IF state[server.at] = "ERROR"
       THEN server' = [server EXCEPT !.at = @ + 1] /\ UNCHANGED copying
       ELSE copying' = [copying EXCEPT ![server.at] = "live"] /\ UNCHANGED server
    /\ UNCHANGED <<wvars, already, starts>>

copied ==
    /\ server.pc = "update" /\ server.at <= NParts
    /\ copying[server.at] # "no"
    /\ copying' = [copying EXCEPT ![server.at] = "no"]
    /\ server' = [server EXCEPT !.at = @ + 1]
    /\ UNCHANGED <<wvars, m_state, already, starts>>

\* controller_stack: a start is refused while the configuration runs, a stop
\* while it does not, and so on.
admitted ==
    CASE server.op = "start" -> m_state \notin Running
      [] server.op = "stop"  -> m_state \in Running
      [] server.op = "erase" -> m_state \notin Running
      [] OTHER               -> FALSE

updated ==
    /\ server.pc = "update" /\ server.at = NParts + 1
    /\ server' = IF admitted THEN [server EXCEPT !.pc = "act", !.at = 1] ELSE Idle
    /\ starts' = IF server.op = "start" /\ admitted THEN starts + 1 ELSE starts
    /\ UNCHANGED <<wvars, m_state, copying, already>>

\* worker::start() for one part.  A running worker is not started again: the
\* controller asserts that it is never asked to.
start_part ==
    /\ server.op = "start" /\ server.pc = "act" /\ server.at <= NParts
    /\ LET p == server.at IN
       \/ /\ state[p] \in Running
          /\ already' = TRUE
          /\ UNCHANGED wvars
       \/ /\ state[p] \notin Running /\ sched[p].pc \in {"none", "done"}
          /\ \E s \in Running : state' = [state EXCEPT ![p] = s]
          /\ stopped' = [stopped EXCEPT ![p] = FALSE]
          /\ results' = [results EXCEPT ![p] = <<>>]
          /\ sched' = [sched EXCEPT ![p] = [NoThread EXCEPT !.pc = "begin"]]
          /\ gens' = [gens EXCEPT ![p] = {}]
          /\ failed' = [failed EXCEPT ![p] = {}]
          /\ UNCHANGED <<already, faults>>
    /\ server' = [server EXCEPT !.at = @ + 1]
    /\ UNCHANGED <<m_state, copying, starts>>

started ==
    /\ server.op = "start" /\ server.pc = "act" /\ server.at = NParts + 1
    /\ \E s \in Running : m_state' = s
    /\ server' = Idle
    /\ UNCHANGED <<wvars, copying, already, starts>>

\* worker::stop() for one part, from stop() or from the destructor: it raises
\* the flag and waits for the thread.
stop_part ==
    /\ server.op \in {"stop", "erase"} /\ server.pc = "act" /\ server.at <= NParts
    /\ stopped' = [stopped EXCEPT ![server.at] =
                     @ \/ sched[server.at].pc # "none"]
    /\ server' = [server EXCEPT !.pc = "join"]
    /\ UNCHANGED <<state, sched, results, gens, failed, faults>>
    /\ UNCHANGED <<m_state, copying, already, starts>>

join_part ==
    /\ server.pc = "join" /\ sched[server.at].pc \in {"none", "done"}
    /\ state' = [state EXCEPT ![server.at] = "READY"]
    /\ server' = [server EXCEPT !.pc = "act", !.at = @ + 1]
    /\ UNCHANGED <<stopped, sched, results, gens, failed, faults>>
    /\ UNCHANGED <<m_state, copying, already, starts>>

\* An erased configuration is followed by a new one.
stop_done ==
    /\ server.op \in {"stop", "erase"} /\ server.pc = "act" /\ server.at = NParts + 1
    /\ server' = Idle
    /\ IF server.op = "erase"
       THEN /\ sched' = [p \in Parts |-> NoThread]
            /\ stopped' = [p \in Parts |-> FALSE]
            /\ results' = [p \in Parts |-> <<>>] /\ gens' = [p \in Parts |-> {}]
            /\ failed' = [p \in Parts |-> {}] /\ m_state' = "READY"
       ELSE UNCHANGED <<sched, stopped, results, gens, failed, m_state>>
    /\ UNCHANGED <<state, copying, already, starts, faults>>

Serve == \/ update \/ copied \/ updated \/ start_part \/ started
         \/ stop_part \/ join_part \/ stop_done

Next ==
    \/ \E op \in {"get", "start", "stop", "erase"} : request(op)
    \/ Serve
    \/ \E p \in Parts : Schedule(p) \/ Elapse(p)

Spec == Init /\ [][Next]_vars

\* The threads run and the servers of the generators answer.  A start time may
\* be arbitrarily far away and an entry arbitrarily long.
Fairness == WF_vars(Serve) /\ \A p \in Parts : WF_vars(Schedule(p))

FairSpec == Spec /\ Fairness

-----------------------------------------------------------------------------
(* Properties.                                                             *)

\* The result stored for an entry holds the statistics of the generator of that
\* entry, whatever was stopped, toggled or failed on the way: an UPDATE changes
\* the last element of the vector, which must be that of the generator asked.
ResultsMatch == \A p \in Parts : \A i \in 1..Len(results[p]) : results[p][i] = i

\* A worker that says READY or ERROR has ended its schedule.  It has deleted
\* every generator it made unless a request to stop, poll or delete one failed;
\* a create, a start or a toggle that failed leaves none behind.
Settled ==
    \A p \in Parts : state[p] \in {"READY", "ERROR"} =>
        /\ sched[p].pc \in {"none", "done"}
        /\ failed[p] \subseteq {"create", "start", "toggle"} => gens[p] = {}

\* A request of the API is answered, however far away the start time and however
\* long the entries: stop() and the destructor wait for the scheduler, which
\* looks at the flag.
RequestsReturn == server.pc # "idle" ~> server.pc = "idle"

\* "Starting already running worker should never happen" (controller.cpp:97).
NeverAlreadyRunning == ~already

\* The vector of results is not freed while the server thread copies it
\* (worker.cpp:87).
NoFreedResults == \A p \in Parts : copying[p] # "freed"
=============================================================================
