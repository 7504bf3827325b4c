----------------------------- MODULE TxScheduler -----------------------------
(***************************************************************************)
(* packetio/workers/dpdk/tx_scheduler.cpp: the state machine that pulls    *)
(* packets from the sources of one port queue at their deadlines and hands *)
(* them to the driver.  It is driven by a timerfd alone.                   *)
(*                                                                         *)
(* Times are ticks relative to now.  An entry of the schedule is due when  *)
(* its deadline is <= 0.  Time may pass between any two steps, and the     *)
(* server thread may add, start, stop or remove sources meanwhile.  Packet *)
(* buffers are counted: m_buffer is the number of mbufs held back.         *)
(***************************************************************************)
EXTENDS Integers, FiniteSets

CONSTANTS
    Sources,        \* the sources bound to this port queue
    Period,         \* next_deadline: [Sources -> ticks between bursts]
    BurstSize,      \* packets in a burst of a source
    ChunkSize,      \* worker::pkt_burst_size
    IdlePoll, LinkPoll, SchedulePoll,     \* timer values, in ticks
    MaxLate         \* bound: how late a deadline is tracked

ASSUME TxSchedulerAssumption ==
    /\ IsFiniteSet(Sources)
    /\ Period \in [Sources -> Nat \ {0}]
    /\ BurstSize \in Nat \ {0} /\ ChunkSize \in Nat \ {0}
    /\ IdlePoll \in Nat \ {0} /\ LinkPoll \in Nat \ {0} /\ SchedulePoll \in Nat \ {0}
    /\ MaxLate \in Nat /\ MaxLate <= SchedulePoll

VARIABLES
    m_tib,              \* the transmit table: "absent", "stopped" or "active"
    link,               \* TRUE: link is up
    drop_overruns,      \* config::dpdk_drop_tx_overruns, fixed at startup
    refuses,            \* TRUE: rte_eth_tx_prepare may refuse buffered packets
    m_state,            \* "idle", "link_check", "running" or "blocked"
    m_schedule,         \* set of [key, deadline]
    m_buffer,           \* mbufs waiting for room in the driver's queue
    m_time_reschedule,  \* when to look for new sources
    reschedule,         \* state_running::reschedule
    remaining,          \* state_blocked::remaining
    blocked_key,        \* state_blocked::entry.key, or None
    timer,              \* ticks to expiry, 0: expired, Disarmed
    interval,           \* it_interval, 0: one shot
    pc,                 \* "wait" for the timer; or "enter" or in the "loop" of
                        \* on_timeout(state_running)
    nested,             \* on_timeout(state_blocked) has called it
    drawn,              \* history: packets pulled for the burst in hand
    leaked              \* history: an mbuf was neither sent nor freed

None     == "none"
Disarmed == -1
min_poll == 1
block_poll == 1

envVars   == <<m_tib, link, drop_overruns, refuses>>
timerVars == <<timer, interval>>
fsmVars   == <<m_state, reschedule, remaining, blocked_key>>
vars == <<envVars, timerVars, fsmVars, m_schedule, m_buffer, m_time_reschedule,
          pc, nested, drawn, leaked>>

larger(a, b) == IF a > b THEN a ELSE b

Init ==
    /\ m_tib \in [Sources -> {"absent"}]
    /\ link \in BOOLEAN
    /\ drop_overruns \in BOOLEAN /\ refuses \in BOOLEAN
    /\ m_state = "idle" /\ reschedule = FALSE
    /\ remaining = 0 /\ blocked_key = None
    /\ m_schedule = {} /\ m_buffer = 0 /\ m_time_reschedule = 0
    /\ timer = 0 /\ interval = IdlePoll
    /\ pc = "wait" /\ nested = FALSE
    /\ drawn = 0 /\ leaked = FALSE

-----------------------------------------------------------------------------
(* Helpers.                                                                *)

set_timer_interval(ns) == timer' = 0 /\ interval' = ns
set_timer_oneshot(ns)  == timer' = ns /\ interval' = 0

have_active_sources == \E s \in Sources : m_tib[s] = "active"
keys(sched) == {e.key : e \in sched}
top(sched)  == CHOOSE e \in sched : \A f \in sched : e.deadline <= f.deadline

\* The schedule that on_transition(state_running) builds from the table.
fresh_schedule == {[key |-> s, deadline |-> Period[s]] :
                      s \in {t \in Sources : m_tib[t] = "active"}}

\* Mutation: a source is added although it is scheduled already.
do_reschedule_all(sched) == sched \cup fresh_schedule

\* Mutation: new sources are not looked for.
do_reschedule_none(sched) == sched

\* Active sources that are not scheduled are added.
do_reschedule(sched) ==
    sched \cup {e \in fresh_schedule : e.key \notin keys(sched)}

\* distribute(): n packets in nb chunks whose sizes differ by at most one.
distribute(n, nb, i) == n \div nb + (IF i < n % nb THEN 1 ELSE 0)
distributed(n, nb, i) == i * (n \div nb) + (IF i < n % nb THEN i ELSE n % nb)

\* do_transmit: what can become of a burst of n packets of source s.  Chunk
\* after chunk is pulled and sent; the first that the driver does not take
\* completely (or refuses to prepare) ends the burst and its rest is held back.
\* pull() delivers nothing if the source has stopped, and less than asked for
\* if the pool is exhausted or the source's transmit limit is near.
do_transmit(n, s) ==
    LET nb == (n + ChunkSize - 1) \div ChunkSize
        full  == {[sent |-> n, held |-> 0]}
        chunk == UNION {{[sent |-> distributed(n, nb, i) + k,
                          held |-> distribute(n, nb, i) - k] :
                            k \in 0..distribute(n, nb, i) - 1} : i \in 0..nb - 1}
        short == {r \in [sent : 0..n, held : 0..ChunkSize] : r.sent + r.held < n}
    IN  IF m_tib[s] = "active" THEN full \cup chunk \cup short
                               ELSE {[sent |-> 0, held |-> 0]}

-----------------------------------------------------------------------------
(* on_transition, one operator per state.                                  *)

to_idle ==
    /\ m_state' = "idle"
    /\ set_timer_interval(IdlePoll)
    /\ UNCHANGED <<reschedule, remaining, m_time_reschedule>>
    /\ blocked_key' = None

\* Held back packets are freed and the schedule is dropped.
to_link_check ==
    /\ m_state' = "link_check"
    /\ m_buffer' = 0
    /\ m_schedule' = {}
    /\ set_timer_interval(LinkPoll)
    /\ UNCHANGED <<reschedule, remaining, m_time_reschedule>>
    /\ blocked_key' = None

\* Mutation: the timer is set for the next deadline whatever the time to
\* reschedule.
to_running_late(sched) ==
    LET s == IF sched = {} THEN fresh_schedule ELSE sched
        t == IF sched = {} THEN SchedulePoll ELSE m_time_reschedule
    IN  /\ m_state' = "running"
        /\ m_schedule' = s
        /\ m_time_reschedule' = t
        /\ reschedule' = (s = {})
        /\ set_timer_oneshot(larger(min_poll, IF s = {} THEN t ELSE top(s).deadline))
        /\ blocked_key' = None
        /\ UNCHANGED remaining

\* An empty schedule is filled; the timer is set for the next deadline or for
\* the next look at the table, whichever is earlier.
to_running(sched) ==
    LET s == IF sched = {} THEN fresh_schedule ELSE sched
        t == IF sched = {} THEN SchedulePoll ELSE m_time_reschedule
        early == s = {} \/ t <= top(s).deadline
    IN  /\ m_state' = "running"
        /\ m_schedule' = s
        /\ m_time_reschedule' = t
        /\ reschedule' = early
        /\ set_timer_oneshot(larger(min_poll, IF early THEN t ELSE top(s).deadline))
        /\ blocked_key' = None
        /\ UNCHANGED remaining

to_blocked(key, rest) ==
    /\ m_state' = "blocked"
    /\ remaining' = rest
    /\ blocked_key' = key
    /\ set_timer_oneshot(block_poll)
    /\ UNCHANGED <<reschedule, m_time_reschedule>>

-----------------------------------------------------------------------------
(* on_timeout.  The timer has expired; reading the fd re-arms an interval  *)
(* timer and leaves a one shot timer disarmed.                             *)

fires(state) == pc = "wait" /\ timer = 0 /\ m_state = state

rearm == /\ timer' = IF interval > 0 THEN interval ELSE Disarmed
         /\ UNCHANGED interval

on_timeout_idle ==
    /\ fires("idle")
    /\ \/ /\ ~have_active_sources
          /\ rearm
          /\ UNCHANGED <<fsmVars, m_schedule, m_buffer, m_time_reschedule>>
       \/ /\ have_active_sources /\ ~link
          /\ to_link_check
       \/ /\ have_active_sources /\ link
          /\ to_running(m_schedule)
          /\ UNCHANGED m_buffer
    /\ UNCHANGED <<envVars, pc, nested, drawn, leaked>>

on_timeout_link_check ==
    /\ fires("link_check")
    /\ \/ /\ ~link
          /\ rearm
          /\ UNCHANGED <<fsmVars, m_schedule, m_buffer, m_time_reschedule>>
       \/ /\ link /\ have_active_sources
          /\ to_running(m_schedule)
          /\ UNCHANGED m_buffer
       \/ /\ link /\ ~have_active_sources
          /\ to_idle
          /\ UNCHANGED <<m_schedule, m_buffer>>
    /\ UNCHANGED <<envVars, pc, nested, drawn, leaked>>

\* Start of on_timeout(state_running): link check and do_reschedule.
on_timeout_running ==
    /\ fires("running") \/ pc = "enter"
    /\ \/ /\ ~link
          /\ to_link_check
          /\ pc' = "wait" /\ nested' = FALSE
       \/ /\ link
          /\ rearm
          /\ m_schedule' = IF reschedule THEN do_reschedule(m_schedule) ELSE m_schedule
          /\ m_time_reschedule' = IF reschedule /\ m_time_reschedule < 0
                                  THEN m_time_reschedule + SchedulePoll
                                  ELSE m_time_reschedule
          /\ reschedule' = FALSE
          /\ pc' = "loop"
          /\ UNCHANGED <<m_state, remaining, blocked_key, m_buffer, nested>>
    /\ UNCHANGED <<envVars, drawn, leaked>>

due == m_schedule # {} /\ top(m_schedule).deadline <= 0

\* The entry whose source has gone is dropped.
loop_skip ==
    /\ pc = "loop" /\ due
    /\ m_tib[top(m_schedule).key] = "absent"
    /\ m_schedule' = m_schedule \ {top(m_schedule)}
    /\ UNCHANGED <<envVars, timerVars, fsmVars, m_buffer, m_time_reschedule, pc,
                   nested, drawn, leaked>>

\* One burst of source s, whose entry is the earliest.
loop_transmit(s) ==
    /\ pc = "loop" /\ due
    /\ s = top(m_schedule).key
    /\ m_tib[s] # "absent"
    /\ \E r \in do_transmit(BurstSize, s) :
          LET e    == top(m_schedule)
              rest == m_schedule \ {e}
              again == [key |-> s, deadline |-> e.deadline + Period[s]]
          IN  /\ drawn' = r.sent + r.held
              /\ \/ /\ r.held > 0 /\ ~drop_overruns
                    /\ m_buffer' = r.held
                    /\ m_schedule' = rest
                    /\ to_blocked(s, BurstSize - r.sent - r.held)
                    /\ pc' = "wait" /\ nested' = FALSE
                 \/ /\ r.held = 0 \/ drop_overruns
                    /\ m_schedule' = IF m_tib[s] = "active"
                                     THEN rest \cup {again} ELSE rest
                    /\ UNCHANGED <<m_buffer, fsmVars, timerVars,
                                   m_time_reschedule, pc, nested>>
    /\ UNCHANGED <<envVars, leaked>>

\* Nothing more is due: become idle, or set the timer for the next event.  If
\* the loop was entered from the blocked state, on_transition(state_running)
\* follows and sets the timer once more.
loop_done ==
    /\ pc = "loop" /\ ~due
    /\ pc' = "wait" /\ nested' = FALSE
    /\ \/ /\ m_schedule = {}
          /\ to_idle
          /\ UNCHANGED m_schedule
       \/ /\ m_schedule # {} /\ ~nested
          /\ LET d == top(m_schedule).deadline
             IN  IF m_time_reschedule <= d
                 THEN /\ set_timer_oneshot(larger(min_poll, m_time_reschedule))
                      /\ reschedule' = TRUE
                 ELSE /\ set_timer_oneshot(d)
                      /\ UNCHANGED reschedule
          /\ UNCHANGED <<m_state, remaining, blocked_key, m_schedule,
                         m_time_reschedule>>
       \/ /\ m_schedule # {} /\ nested
          /\ to_running(m_schedule)
    /\ UNCHANGED <<envVars, m_buffer, drawn, leaked>>

\* History: packets pulled for this burst; one too many is all that matters.
note_drawn(n) == IF drawn + n > BurstSize THEN BurstSize + 1 ELSE drawn + n

\* on_timeout(state_blocked): the ways out before anything is sent.
blocked_link_down ==
    /\ fires("blocked") /\ ~link
    /\ to_link_check
    /\ UNCHANGED <<envVars, pc, nested, drawn, leaked>>

\* Mutation: the buffer is not cleared.
blocked_source_gone_kept ==
    /\ fires("blocked") /\ link
    /\ m_tib[blocked_key] = "absent"
    /\ \/ have_active_sources /\ to_running(m_schedule)
       \/ ~have_active_sources /\ to_idle /\ UNCHANGED m_schedule
    /\ UNCHANGED <<envVars, m_buffer, pc, nested, drawn, leaked>>

\* m_buffer.clear() forgets the mbufs without freeing them.
blocked_source_gone ==
    /\ fires("blocked") /\ link
    /\ m_tib[blocked_key] = "absent"
    /\ leaked' = (leaked \/ m_buffer > 0)
    /\ m_buffer' = 0
    /\ \/ have_active_sources /\ to_running(m_schedule)
       \/ ~have_active_sources /\ to_idle /\ UNCHANGED m_schedule
    /\ UNCHANGED <<envVars, pc, nested, drawn>>

\* rte_eth_tx_prepare refuses the held back packets: return as we are.
blocked_prepare_fails ==
    /\ fires("blocked") /\ link
    /\ m_tib[blocked_key] # "absent"
    /\ refuses /\ m_buffer > 0
    /\ rearm
    /\ UNCHANGED <<envVars, fsmVars, m_schedule, m_buffer, m_time_reschedule, pc,
                   nested, drawn, leaked>>

\* Mutation: the timer is not set again after a partial send.
blocked_partial_silent ==
    /\ fires("blocked") /\ link
    /\ m_tib[blocked_key] # "absent"
    /\ m_buffer' \in 1..m_buffer
    /\ rearm
    /\ UNCHANGED <<envVars, fsmVars, m_schedule, m_time_reschedule, pc, nested,
                   drawn, leaked>>

\* The driver takes some of them: try again soon.
blocked_partial ==
    /\ fires("blocked") /\ link
    /\ m_tib[blocked_key] # "absent"
    /\ m_buffer' \in 1..m_buffer
    /\ set_timer_oneshot(block_poll)
    /\ UNCHANGED <<envVars, fsmVars, m_schedule, m_time_reschedule, pc, nested,
                   drawn, leaked>>

\* The driver takes all of them and then not all of the rest of the burst.
\* What is buffered now is not taken off the rest.
blocked_again ==
    /\ fires("blocked") /\ link
    /\ m_tib[blocked_key] # "absent"
    /\ \E r \in do_transmit(remaining, blocked_key) :
          /\ r.sent < remaining
          /\ remaining' = remaining - r.sent
          /\ m_buffer' = r.held
          /\ drawn' = note_drawn(r.sent + r.held)
    /\ set_timer_oneshot(block_poll)
    /\ UNCHANGED <<envVars, m_state, reschedule, blocked_key, m_schedule,
                   m_time_reschedule, pc, nested, leaked>>

\* The burst is complete: the source is due at once, and either there is
\* nothing to do, or the link is gone, or the running handler takes over.
blocked_done ==
    /\ fires("blocked") /\ link
    /\ m_tib[blocked_key] # "absent"
    /\ [sent |-> remaining, held |-> 0] \in do_transmit(remaining, blocked_key)
    /\ m_buffer' = 0
    /\ drawn' = note_drawn(remaining)
    /\ m_schedule' = IF m_tib[blocked_key] = "active"
                     THEN m_schedule \cup {[key |-> blocked_key, deadline |-> 0]}
                     ELSE m_schedule
    /\ \/ /\ ~have_active_sources
          /\ to_idle
          /\ UNCHANGED <<pc, nested>>
       \/ /\ have_active_sources
          /\ pc' = "enter" /\ nested' = TRUE
          /\ rearm
          /\ UNCHANGED <<fsmVars, m_time_reschedule>>
    /\ UNCHANGED <<envVars, leaked>>

-----------------------------------------------------------------------------
(* The environment.                                                        *)

\* add_source, del_source, start and stop, in the server thread.
source_changes(s) ==
    /\ m_tib' \in {[m_tib EXCEPT ![s] = x] : x \in {"absent", "stopped", "active"}}
    /\ m_tib' # m_tib
    /\ UNCHANGED <<link, drop_overruns, refuses, timerVars, fsmVars, m_schedule,
                   m_buffer, m_time_reschedule, pc, nested, drawn, leaked>>

link_changes ==
    /\ link' = ~link
    /\ UNCHANGED <<m_tib, drop_overruns, refuses, timerVars, fsmVars, m_schedule,
                   m_buffer, m_time_reschedule, pc, nested, drawn, leaked>>

\* Time passes.  Lateness is tracked up to MaxLate; the loop of the running
\* state does not fall behind by more than that.
tick ==
    /\ pc # "wait" => \A e \in m_schedule : e.deadline > -MaxLate
    /\ m_schedule' = {[e EXCEPT !.deadline = larger(@ - 1, -MaxLate)] :
                         e \in m_schedule}
    /\ m_time_reschedule' = larger(m_time_reschedule - 1, -MaxLate)
    /\ timer' = IF timer > 0 THEN timer - 1 ELSE timer
    /\ UNCHANGED <<envVars, interval, fsmVars, m_buffer, pc, nested, drawn, leaked>>

run ==
    \/ on_timeout_idle \/ on_timeout_link_check \/ on_timeout_running
    \/ loop_skip \/ loop_done
    \/ \E s \in Sources : loop_transmit(s)
    \/ blocked_link_down \/ blocked_source_gone \/ blocked_prepare_fails
    \/ blocked_partial \/ blocked_again \/ blocked_done

Next ==
    \/ run
    \/ \E s \in Sources : source_changes(s)
    \/ link_changes
    \/ tick

Spec == Init /\ [][Next]_vars

\* The worker handles the timer, time passes, and a driver with its link up
\* that is offered packets again and again takes them all one day.
FairSpec == Spec /\ WF_vars(run) /\ WF_vars(tick) /\ SF_vars(blocked_done)

-----------------------------------------------------------------------------
(* Properties.                                                             *)

\* Every variable has its type.
TypeOK ==
    /\ m_tib \in [Sources -> {"absent", "stopped", "active"}]
    /\ link \in BOOLEAN /\ drop_overruns \in BOOLEAN /\ refuses \in BOOLEAN
    /\ m_state \in {"idle", "link_check", "running", "blocked"}
    /\ \A e \in m_schedule : /\ e.key \in Sources
                             /\ e.deadline \in Int /\ e.deadline >= -MaxLate
    /\ m_buffer \in 0..ChunkSize
    /\ m_time_reschedule \in Int /\ m_time_reschedule >= -MaxLate
    /\ reschedule \in BOOLEAN
    /\ remaining \in 0..BurstSize
    /\ blocked_key \in Sources \cup {None}
    /\ timer \in Nat \cup {Disarmed} /\ interval \in Nat
    /\ pc \in {"wait", "enter", "loop"} /\ nested \in BOOLEAN
    /\ drawn \in 0..BurstSize + 1
    /\ leaked \in BOOLEAN

\* Nothing but the timer wakes the scheduler: whenever it waits, the timer is
\* armed, whichever way the last handler returned.  The one exception is the
\* early return of on_timeout(state_blocked) when the driver refuses the packets
\* it holds.
TimerArmed ==
    (pc = "wait" /\ timer = Disarmed) =>
        refuses /\ m_state = "blocked" /\ m_buffer > 0

\* The same without the exception.
NeverStalls == pc = "wait" => timer # Disarmed

\* The asserts of on_timeout(state_running) and on_transition: packets are held
\* back in the blocked state only, for a known source and never if overruns are
\* to be dropped, however the scheduler came to its present state.
HeldOnlyWhenBlocked ==
    /\ m_buffer > 0 => m_state = "blocked" /\ pc = "wait"
    /\ m_state = "blocked" => blocked_key \in Sources /\ ~drop_overruns

\* A source has one entry in the schedule, and none while it is blocked: else
\* it would transmit at a multiple of its rate.
NoDuplicateEntries ==
    /\ \A e, f \in m_schedule : e.key = f.key => e = f
    /\ (m_state = "blocked" /\ pc = "wait") => blocked_key \notin keys(m_schedule)

\* In the running state the timer is set for the earliest deadline and for the
\* time to look for new sources; when it is not the latter, the earliest
\* deadline comes first and the look is due later.
NoOversleep ==
    (m_state = "running" /\ pc = "wait") =>
        /\ timer <= larger(min_poll, m_time_reschedule)
        /\ \A e \in m_schedule : timer <= larger(min_poll, e.deadline)
        /\ ~reschedule => m_schedule # {}

served(s) == []<><<loop_transmit(s)>>_vars

\* A source that stays active transmits again and again if the link stays up,
\* no other source stops without being removed, and the queue is not saturated:
\* again and again the scheduler waits in the running state.
ActiveSourcesServed ==
    \A s \in Sources :
        /\ <>[](/\ link /\ m_tib[s] = "active"
                /\ \A t \in Sources : m_tib[t] # "stopped")
        /\ []<>(m_state = "running" /\ pc = "wait")
        => served(s)

\* The same for a saturated queue: active sources that are not scheduled are
\* looked for and added, also when another source finds the queue full again
\* and again.
NewSourcesServed ==
    \A s \in Sources :
        /\ <>[](link /\ ~refuses /\ \A t \in Sources : m_tib[t] = "active")
        /\ []<>(pc = "wait")
        => served(s)

\* assert(!m_buffer.empty()) in on_timeout(state_blocked): the scheduler is
\* blocked only while packets wait for room in the queue.
BlockedHasBuffer == (m_state = "blocked" /\ pc = "wait") => m_buffer > 0

\* The mbufs of a buffered packet are sent or freed.
NoMbufLeak == ~leaked

\* A burst of a source is burst_size packets.
BurstBudget == drawn <= BurstSize
=============================================================================
