-------------------------- MODULE TxSchedulerProofs --------------------------
(***************************************************************************)
(* Proofs about TxScheduler, for any number of sources, any rates, burst   *)
(* sizes and timer values.                                                 *)
(***************************************************************************)
EXTENDS TxScheduler, TLAPS, WellFoundedInduction

(***************************************************************************)
(* The inductive invariant.  HeldOnlyWhenBlocked, NoDuplicateEntries and   *)
(* NoOversleep speak of the points where the scheduler waits; the invariant*)
(* says in addition what holds inside the handlers (Control), that the     *)
(* schedule is well formed, so that it has an earliest entry, and that the *)
(* two polling states have a periodic timer.                               *)
(***************************************************************************)
Entries == [key : Sources, deadline : Int]

WellFormed(S) == /\ \A e \in S : e \in Entries /\ e.deadline >= -MaxLate
                 /\ \A e, f \in S : e.key = f.key => e = f

Types == /\ WellFormed(m_schedule)
         /\ m_time_reschedule \in Int /\ m_time_reschedule >= -MaxLate
         /\ timer \in Int /\ timer >= -1 /\ interval \in Nat

Control ==
    /\ m_state \in {"idle", "link_check", "running", "blocked"}
    /\ pc \in {"wait", "enter", "loop"}
    /\ pc = "enter" => m_state = "blocked" /\ nested
    /\ pc = "loop" => m_state \in {"running", "blocked"}
    /\ pc = "loop" /\ ~nested => m_state = "running"
    /\ m_state \in {"idle", "link_check"} => interval > 0
    /\ m_state = "blocked" => blocked_key \in Sources /\ ~drop_overruns
    /\ m_buffer > 0 => m_state = "blocked" /\ pc = "wait"

BlockedNotScheduled ==
    (m_state = "blocked" /\ pc = "wait") =>
        \A e \in m_schedule : e.key # blocked_key

IInv == Types /\ Control /\ BlockedNotScheduled /\ TimerArmed /\ NoOversleep

-----------------------------------------------------------------------------
(* The schedule.                                                           *)

\* A schedule that is not empty has an earliest entry, and top() is one.
LEMMA TopIsEarliest ==
  ASSUME NEW S, WellFormed(S), S # {}
  PROVE  top(S) \in S /\ \A f \in S : top(S).deadline <= f.deadline
<1> DEFINE T == {e.deadline + MaxLate : e \in S}
<1>1. T \subseteq Nat /\ T # {}
  BY TxSchedulerAssumption DEF WellFormed, Entries
<1> DEFINE R == OpToRel(<, Nat)
<1>2. \A m, n \in Nat : m < n => <<m, n>> \in R
  BY Zenon DEF OpToRel
<1>3. IsWellFoundedOn(R, Nat)
  BY NatLessThanWellFounded, Zenon
<1> HIDE DEF R
<1>a. PICK x \in T : \A y \in T : ~(<<y, x>> \in R)
  <2> HIDE DEF T
  <2> QED BY <1>1, <1>3, WFMin, Zenon
<1>b. \A y \in T : x <= y
  <2> HIDE DEF T
  <2> SUFFICES ASSUME NEW y \in T PROVE x <= y
    OBVIOUS
  <2>1. x \in Nat /\ y \in Nat /\ ~(<<y, x>> \in R)
    BY <1>1, <1>a
  <2> QED BY <1>2, <2>1
<1>4. PICK e \in S : x = e.deadline + MaxLate
  OBVIOUS
<1>5. \A f \in S : e.deadline <= f.deadline
  <2> SUFFICES ASSUME NEW f \in S PROVE e.deadline <= f.deadline
    OBVIOUS
  <2>1. e.deadline \in Int /\ f.deadline \in Int
    BY DEF WellFormed, Entries
  <2>2. x <= f.deadline + MaxLate
    BY <1>b
  <2> QED BY <1>4, <2>1, <2>2, TxSchedulerAssumption
<1> HIDE DEF T
<1> QED BY <1>5, Zenon DEF top

\* What the transmit table yields is a schedule.
LEMMA FreshWellFormed == WellFormed(fresh_schedule)
BY TxSchedulerAssumption DEF fresh_schedule, WellFormed, Entries

\* do_reschedule adds no second entry for a source.
LEMMA RescheduleWellFormed ==
  ASSUME NEW S, WellFormed(S) PROVE WellFormed(do_reschedule(S))
BY FreshWellFormed DEF do_reschedule, keys, WellFormed

\* Part of a schedule is one.
LEMMA SubWellFormed ==
  ASSUME NEW S, WellFormed(S), NEW U, U \subseteq S PROVE WellFormed(U)
BY DEF WellFormed

\* So is a schedule with an entry for a source that had none.
LEMMA AddWellFormed ==
  ASSUME NEW S, WellFormed(S), NEW k \in Sources, NEW d \in Int, d >= -MaxLate,
         \A e \in S : e.key # k
  PROVE  WellFormed(S \cup {[key |-> k, deadline |-> d]})
BY DEF WellFormed, Entries

-----------------------------------------------------------------------------
(* Transitions.  Each leaves the scheduler waiting with its timer set.     *)

\* on_transition(state_running): the timer is set for the earlier of the next
\* deadline and the next look at the table.
LEMMA ToRunning ==
  ASSUME Types, to_running(m_schedule)
  PROVE  /\ Types' /\ timer' >= 0 /\ m_state' = "running"
         /\ timer' <= larger(min_poll, m_time_reschedule')
         /\ \A e \in m_schedule' : timer' <= larger(min_poll, e.deadline)
         /\ ~reschedule' => m_schedule' # {}
<1> DEFINE s == IF m_schedule = {} THEN fresh_schedule ELSE m_schedule
           t == IF m_schedule = {} THEN SchedulePoll ELSE m_time_reschedule
<1>1. WellFormed(s) /\ t \in Int /\ t >= -MaxLate
  BY FreshWellFormed, TxSchedulerAssumption DEF Types
<1>2. s # {} => /\ top(s) \in s /\ top(s).deadline \in Int
                /\ \A e \in s : e.deadline \in Int /\ top(s).deadline <= e.deadline
  <2> HIDE DEF s
  <2> SUFFICES ASSUME s # {} PROVE /\ top(s) \in s /\ top(s).deadline \in Int
                /\ \A e \in s : e.deadline \in Int /\ top(s).deadline <= e.deadline
    OBVIOUS
  <2>1. top(s) \in s /\ \A f \in s : top(s).deadline <= f.deadline
    BY <1>1, TopIsEarliest
  <2> QED BY <1>1, <2>1 DEF WellFormed, Entries
<1>3. /\ m_state' = "running" /\ m_schedule' = s /\ m_time_reschedule' = t
      /\ reschedule' = (s = {} \/ t <= top(s).deadline)
      /\ timer' = larger(min_poll, IF s = {} \/ t <= top(s).deadline
                                   THEN t ELSE top(s).deadline)
      /\ interval' = 0
  BY DEF to_running, set_timer_oneshot
<1> HIDE DEF s, t
<1>4. timer' \in Int /\ timer' >= 0
  BY <1>1, <1>2, <1>3 DEF larger, min_poll
<1>5. timer' <= larger(min_poll, t)
  BY <1>1, <1>2, <1>3 DEF larger, min_poll
<1>6. \A e \in s : timer' <= larger(min_poll, e.deadline)
  <2> SUFFICES ASSUME NEW e \in s PROVE timer' <= larger(min_poll, e.deadline)
    OBVIOUS
  <2>1. /\ s # {} /\ top(s).deadline \in Int /\ e.deadline \in Int
        /\ top(s).deadline <= e.deadline
    BY <1>2
  <2>2. CASE t <= top(s).deadline
    <3>1. timer' = larger(min_poll, t)
      BY <1>3, <2>2
    <3> QED BY <1>1, <2>1, <2>2, <3>1 DEF larger, min_poll
  <2>3. CASE ~(t <= top(s).deadline)
    <3>1. timer' = larger(min_poll, top(s).deadline)
      BY <1>3, <2>1, <2>3
    <3> QED BY <2>1, <3>1 DEF larger, min_poll
  <2> QED BY <2>2, <2>3
<1>7. Types'
  <2>1. WellFormed(m_schedule')
    BY <1>1, <1>3
  <2>2. interval' \in Nat
    BY <1>3
  <2> QED BY <1>1, <1>3, <1>4, <2>1, <2>2 DEF Types, WellFormed
<1>8. ~reschedule' => m_schedule' # {}
  BY <1>3
<1> QED BY <1>3, <1>4, <1>5, <1>6, <1>7, <1>8

\* The idle state gets a periodic timer that fires at once.
LEMMA ToIdle ==
  ASSUME Types, to_idle, UNCHANGED m_schedule
  PROVE  /\ Types' /\ timer' = 0 /\ interval' > 0 /\ m_state' = "idle"
BY TxSchedulerAssumption DEF Types, to_idle, set_timer_interval

\* So does the state that waits for the link.
LEMMA ToLinkCheck ==
  ASSUME Types, to_link_check
  PROVE  /\ Types' /\ timer' = 0 /\ interval' > 0 /\ m_state' = "link_check"
         /\ m_buffer' = 0
<1>1. WellFormed({})
  BY DEF WellFormed
<1> QED BY <1>1, TxSchedulerAssumption DEF Types, to_link_check, set_timer_interval

\* Reading the timer's descriptor.
LEMMA Rearm ==
  ASSUME Types, rearm
  PROVE  /\ timer' \in Int /\ timer' >= -1 /\ interval' = interval
         /\ interval > 0 => timer' >= 0
BY DEF Types, rearm, Disarmed

-----------------------------------------------------------------------------
(* Every step preserves the invariant.                                     *)

\* The constructor establishes the invariant.
LEMMA InitIInv == Init => IInv
<1>1. WellFormed({})
  BY DEF WellFormed
<1> QED BY <1>1, TxSchedulerAssumption
        DEF Init, IInv, Types, Control, BlockedNotScheduled, TimerArmed,
            NoOversleep, Disarmed

\* Timeouts of the idle and the link_check state.
LEMMA PollIInv ==
  ASSUME IInv, on_timeout_idle \/ on_timeout_link_check PROVE IInv'
<1> USE DEF IInv, Control, BlockedNotScheduled, TimerArmed, NoOversleep, Disarmed
<1>0. pc = "wait" /\ pc' = "wait" /\ m_state \in {"idle", "link_check"} /\ m_buffer' \in {m_buffer, 0}
  BY DEF on_timeout_idle, on_timeout_link_check, fires, to_link_check
<1>1. CASE rearm /\ UNCHANGED <<fsmVars, m_schedule, m_buffer, m_time_reschedule>>
  <2>1. Types' /\ timer' >= 0 /\ interval' > 0
    BY <1>0, <1>1, Rearm DEF Types, fsmVars
  <2> QED BY <1>0, <1>1, <2>1 DEF fsmVars
<1>2. CASE to_link_check
  BY <1>0, <1>2, ToLinkCheck
<1>3. CASE to_running(m_schedule) /\ UNCHANGED m_buffer
  BY <1>0, <1>3, ToRunning
<1>4. CASE to_idle /\ UNCHANGED <<m_schedule, m_buffer>>
  BY <1>0, <1>4, ToIdle
<1> QED BY <1>1, <1>2, <1>3, <1>4 DEF on_timeout_idle, on_timeout_link_check

\* The start of on_timeout(state_running), also when called from blocked.
LEMMA EnterIInv == ASSUME IInv, on_timeout_running PROVE IInv'
<1> USE DEF IInv, Control, BlockedNotScheduled, TimerArmed, NoOversleep, Disarmed
<1>1. CASE to_link_check /\ pc' = "wait" /\ nested' = FALSE
  <2>1. Types' /\ timer' = 0 /\ interval' > 0 /\ m_state' = "link_check" /\ m_buffer' = 0
    BY <1>1, ToLinkCheck
  <2> QED BY <1>1, <2>1
<1>2. CASE ~(to_link_check /\ pc' = "wait" /\ nested' = FALSE)
  <2>1. /\ fires("running") \/ pc = "enter"
        /\ rearm /\ pc' = "loop"
        /\ UNCHANGED <<m_state, remaining, blocked_key, m_buffer, nested>>
        /\ UNCHANGED envVars
        /\ m_schedule' \in {m_schedule, do_reschedule(m_schedule)}
        /\ \/ m_time_reschedule' = m_time_reschedule
           \/ m_time_reschedule < 0 /\ m_time_reschedule' = m_time_reschedule + SchedulePoll
    BY <1>2 DEF on_timeout_running
  <2>2. Types'
    <3>1. WellFormed(m_schedule')
      BY <2>1, RescheduleWellFormed DEF Types
    <3>2. m_time_reschedule' \in Int /\ m_time_reschedule' >= -MaxLate
      BY <2>1, TxSchedulerAssumption DEF Types
    <3>3. timer' \in Int /\ timer' >= -1 /\ interval' \in Nat
      BY <2>1, Rearm DEF Types
    <3> QED BY <3>1, <3>2, <3>3 DEF Types, WellFormed
  <2>3. interval' = interval
    BY <2>1, Rearm
  <2> QED BY <2>1, <2>2, <2>3 DEF fires, envVars
<1> QED BY <1>1, <1>2

\* Entries that are due: dropped, transmitted, or the source blocks.
LEMMA LoopIInv ==
  ASSUME IInv, loop_skip \/ \E s \in Sources : loop_transmit(s) PROVE IInv'
<1> USE DEF IInv, Control, BlockedNotScheduled, TimerArmed, NoOversleep, Disarmed
<1> DEFINE e == top(m_schedule)
           rest == m_schedule \ {e}
<1>0. pc = "loop" /\ m_schedule # {}
  BY DEF loop_skip, loop_transmit, due
<1>1. e \in m_schedule /\ e \in Entries /\ e.deadline >= -MaxLate
  BY <1>0, TopIsEarliest DEF Types, WellFormed
<1>2. WellFormed(rest) /\ \A f \in rest : f.key # e.key
  <2>1. WellFormed(rest)
    BY SubWellFormed DEF Types
  <2>2. \A f \in rest : f.key # e.key
    BY <1>1 DEF Types, WellFormed
  <2> QED BY <2>1, <2>2
<1> HIDE DEF e, rest
<1>3. CASE loop_skip
  <2>1. /\ m_schedule' = rest
        /\ UNCHANGED <<envVars, timerVars, fsmVars, m_buffer, m_time_reschedule, pc,
                       nested>>
    BY <1>3 DEF loop_skip, rest, e
  <2>2. Types'
    BY <1>2, <2>1 DEF Types, timerVars, WellFormed
  <2> QED BY <1>0, <2>1, <2>2 DEF timerVars, fsmVars, envVars
<1>4. ASSUME NEW s \in Sources, loop_transmit(s) PROVE IInv'
  <2>1. /\ s = e.key /\ UNCHANGED envVars
        /\ \/ /\ ~drop_overruns /\ m_schedule' = rest /\ pc' = "wait"
              /\ \E x : to_blocked(s, x)
           \/ /\ m_schedule' = rest \cup {[key |-> s, deadline |-> e.deadline + Period[s]]}
                 \/ m_schedule' = rest
              /\ UNCHANGED <<m_buffer, fsmVars, timerVars, m_time_reschedule, pc, nested>>
    BY <1>4 DEF loop_transmit, rest, e
  <2>2. CASE ~drop_overruns /\ m_schedule' = rest /\ pc' = "wait" /\ \E x : to_blocked(s, x)
    <3>1. /\ m_state' = "blocked" /\ blocked_key' = s /\ timer' = 1 /\ interval' = 0
          /\ m_time_reschedule' = m_time_reschedule
      BY <2>2 DEF to_blocked, set_timer_oneshot, block_poll
    <3>2. Types'
      BY <1>2, <2>2, <3>1 DEF Types, WellFormed
    <3>3. \A f \in m_schedule' : f.key # blocked_key'
      BY <1>2, <2>1, <2>2, <3>1
    <3> QED BY <2>1, <2>2, <3>1, <3>2, <3>3 DEF envVars
  <2>3. CASE /\ m_schedule' = rest \cup {[key |-> s, deadline |-> e.deadline + Period[s]]}
                \/ m_schedule' = rest
             /\ UNCHANGED <<m_buffer, fsmVars, timerVars, m_time_reschedule, pc, nested>>
    <3>1. WellFormed(m_schedule')
      <4>1. e.deadline + Period[s] \in Int /\ e.deadline + Period[s] >= -MaxLate
        BY <1>1, TxSchedulerAssumption DEF Entries
      <4>2. WellFormed(rest \cup {[key |-> s, deadline |-> e.deadline + Period[s]]})
        BY <1>2, <2>1, <4>1, AddWellFormed
      <4> QED BY <1>2, <2>3, <4>2
    <3>2. Types'
      BY <2>3, <3>1 DEF Types, timerVars, WellFormed
    <3> QED BY <1>0, <2>1, <2>3, <3>2 DEF timerVars, fsmVars, envVars
  <2> QED BY <2>1, <2>2, <2>3
<1> QED BY <1>3, <1>4

\* The end of on_timeout(state_running).
LEMMA DoneIInv == ASSUME IInv, loop_done PROVE IInv'
<1> USE DEF IInv, Control, BlockedNotScheduled, TimerArmed, NoOversleep, Disarmed
<1>0. /\ pc = "loop" /\ pc' = "wait" /\ UNCHANGED <<envVars, m_buffer>>
      /\ m_state \in {"running", "blocked"}
      /\ ~(m_buffer > 0)
  BY DEF loop_done
<1>1. CASE to_idle /\ UNCHANGED m_schedule
  BY <1>0, <1>1, ToIdle
<1>2. CASE to_running(m_schedule)
  BY <1>0, <1>2, ToRunning
<1>3. CASE /\ m_schedule # {} /\ ~nested
           /\ ~to_running(m_schedule) /\ ~to_idle
  <2> DEFINE d == top(m_schedule).deadline
  <2>1. /\ UNCHANGED <<m_state, remaining, blocked_key, m_schedule, m_time_reschedule>>
        /\ \/ /\ m_time_reschedule <= d
              /\ timer' = larger(min_poll, m_time_reschedule)
           \/ /\ ~(m_time_reschedule <= d) /\ timer' = d
        /\ interval' = 0
    BY <1>3 DEF loop_done, set_timer_oneshot
  <2>2. d \in Int /\ d > 0 /\ \A e \in m_schedule : e.deadline \in Int /\ d <= e.deadline
    <3>1. top(m_schedule) \in m_schedule /\ \A f \in m_schedule : d <= f.deadline
      BY <1>3, TopIsEarliest DEF Types
    <3>2. ~(d <= 0)
      BY <1>3 DEF loop_done, due
    <3> QED BY <3>1, <3>2 DEF Types, WellFormed, Entries
  <2> HIDE DEF d
  <2>3. timer' \in Int /\ timer' > 0 /\ timer' <= larger(min_poll, m_time_reschedule')
    BY <2>1, <2>2 DEF Types, larger, min_poll
  <2>4. \A e \in m_schedule' : timer' <= larger(min_poll, e.deadline)
    BY <2>1, <2>2 DEF Types, larger, min_poll
  <2>5. Types'
    BY <2>1, <2>3 DEF Types, WellFormed
  <2> QED BY <1>0, <1>3, <2>1, <2>3, <2>4, <2>5 DEF envVars
<1> QED BY <1>1, <1>2, <1>3 DEF loop_done

\* on_timeout(state_blocked).
LEMMA BlockedIInv ==
  ASSUME IInv, \/ blocked_link_down \/ blocked_source_gone \/ blocked_prepare_fails
               \/ blocked_partial \/ blocked_again \/ blocked_done
  PROVE  IInv'
<1> USE DEF IInv, Control, BlockedNotScheduled, TimerArmed, NoOversleep, Disarmed
<1>0. /\ pc = "wait" /\ m_state = "blocked" /\ blocked_key \in Sources
      /\ ~drop_overruns /\ UNCHANGED envVars
  BY DEF blocked_link_down, blocked_source_gone, blocked_prepare_fails,
         blocked_partial, blocked_again, blocked_done, fires
<1>1. CASE blocked_link_down
  <2>1. to_link_check /\ pc' = "wait"
    BY <1>0, <1>1 DEF blocked_link_down
  <2> QED BY <2>1, ToLinkCheck
<1>2. CASE blocked_source_gone
  <2>1. m_buffer' = 0 /\ pc' = "wait"
    BY <1>0, <1>2 DEF blocked_source_gone
  <2>2. CASE to_running(m_schedule)
    BY <2>1, <2>2, ToRunning
  <2>3. CASE to_idle /\ UNCHANGED m_schedule
    BY <2>1, <2>3, ToIdle
  <2> QED BY <1>2, <2>2, <2>3 DEF blocked_source_gone
<1>3. CASE blocked_prepare_fails
  <2>1. /\ refuses /\ m_buffer > 0 /\ rearm
        /\ UNCHANGED <<fsmVars, m_schedule, m_buffer, m_time_reschedule, pc, nested>>
    BY <1>3 DEF blocked_prepare_fails
  <2>2. Types' /\ interval' = interval
    BY <2>1, Rearm DEF Types, WellFormed
  <2> QED BY <1>0, <2>1, <2>2 DEF fsmVars, envVars
<1>4. CASE blocked_partial \/ blocked_again
  <2>1. /\ UNCHANGED <<m_state, reschedule, blocked_key, m_schedule, m_time_reschedule,
                       pc, nested>>
        /\ timer' = 1 /\ interval' = 0
    BY <1>4 DEF blocked_partial, blocked_again, set_timer_oneshot, block_poll, fsmVars
  <2>2. Types'
    BY <2>1 DEF Types, WellFormed
  <2> QED BY <1>0, <2>1, <2>2 DEF envVars
<1>5. CASE blocked_done
  <2>1. /\ m_buffer' = 0
        /\ \/ m_schedule' = m_schedule
           \/ m_schedule' = m_schedule \cup {[key |-> blocked_key, deadline |-> 0]}
        /\ \/ to_idle /\ UNCHANGED <<pc, nested>>
           \/ /\ pc' = "enter" /\ nested' = TRUE /\ rearm
              /\ UNCHANGED <<fsmVars, m_time_reschedule>>
    BY <1>5 DEF blocked_done
  <2>2. WellFormed(m_schedule')
    <3>1. 0 \in Int /\ 0 >= -MaxLate
      BY TxSchedulerAssumption
    <3>2. WellFormed(m_schedule \cup {[key |-> blocked_key, deadline |-> 0]})
      BY <1>0, <3>1, AddWellFormed DEF Types
    <3> QED BY <2>1, <3>2 DEF Types
  <2>3. CASE to_idle /\ UNCHANGED <<pc, nested>>
    <3>1. Types' /\ timer' = 0 /\ interval' > 0 /\ m_state' = "idle"
      BY <2>2, <2>3, TxSchedulerAssumption
         DEF Types, to_idle, set_timer_interval, WellFormed
    <3> QED BY <1>0, <2>1, <2>3, <3>1
  <2>4. CASE /\ pc' = "enter" /\ nested' = TRUE /\ rearm
             /\ UNCHANGED <<fsmVars, m_time_reschedule>>
    <3>1. Types' /\ interval' = interval
      BY <2>2, <2>4, Rearm DEF Types, WellFormed
    <3> QED BY <1>0, <2>1, <2>4, <3>1 DEF fsmVars, envVars
  <2> QED BY <2>1, <2>3, <2>4
<1> QED BY <1>1, <1>2, <1>3, <1>4, <1>5

\* Changes of the table and of the link do not touch the scheduler.
LEMMA EnvironmentIInv ==
  ASSUME IInv, (\E s \in Sources : source_changes(s)) \/ link_changes \/ UNCHANGED vars
  PROVE  IInv'
<1>1. UNCHANGED <<drop_overruns, refuses, timerVars, fsmVars, m_schedule, m_buffer,
                  m_time_reschedule, pc, nested>>
  BY DEF source_changes, link_changes, vars, envVars
<1> QED BY <1>1
        DEF IInv, Types, WellFormed, Control, BlockedNotScheduled, TimerArmed,
            NoOversleep, timerVars, fsmVars

\* Time passes for the timer and for the schedule alike.
LEMMA TickIInv == ASSUME IInv, tick PROVE IInv'
<1> USE TxSchedulerAssumption DEF larger, min_poll
<1> DEFINE older(e) == [e EXCEPT !.deadline = larger(@ - 1, -MaxLate)]
<1>1. /\ m_schedule' = {older(e) : e \in m_schedule}
      /\ m_time_reschedule' = larger(m_time_reschedule - 1, -MaxLate)
      /\ timer' = IF timer > 0 THEN timer - 1 ELSE timer
      /\ UNCHANGED <<envVars, interval, fsmVars, m_buffer, pc, nested>>
  BY DEF tick
<1>2. \A e \in m_schedule :
         /\ older(e) \in Entries /\ older(e).key = e.key
         /\ older(e).deadline = larger(e.deadline - 1, -MaxLate)
         /\ e.deadline \in Int /\ e.deadline >= -MaxLate
  BY DEF IInv, Types, WellFormed, Entries
<1>3. WellFormed(m_schedule')
  <2>1. \A f \in m_schedule' : f \in Entries /\ f.deadline >= -MaxLate
    <3> SUFFICES ASSUME NEW f \in m_schedule'
                 PROVE  f \in Entries /\ f.deadline >= -MaxLate
      OBVIOUS
    <3>1. PICK e \in m_schedule : f = older(e)
      BY <1>1
    <3>2. f \in Entries /\ f.deadline = larger(e.deadline - 1, -MaxLate) /\ e.deadline \in Int
      BY <1>2, <3>1
    <3> HIDE DEF older
    <3> QED BY <3>2
  <2>2. ASSUME NEW f \in m_schedule', NEW g \in m_schedule', f.key = g.key PROVE f = g
    <3>1. PICK d \in m_schedule : f = older(d)
      BY <1>1
    <3>2. PICK e \in m_schedule : g = older(e)
      BY <1>1
    <3>3. d = e
      BY <1>2, <2>2, <3>1, <3>2 DEF IInv, Types, WellFormed
    <3> QED BY <3>1, <3>2, <3>3
  <2> QED BY <2>1, <2>2 DEF WellFormed
<1>4. Types'
  <2>1. m_time_reschedule' \in Int /\ m_time_reschedule' >= -MaxLate
    BY <1>1 DEF IInv, Types
  <2>2. timer' \in Int /\ timer' >= -1 /\ interval' \in Nat
    BY <1>1 DEF IInv, Types
  <2> QED BY <1>3, <2>1, <2>2 DEF Types, WellFormed
<1>5. Control' /\ TimerArmed'
  BY <1>1 DEF IInv, Types, Control, TimerArmed, Disarmed, fsmVars, envVars
<1>6. BlockedNotScheduled'
  <2> SUFFICES ASSUME m_state' = "blocked", pc' = "wait", NEW f \in m_schedule'
               PROVE  f.key # blocked_key'
    BY DEF BlockedNotScheduled
  <2>1. PICK e \in m_schedule : f = older(e)
    BY <1>1
  <2>2. f.key = e.key
    BY <1>2, <2>1
  <2> HIDE DEF older
  <2> QED BY <1>1, <2>2 DEF IInv, BlockedNotScheduled, fsmVars
<1>7. NoOversleep'
  <2> SUFFICES ASSUME m_state' = "running", pc' = "wait"
               PROVE  /\ timer' <= larger(min_poll, m_time_reschedule')
                      /\ \A f \in m_schedule' : timer' <= larger(min_poll, f.deadline)
                      /\ ~reschedule' => m_schedule' # {}
    BY DEF NoOversleep
  <2>1. /\ timer <= larger(min_poll, m_time_reschedule)
        /\ \A e \in m_schedule : timer <= larger(min_poll, e.deadline)
        /\ ~reschedule => m_schedule # {}
    BY <1>1 DEF IInv, NoOversleep, fsmVars
  <2>2. timer' <= larger(min_poll, m_time_reschedule')
    BY <1>1, <2>1 DEF IInv, Types
  <2>3. ASSUME NEW f \in m_schedule' PROVE timer' <= larger(min_poll, f.deadline)
    <3>1. PICK e \in m_schedule : f = older(e)
      BY <1>1
    <3>2. /\ f.deadline = larger(e.deadline - 1, -MaxLate)
          /\ e.deadline \in Int /\ e.deadline >= -MaxLate
      BY <1>2, <3>1
    <3>3. timer <= larger(min_poll, e.deadline)
      BY <2>1
    <3> HIDE DEF older
    <3> QED BY <1>1, <3>2, <3>3 DEF IInv, Types
  <2>4. ~reschedule' => m_schedule' # {}
    BY <1>1, <2>1 DEF fsmVars
  <2> QED BY <2>2, <2>3, <2>4
<1> QED BY <1>4, <1>5, <1>6, <1>7 DEF IInv

-----------------------------------------------------------------------------
\* The invariant holds in every reachable state.
THEOREM Inductive == Spec => []IInv
<1>1. Init => IInv
  BY InitIInv
<1>2. IInv /\ [Next]_vars => IInv'
  BY PollIInv, EnterIInv, LoopIInv, DoneIInv, BlockedIInv, EnvironmentIInv, TickIInv
     DEF Next, run
<1> QED BY <1>1, <1>2, PTL DEF Spec

\* Packets are held back in the blocked state only, whichever way it was left
\* and entered again.
THEOREM HeldSafe == Spec => []HeldOnlyWhenBlocked
<1>1. IInv => HeldOnlyWhenBlocked
  BY DEF IInv, Control, HeldOnlyWhenBlocked
<1> QED BY <1>1, Inductive, PTL

\* A source has at most one entry in the schedule, and none while blocked.
THEOREM OneEntry == Spec => []NoDuplicateEntries
<1>1. IInv => NoDuplicateEntries
  BY DEF IInv, Types, WellFormed, BlockedNotScheduled, NoDuplicateEntries, keys
<1> QED BY <1>1, Inductive, PTL

\* The running scheduler never sleeps past a deadline or past the time to look
\* for new sources.
THEOREM WakesInTime == Spec => []NoOversleep
<1>1. IInv => NoOversleep
  BY DEF IInv
<1> QED BY <1>1, Inductive, PTL

\* The waiting scheduler's timer is armed, unless the driver has refused the
\* packets that the scheduler holds.
THEOREM NeverStuck == Spec => []TimerArmed
<1>1. IInv => TimerArmed
  BY DEF IInv
<1> QED BY <1>1, Inductive, PTL
=============================================================================
