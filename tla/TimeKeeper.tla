----------------------------- MODULE TimeKeeper -----------------------------
(***************************************************************************)
(* src/modules/timesync/chrono: the keeper of the clock.  One thread syncs *)
(* the clock by filling the next of a few timehands and pointing m_now at  *)
(* it; every thread that asks for the time reads the timehands that m_now  *)
(* points at, without a lock.  A generation of zero marks timehands that   *)
(* are being filled.                                                       *)
(*                                                                         *)
(* The contents of a timehands are two parts, filled and read one after    *)
(* the other: the ticks (t_zero, t_lerp) and the data (ref, lerp).  Each   *)
(* is known by the number of the sync that wrote it.                       *)
(***************************************************************************)
EXTENDS Naturals

CONSTANTS
    Readers,    \* threads that call realtime::now()
    Slots,      \* timehands_max
    MaxSyncs    \* calls of sync()

TimeKeeperAssumption == Slots \in Nat \ {0} /\ MaxSyncs \in Nat

Slot == 0..Slots - 1

VARIABLES
    timehands,  \* generation, ticks and data of every slot
    m_idx,      \* the next slot, before the mask
    m_now,      \* the slot to read
    sync,       \* where the thread that syncs is
    reader      \* where each reader is, and what it has read

vars == <<timehands, m_idx, m_now, sync, reader>>

TypeOK ==
    /\ timehands \in [Slot -> [generation : Nat, ticks : Nat, data : Nat]]
    /\ m_idx \in Nat /\ m_now \in Slot
    /\ sync \in {"idle", "ticks", "data", "release", "publish"}
    /\ reader \in [Readers ->
         [pc : {"start", "gen", "check", "ticks", "data", "done"},
          th : Slot, gen : Nat, ticks : Nat, data : Nat,
          since : Nat]]         \* syncs published since m_now was read

Idle == [pc |-> "start", th |-> 0, gen |-> 0, ticks |-> 0, data |-> 0, since |-> 0]

\* The state after setup().
Init ==
    /\ timehands = [s \in Slot |-> [generation |-> IF s = 0 THEN 1 ELSE 0,
                                    ticks |-> 0, data |-> 0]]
    /\ m_idx = 1 /\ m_now = 0
    /\ sync = "idle"
    /\ reader = [r \in Readers |-> Idle]

-----------------------------------------------------------------------------
(* keeper::sync().  The number of a sync is the m_idx it starts from.      *)

\* Mutation: the index is masked one bit short.
next_slot_short == m_idx % (Slots - 1)

next_slot == m_idx % Slots

\* The generation of the next timehands is set to 0; it is kept in gen_next.
claim ==
    /\ sync = "idle" /\ m_idx <= MaxSyncs
    /\ sync' = "ticks"
    /\ UNCHANGED <<m_idx, m_now, reader>>
    /\ timehands' = [timehands EXCEPT ![next_slot].generation = 0]

fill(part, next) ==
    /\ sync = part /\ sync' = next
    /\ UNCHANGED <<m_idx, m_now, reader>>

fill_ticks == /\ fill("ticks", "data")
              /\ timehands' = [timehands EXCEPT ![next_slot].ticks = m_idx]

fill_data == /\ fill("data", "release")
             /\ timehands' = [timehands EXCEPT ![next_slot].data = m_idx]

\* gen_next + 1: one more than the syncs that have used the slot.
release == /\ fill("release", "publish")
           /\ timehands' = [timehands EXCEPT ![next_slot].generation = m_idx \div Slots + 1]

publish ==
    /\ sync = "publish" /\ sync' = "idle"
    /\ m_now' = next_slot /\ m_idx' = m_idx + 1
    /\ reader' = [r \in Readers |->
                    IF reader[r].pc = "start" THEN reader[r]
                    ELSE [reader[r] EXCEPT !.since = @ + 1]]
    /\ UNCHANGED timehands

Sync == claim \/ fill_ticks \/ fill_data \/ release \/ publish

-----------------------------------------------------------------------------
(* realtime::now().                                                        *)

step(r, pc, next, values) ==
    /\ reader[r].pc = pc
    /\ reader' = [reader EXCEPT ![r] = [values EXCEPT !.pc = next]]
    /\ UNCHANGED <<timehands, m_idx, m_now, sync>>

timehands_now(r) == step(r, "start", "gen", [Idle EXCEPT !.th = m_now])

load_generation(r) ==
    step(r, "gen", "check",
         [reader[r] EXCEPT !.gen = timehands[reader[r].th].generation])

\* The counter is read, and the loop ends if the generation is still the same.
check_generation(r) ==
    LET th == timehands[reader[r].th] IN
    step(r, "check",
         IF reader[r].gen # 0 /\ reader[r].gen = th.generation THEN "ticks" ELSE "start",
         reader[r])

\* The contents are read after the loop.
read_ticks(r) ==
    step(r, "ticks", "data",
         [reader[r] EXCEPT !.ticks = timehands[reader[r].th].ticks])

read_data(r) ==
    step(r, "data", "done",
         [reader[r] EXCEPT !.data = timehands[reader[r].th].data])

return(r) == step(r, "done", "start", Idle)

Now(r) == \/ timehands_now(r) \/ load_generation(r) \/ check_generation(r)
          \/ read_ticks(r) \/ read_data(r) \/ return(r)

Next == Sync \/ \E r \in Readers : Now(r)

Spec == Init /\ [][Next]_vars

-----------------------------------------------------------------------------
(* Properties.                                                             *)

\* The time comes from one sync: the ticks and the data that a reader uses are
\* of the same sync, unless all other timehands have been published since it
\* read m_now.  The generation is checked before the contents are read
\* (chrono.hpp:86), so only the number of timehands protects them.
OneSync ==
    \A r \in Readers : reader[r].pc = "done" /\ reader[r].since < Slots - 1 =>
        reader[r].ticks = reader[r].data

\* The same without the bound.
NoTornTime == \A r \in Readers : reader[r].pc = "done" =>
                                    reader[r].ticks = reader[r].data
=============================================================================
