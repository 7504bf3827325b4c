---------------------------- MODULE MCGenerators ----------------------------
(* What runs load over time: the threads under a generator's controller, a  *)
(* tvlp profile that drives generators, and the clock that both read.       *)
EXTENDS GeneratorController

CONSTANTS
    NParts, Entries, Toggles, MaxStarts, MaxFaults, Slots, MaxSyncs, Readers

VARIABLES
    part,       \* the component that takes steps
    state, stopped, sched, results, gens, m_state, server, copying, already,
    failed, starts, faults,
    timehands, m_idx, m_now, sync, reader

T == INSTANCE Tvlp
K == INSTANCE TimeKeeper

ASSUME GeneratorsAssumption == T!TvlpAssumption /\ K!TimeKeeperAssumption

tvars == <<state, stopped, sched, results, gens, m_state, server, copying,
           already, failed, starts, faults>>
kvars == <<timehands, m_idx, m_now, sync, reader>>
all == <<part, vars, tvars, kvars>>

MCInit == part \in {"controller", "tvlp", "clock"} /\ Init /\ T!Init /\ K!Init

MCNext ==
    /\ \/ part = "controller" /\ Next /\ UNCHANGED <<tvars, kvars>>
       \/ part = "tvlp" /\ T!Next /\ UNCHANGED <<vars, kvars>>
       \/ part = "clock" /\ K!Next /\ UNCHANGED <<vars, tvars>>
    /\ UNCHANGED part

MCSpec == MCInit /\ [][MCNext]_all /\ Fairness /\ T!Fairness

\* The result stored for an entry of a profile holds the statistics of the
\* generator of that entry (tvlp/worker.cpp:98).  A tvlp worker that says READY or
\* ERROR has ended, and has deleted what it made unless a request to stop, poll or
\* delete it failed.
ProfilesSettle == T!ResultsMatch /\ T!Settled

\* Every call of a generator's controller returns, and every request to tvlp is
\* answered, even a stop long before the start time.
RequestsReturn == CallsReturn /\ T!RequestsReturn

\* The time is computed from one sync, unless all other timehands have been
\* published while it was read (timesync/chrono.hpp:86).
OneSync == K!OneSync
=============================================================================
