---------------------------- MODULE MCPortReceive ----------------------------
(* What a port receives: a MAC filter or a flow filter in front of it,      *)
(* whichever its driver can do, and the worker that dispatches what comes.  *)
EXTENDS MacFilter

CONSTANTS
    FlowMacs, MaxRules, MaxOverflows,               \* of the flow filter
    Ifs, Kinds, BurstSize, MaxChanges, MaxCount,    \* of the dispatch
    i1, i2                                          \* interfaces, for MCKinds

VARIABLES
    part,       \* the component that takes steps
    f_state, m_flows, f_promiscuous, lost, m_overflows, hardware_tags,
    f_macs, f_sinks,
    m_interfaces, rx_sinks, sink_count, port_sink, inactive, update, pc, burst,
    tags_trusted, todo, last_dst, last_entry, bursts, to_stack, to_free, tag,
    got, stack, released, touched, changes

F == INSTANCE FlowFilter WITH
    Macs <- FlowMacs,
    m_state <- f_state, promiscuous <- f_promiscuous, macs <- f_macs, sinks <- f_sinks

D == INSTANCE RxDispatch

\* Packets to two interfaces, which need not exist, and to all, one with a
\* signature and one without the device's mark.
plain(dst) == [dst |-> dst, sig |-> FALSE, mark |-> TRUE]

MCKinds == {plain(i1), plain("multicast"),
            [dst |-> i1, sig |-> TRUE, mark |-> TRUE],
            [dst |-> i2, sig |-> FALSE, mark |-> FALSE]}

ASSUME ReceiveAssumption == F!FlowFilterAssumption /\ D!RxDispatchAssumption

fvars == <<f_state, m_flows, f_promiscuous, lost, m_overflows, hardware_tags,
           f_macs, f_sinks>>
dvars == <<m_interfaces, rx_sinks, sink_count, port_sink, inactive, update, pc,
           burst, tags_trusted, todo, last_dst, last_entry, bursts, to_stack,
           to_free, tag, got, stack, released, touched, changes>>
all == <<part, vars, fvars, dvars>>

MCInit == part \in {"macs", "flows", "dispatch"} /\ Init /\ F!Init /\ D!Init

MCNext ==
    /\ \/ part = "macs" /\ Next /\ UNCHANGED <<fvars, dvars>>
       \/ part = "flows" /\ F!Next /\ UNCHANGED <<vars, dvars>>
       \/ part = "dispatch" /\ D!Next /\ UNCHANGED <<vars, fvars>>
    /\ UNCHANGED part

MCSpec == MCInit /\ [][MCNext]_all

\* The flow filter keeps room for the rule that lets everything in, and tells
\* the workers to trust tags only when its rules tag every packet.
FlowsCover == F!RoomReserved /\ F!TagsCover

\* Every packet of a burst is given back or given away once.
ReleasedOnce == D!ReleasedOnce

\* Sinks get the packets of their interface, in order and all of them, and the
\* stack those of its interfaces.
PacketsServed == D!SinkOrder /\ D!SinkComplete /\ D!StackComplete

\* The count of sinks is never below the number of sinks a worker can find.
CountCovers == D!CountCovers
=============================================================================
