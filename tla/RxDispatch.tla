----------------------------- MODULE RxDispatch ------------------------------
(***************************************************************************)
(* The receive path of packetio/workers/dpdk/worker.cpp, rx_burst() and    *)
(* what it calls, for one port: a burst of packets goes to the sinks of    *)
(* the port, to the sinks of its interfaces and to the stack, while the    *)
(* server thread changes the forwarding table (forwarding_table.tcc).      *)
(*                                                                         *)
(* An interface is named by its MAC address and has at most one receive    *)
(* sink here, named like the interface; the port has one sink, Port.  The  *)
(* packets of a burst are the indexes of the sequence burst.               *)
(***************************************************************************)
EXTENDS Naturals, Sequences, FiniteSets, SequencesExt, Subsequences

CONSTANTS
    Ifs,            \* interfaces
    Kinds,          \* packets that arrive: set of [dst, sig, mark]
    BurstSize,      \* pkt_burst_size
    MaxChanges,     \* bound: changes by other threads during a burst
    MaxCount        \* bound: the table's count of interface sinks

None      == "none"
Multicast == "multicast"
Port      == "port"

RxDispatchAssumption ==
    /\ IsFiniteSet(Ifs) /\ Ifs \cap {None, Multicast, Port} = {}
    /\ Kinds \subseteq [dst : Ifs \cup {Multicast}, sig : BOOLEAN, mark : BOOLEAN]
    /\ BurstSize \in Nat \ {0}
    /\ MaxChanges \in Nat /\ MaxCount \in Nat

Sinks == Ifs \cup {Port}

NoEntry == [ifp |-> None, sink |-> FALSE]      \* the null interface_sinks*

VARIABLES
    m_interfaces,   \* the table's interfaces
    rx_sinks,       \* the interfaces whose entry has a sink
    sink_count,     \* m_port_interface_rx_sink_count
    port_sink,      \* m_port_rx_sinks has the sink
    inactive,       \* sinks whose active() is false
    update,         \* entry that the server thread is about to exchange, or None
    pc,             \* where the worker is
    burst,          \* the packets
    tags_trusted,   \* has_hardware_tags
    todo,           \* packets the current loop has still to look at
    last_dst, last_entry,   \* of the loop of rx_interface_sink_dispatch
    bursts,         \* bursts it has started: [start, count, entry]
    to_stack, to_free,
    tag,            \* [packets -> interface in the mbuf, or None]
    got,            \* [Sinks -> packets pushed to the sink]
    stack,          \* [Ifs -> packets given to input_packet()]
    released,       \* mbufs given away or freed
    touched,        \* history: interfaces and sinks changed, or missed a clone, in the burst
    changes         \* history: number of those changes

tableVars  == <<m_interfaces, rx_sinks, sink_count, port_sink, inactive, update>>
loopVars   == <<todo, last_dst, last_entry, bursts>>
listVars   == <<to_stack, to_free, tag>>
outVars    == <<got, stack, released>>
histVars   == <<touched, changes>>
vars == <<tableVars, pc, burst, tags_trusted, loopVars, listVars, outVars, histVars>>

all == [m \in 1..Len(burst) |-> m]

Init ==
    /\ m_interfaces = {} /\ rx_sinks = {} /\ sink_count = 0
    /\ port_sink = FALSE /\ inactive = {} /\ update = None
    /\ pc = "idle" /\ burst = <<>> /\ tags_trusted = FALSE
    /\ todo = <<>> /\ last_dst = None /\ last_entry = NoEntry /\ bursts = <<>>
    /\ to_stack = <<>> /\ to_free = <<>> /\ tag = <<>>
    /\ got = [s \in Sinks |-> <<>>] /\ stack = [i \in Ifs |-> <<>>] /\ released = <<>>
    /\ touched = {} /\ changes = 0

-----------------------------------------------------------------------------
(* The server thread: forwarding_table.tcc.                                *)

\* Something that concerns interface or sink x changes.
change(x) ==
    /\ pc # "idle" => changes < MaxChanges
    /\ IF pc = "idle" THEN UNCHANGED histVars
       ELSE touched' = touched \cup {x} /\ changes' = changes + 1
    /\ UNCHANGED <<pc, burst, tags_trusted, loopVars, listVars, outVars>>

insert_interface(i) ==
    /\ update = None /\ i \notin m_interfaces
    /\ m_interfaces' = m_interfaces \cup {i}
    /\ UNCHANGED <<rx_sinks, sink_count, port_sink, inactive, update>>
    /\ change(i)

\* Mutation: the count is lowered also if the interface has no sink.
remove_interface_counts(i) ==
    /\ update = None /\ i \in m_interfaces
    /\ m_interfaces' = m_interfaces \ {i} /\ rx_sinks' = rx_sinks \ {i}
    /\ sink_count' = IF sink_count > 0 THEN sink_count - 1 ELSE 0
    /\ UNCHANGED <<port_sink, inactive, update>>
    /\ change(i)

\* The sinks of the interface go with it; they stay counted.
remove_interface(i) ==
    /\ update = None /\ i \in m_interfaces
    /\ m_interfaces' = m_interfaces \ {i} /\ rx_sinks' = rx_sinks \ {i}
    /\ UNCHANGED <<sink_count, port_sink, inactive, update>>
    /\ change(i)

\* The count changes first, then the table's pointer is exchanged.
insert_interface_sink(i) ==
    /\ update = None /\ i \in m_interfaces \ rx_sinks /\ sink_count < MaxCount
    /\ sink_count' = sink_count + 1 /\ update' = i
    /\ UNCHANGED <<m_interfaces, rx_sinks, port_sink, inactive>>
    /\ change(i)

remove_interface_sink(i) ==
    /\ update = None /\ i \in rx_sinks
    /\ sink_count' = sink_count - 1 /\ update' = i
    /\ UNCHANGED <<m_interfaces, rx_sinks, port_sink, inactive>>
    /\ change(i)

exchange(i) ==
    /\ update = i /\ update' = None
    /\ rx_sinks' = IF i \in rx_sinks THEN rx_sinks \ {i} ELSE rx_sinks \cup {i}
    /\ UNCHANGED <<m_interfaces, sink_count, port_sink, inactive>>
    /\ UNCHANGED <<pc, burst, tags_trusted, loopVars, listVars, outVars>>
    /\ IF pc = "idle" THEN UNCHANGED histVars
       ELSE touched' = touched \cup {i} /\ UNCHANGED changes

\* insert_sink and remove_sink.
change_port_sink ==
    /\ update = None /\ port_sink' = ~port_sink
    /\ UNCHANGED <<m_interfaces, rx_sinks, sink_count, inactive, update>>
    /\ change(Port)

\* A sink's owner starts or stops it.
change_active(s) ==
    /\ inactive' = IF s \in inactive THEN inactive \ {s} ELSE inactive \cup {s}
    /\ UNCHANGED <<m_interfaces, rx_sinks, sink_count, port_sink, update>>
    /\ change(s)

server == \/ \E i \in Ifs : \/ insert_interface(i) \/ remove_interface(i)
                            \/ insert_interface_sink(i) \/ remove_interface_sink(i)
                            \/ exchange(i)
          \/ change_port_sink \/ \E s \in Sinks : change_active(s)

-----------------------------------------------------------------------------
(* The worker.                                                             *)

unicast(m) == burst[m].dst # Multicast

\* rte_eth_rx_burst delivers packets.
rx_burst(packets) ==
    /\ pc = "idle" /\ pc' = "port"
    /\ burst' = packets
    /\ tag' = [m \in DOMAIN packets |-> None]
    /\ touched' = {update} \ {None}
    /\ UNCHANGED <<tableVars, tags_trusted, loopVars, to_stack, to_free, outVars, changes>>

rx_sink_dispatch ==
    /\ pc = "port" /\ pc' = "interfaces"
    /\ got' = IF port_sink /\ Port \notin inactive THEN [got EXCEPT ![Port] = all] ELSE got
    /\ UNCHANGED <<tableVars, burst, tags_trusted, loopVars, listVars, stack, released, histVars>>

\* Without interfaces the packets are dropped now.  Otherwise the queue's flag is
\* read, which the port's filter sets and clears at any time (module FlowFilter).
check_interfaces(flag) ==
    /\ pc = "interfaces"
    /\ IF m_interfaces = {} THEN pc' = "done" /\ released' = all /\ UNCHANGED tags_trusted
                            ELSE pc' = "count" /\ tags_trusted' = flag /\ UNCHANGED released
    /\ UNCHANGED <<tableVars, burst, loopVars, listVars, got, stack, histVars>>

\* Signature packets are not for the stack, nor are packets without a mark if
\* the queue's flag says that the device marks what is for the stack.
for_stack(m) == ~burst[m].sig /\ (tags_trusted => burst[m].mark)
ForStack    == {m \in DOMAIN burst : for_stack(m)}
NotForStack == DOMAIN burst \ ForStack

\* has_interface_rx_sinks(): the packets go to the interfaces' sinks or
\* are filtered at once.
check_sinks ==
    /\ pc = "count"
    /\ IF sink_count > 0
       THEN pc' = "sinks" /\ todo' = all /\ UNCHANGED to_free
       ELSE /\ pc' = "resolve"
            /\ todo' = Only(all, ForStack) /\ to_free' = Only(all, NotForStack)
    /\ UNCHANGED <<tableVars, burst, tags_trusted, last_dst, last_entry, bursts, to_stack,
                   tag, outVars, histVars>>

\* rx_resolve_interfaces, one packet.
resolve ==
    /\ pc = "resolve"
    /\ IF todo = <<>> THEN pc' = "gro" /\ UNCHANGED <<todo, listVars>>
       ELSE LET m == Head(todo)
            IN  /\ todo' = Tail(todo) /\ UNCHANGED pc
                /\ IF unicast(m) /\ burst[m].dst \notin m_interfaces
                   THEN to_free' = Append(to_free, m) /\ UNCHANGED <<to_stack, tag>>
                   ELSE /\ to_stack' = Append(to_stack, m)
                        /\ tag' = [tag EXCEPT ![m] = IF unicast(m) THEN burst[m].dst ELSE None]
                        /\ UNCHANGED to_free
    /\ UNCHANGED <<tableVars, burst, tags_trusted, last_dst, last_entry, bursts, outVars, histVars>>

find_interface_and_sinks(d) ==
    IF d \in m_interfaces THEN [ifp |-> d, sink |-> d \in rx_sinks] ELSE NoEntry

\* Mutation: the entry of the last packet is used whatever the address.
entry_of_stale(m) == IF last_entry # NoEntry THEN last_entry
                     ELSE find_interface_and_sinks(burst[m].dst)

\* The entry for a unicast packet; the last one is remembered.
entry_of(m) == IF burst[m].dst = last_dst THEN last_entry
               ELSE find_interface_and_sinks(burst[m].dst)

\* rx_interface_sink_dispatch, one packet of its loop.  burst is never set, so
\* every packet starts a burst of its own, and a multicast packet is filed
\* under the entry of the last unicast packet.
sinks ==
    /\ pc = "sinks"
    /\ IF todo = <<>> THEN pc' = "push" /\ UNCHANGED <<loopVars, listVars>>
       ELSE LET m == Head(todo)
                entry == IF unicast(m) THEN entry_of(m) ELSE last_entry
            IN  /\ todo' = Tail(todo) /\ UNCHANGED pc
                /\ last_entry' = entry
                /\ last_dst' = IF unicast(m) THEN burst[m].dst ELSE last_dst
                /\ IF unicast(m) /\ entry = NoEntry
                   THEN to_free' = Append(to_free, m) /\ UNCHANGED <<to_stack, tag, bursts>>
                   ELSE /\ to_stack' = Append(to_stack, m)
                        /\ tag' = [tag EXCEPT ![m] = IF unicast(m) THEN entry.ifp ELSE None]
                        /\ bursts' = Append(bursts, [start |-> Len(to_stack) + 1, count |-> 1,
                                                     entry |-> entry])
                        /\ UNCHANGED to_free
    /\ UNCHANGED <<tableVars, burst, tags_trusted, outVars, histVars>>

\* Mutation: filtered packets are not freed.
partition_leaks ==
    /\ to_stack' = Only(to_stack, ForStack)
    /\ UNCHANGED to_free

\* std::partition_copy of rx_interface_dispatch.
partition ==
    /\ to_stack' = Only(to_stack, ForStack)
    /\ to_free' = to_free \o Only(to_stack, NotForStack)

\* The sinks that a burst goes to: those of the entry, or without an entry
\* those of all interfaces in the table now.
receivers(entry) ==
    IF entry = NoEntry THEN rx_sinks \ inactive
    ELSE {i \in {entry.ifp} : entry.sink} \ inactive

\* One burst is pushed to its sinks; after the last one the packets that are
\* not for the stack are sorted out.
push ==
    /\ pc = "push"
    /\ IF bursts = <<>>
       THEN pc' = "gro" /\ partition /\ UNCHANGED <<bursts, got>>
       ELSE LET b == Head(bursts)
            IN  /\ got' = [s \in Sinks |->
                              IF s \in receivers(b.entry)
                              THEN got[s] \o SubSeq(to_stack, b.start, b.start + b.count - 1)
                              ELSE got[s]]
                /\ bursts' = Tail(bursts)
                /\ UNCHANGED <<pc, to_stack, to_free>>
    /\ UNCHANGED <<tableVars, burst, tags_trusted, todo, last_dst, last_entry, tag, stack,
                   released, histVars>>

\* do_software_gro: packets may be chained to another one of the same TCP flow,
\* and TCP packets move to the front.  Then rx_stack_dispatch separates the
\* packets with a tag from the others.
gro(merged, tcp) ==
    /\ pc = "gro" /\ pc' = "stack"
    /\ \A m \in merged : \E h \in tcp : burst[h].dst = burst[m].dst
    /\ tcp # {} => Cardinality(tcp \cup merged) > 1
    /\ LET order  == Only(to_stack, tcp)
                     \o Only(to_stack, DOMAIN burst \ (tcp \cup merged))
           tagged == {m \in DOMAIN burst : tag[m] # None}
       IN  todo' = Only(order, tagged) \o Only(order, DOMAIN burst \ tagged)
    /\ released' = released \o SetToSeq(merged)
    /\ UNCHANGED <<tableVars, burst, tags_trusted, last_dst, last_entry, bursts, listVars,
                   got, stack, histVars>>

\* rx_stack_dispatch, one packet: to the interface of its tag, which takes it or
\* has it freed; or clones of it, as far as there are mbufs for them, to all
\* interfaces, and it is freed.
stack_dispatch ==
    /\ pc = "stack" /\ todo # <<>>
    /\ LET m == Head(todo)
       IN  /\ todo' = Tail(todo)
           /\ tag' = [tag EXCEPT ![m] = None]
           /\ released' = Append(released, m)
           /\ \E to \in IF tag[m] # None THEN {{tag[m]}} ELSE SUBSET m_interfaces :
                 /\ stack' = [i \in Ifs |-> IF i \in to THEN Append(stack[i], m) ELSE stack[i]]
                 /\ touched' = IF tag[m] # None THEN touched ELSE touched \cup (m_interfaces \ to)
    /\ UNCHANGED <<tableVars, pc, burst, tags_trusted, last_dst, last_entry, bursts, to_stack,
                   to_free, got, changes>>

\* The packets that are not for the stack are freed.
free ==
    /\ pc = "stack" /\ todo = <<>> /\ pc' = "done"
    /\ released' = released \o to_free
    /\ UNCHANGED <<tableVars, burst, tags_trusted, loopVars, listVars, got, stack, histVars>>

\* rx_burst returns and forgets the packets.
rx_burst_return ==
    /\ pc = "done" /\ pc' = "idle"
    /\ burst' = <<>> /\ tag' = <<>> /\ tags_trusted' = FALSE
    /\ todo' = <<>> /\ last_dst' = None /\ last_entry' = NoEntry /\ bursts' = <<>>
    /\ to_stack' = <<>> /\ to_free' = <<>>
    /\ got' = [s \in Sinks |-> <<>>] /\ stack' = [i \in Ifs |-> <<>>] /\ released' = <<>>
    /\ touched' = {} /\ changes' = 0
    /\ UNCHANGED tableVars

worker ==
    \/ \E n \in 1..BurstSize : \E packets \in [1..n -> Kinds] : rx_burst(packets)
    \/ rx_sink_dispatch \/ \E flag \in BOOLEAN : check_interfaces(flag)
    \/ check_sinks \/ resolve \/ sinks \/ push
    \/ \E tcp \in SUBSET ToSet(to_stack) :
          \E merged \in SUBSET (ToSet(to_stack) \ tcp) : gro(merged, tcp)
    \/ stack_dispatch \/ free \/ rx_burst_return

Next == server \/ worker

Spec == Init /\ [][Next]_vars

-----------------------------------------------------------------------------
(* Properties.                                                             *)

\* Every variable has its type.
TypeOK ==
    /\ rx_sinks \subseteq m_interfaces /\ m_interfaces \subseteq Ifs
    /\ sink_count \in 0..MaxCount /\ inactive \subseteq Sinks
    /\ update \in Ifs \cup {None}
    /\ pc \in {"idle", "port", "interfaces", "count", "resolve", "sinks", "push",
               "gro", "stack", "done"}
    /\ \A m \in DOMAIN burst : burst[m] \in Kinds /\ tag[m] \in Ifs \cup {None}
    /\ \A l \in {todo, to_stack, to_free} : ToSet(l) \subseteq DOMAIN burst
    /\ DOMAIN got = Sinks /\ DOMAIN stack = Ifs

Done == pc = "done"
addressed(d) == {m \in DOMAIN burst : burst[m].dst = d}

\* No mbuf leaks and none is freed twice: at the end of rx_burst each packet of
\* the burst was given to the stack or freed exactly once, whatever became of
\* the table meanwhile.
ReleasedOnce ==
    /\ \A j, k \in DOMAIN released : j # k => released[j] # released[k]
    /\ Done => ToSet(released) = DOMAIN burst

\* Interface sinks see their own packets (and multicast packets) only, in the
\* order of their arrival and once.
SinkOrder ==
    /\ \A s \in Sinks : \A j, k \in DOMAIN got[s] : j < k => got[s][j] < got[s][k]
    /\ \A i \in Ifs : ToSet(got[i]) \subseteq addressed(i) \cup addressed(Multicast)

\* A working sink that was there all the time gets all unicast packets of its
\* interface, and the port's sink gets every packet.
SinkComplete ==
    Done => /\ \A i \in rx_sinks \ (inactive \cup touched) : addressed(i) \subseteq ToSet(got[i])
            /\ port_sink /\ Port \notin inactive \cup touched => got[Port] = all

\* The stack of an interface gets no foreign and no signature packet, and all
\* packets meant for an interface that was there all the time (for multicast
\* packets, if there was an mbuf for the clone); those that GRO chained to another
\* packet of the interface travel with that one.
StackComplete ==
    /\ \A i \in Ifs : \A m \in ToSet(stack[i]) :
          m \in addressed(i) \cup addressed(Multicast) /\ for_stack(m)
    /\ Done => \A i \in m_interfaces \ touched :
          /\ \A m \in addressed(i) : for_stack(m) =>
                m \in ToSet(stack[i]) \/ \E h \in addressed(i) \ {m} : h \in ToSet(stack[i])
          /\ \A m \in addressed(Multicast) : for_stack(m) =>
                m \in ToSet(stack[i]) \/ \E h \in addressed(Multicast) \ {m} : h \in ToSet(stack[i])

\* has_interface_rx_sinks() errs on one side only: if it finds no sinks there
\* are none, but for the one whose removal is under way.
CountCovers == sink_count = 0 => rx_sinks \subseteq {update}

\* Multicast packets "will be delivered to all sinks on the port".
MulticastComplete ==
    Done => \A i \in rx_sinks \ (inactive \cup touched) :
        addressed(Multicast) \subseteq ToSet(got[i])

\* mbuf_tag_set: assert(!mbuf_signature_is_set(mbuf)).  Tag and signature share
\* their place in the mbuf, so the sinks would read a pointer as a signature.
TagKeepsSignature == \A m \in DOMAIN burst : tag[m] # None => ~burst[m].sig
=============================================================================
