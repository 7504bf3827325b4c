----------------------------- MODULE FlowFilter ------------------------------
(***************************************************************************)
(* packetio/drivers/dpdk/port/flow_filter.cpp: the filter of a port whose  *)
(* device takes flow rules and drops what no rule matches.  One rule per   *)
(* interface address, and a promiscuous rule when the addresses do not fit *)
(* or when packet sinks want all traffic.  The rules mark the packets for  *)
(* the stack; worker.cpp trusts the marks while the receive queues have    *)
(* their hardware_tags flag.                                               *)
(*                                                                         *)
(* The device is external; its rules for broadcast and multicast, which    *)
(* are always there, are not counted.                                      *)
(***************************************************************************)
EXTENDS Naturals, FiniteSets, Sequences, Subsequences

CONSTANTS
    Macs,           \* MAC addresses of interfaces
    MaxRules,       \* rules the device has room for
    MaxOverflows,   \* bound on the length of m_overflows
    DeviceFails     \* TRUE: the device may refuse a request it could satisfy

FlowFilterAssumption ==
    /\ IsFiniteSet(Macs) /\ MaxRules \in Nat \ {0} /\ MaxOverflows \in Nat
    /\ DeviceFails \in BOOLEAN

VARIABLES
    m_state,        \* "ok", "overflow", "disabled" or "error"
    m_flows,        \* addresses with a rule
    promiscuous,    \* the promiscuous rule is in the device
    lost,           \* number of rules in the device that m_flows does not hold
    m_overflows,    \* addresses without a rule, a sequence
    hardware_tags,  \* the flag of the port's receive queues
    macs,           \* addresses of the port's interfaces in the forwarding table
    sinks           \* the port has receive sinks: the filter was last disabled

vars == <<m_state, m_flows, promiscuous, lost, m_overflows, hardware_tags, macs, sinks>>

\* maybe_enable_rxq_tag_detection is called for flow filters at the start.
Init ==
    /\ m_state = "ok" /\ m_flows = {} /\ promiscuous = FALSE /\ lost = 0
    /\ m_overflows = <<>> /\ hardware_tags = TRUE
    /\ macs = {} /\ sinks = FALSE

-----------------------------------------------------------------------------
(* The device.                                                             *)

rules == Cardinality(m_flows) + lost + IF promiscuous THEN 1 ELSE 0

\* rte_flow_create can succeed, can fail, when used rules are there.
creates(used) == used < MaxRules
refuses(used) == used >= MaxRules \/ DeviceFails

-----------------------------------------------------------------------------
(* The filter's on_event functions, one for each event and state.          *)

\* m_flows.emplace: the rule of an address that m_flows has already is lost.
emplace(flows, mac) == m_flows' = flows \cup {mac}
duplicate(flows, mac) == IF mac \in flows THEN 1 ELSE 0

\* Mutation: the overflow is not reported to the receive queues.
add_ok_tagged(mac) ==
    /\ m_state = "ok"
    /\ \/ /\ creates(rules) /\ refuses(rules + 1)
          /\ promiscuous' = TRUE /\ m_overflows' = Append(m_overflows, mac)
          /\ m_state' = "overflow"
          /\ UNCHANGED <<m_flows, lost, hardware_tags>>
       \/ /\ creates(rules + 1)
          /\ emplace(m_flows, mac) /\ lost' = lost + duplicate(m_flows, mac)
          /\ UNCHANGED <<m_state, promiscuous, m_overflows, hardware_tags>>

\* The promiscuous rule is added first, then filter_full tries a dummy rule.
\* If that fails the address overflows.  Else the dummy rule goes (leak = 1: it
\* does not, which filter_full ignores), the address gets its rule and the
\* promiscuous rule goes.
add_ok(mac) ==
    /\ m_state = "ok"
    /\ \/ /\ refuses(rules) /\ m_state' = "error"
          /\ UNCHANGED <<m_flows, promiscuous, lost, m_overflows, hardware_tags>>
       \/ /\ creates(rules) /\ refuses(rules + 1)
          /\ promiscuous' = TRUE /\ m_overflows' = Append(m_overflows, mac)
          /\ hardware_tags' = FALSE /\ m_state' = "overflow"
          /\ UNCHANGED <<m_flows, lost>>
       \/ \E leak \in IF DeviceFails THEN {0, 1} ELSE {0} :
            /\ creates(rules + 1)
            /\ \/ /\ refuses(rules + 1 + leak) /\ lost' = lost + leak
                  /\ promiscuous' = TRUE /\ m_state' = "error"
                  /\ UNCHANGED m_flows
               \/ /\ creates(rules + 1 + leak)
                  /\ emplace(m_flows, mac) /\ lost' = lost + leak + duplicate(m_flows, mac)
                  /\ \/ UNCHANGED <<m_state, promiscuous>>
                     \/ DeviceFails /\ promiscuous' = TRUE /\ m_state' = "error"
            /\ UNCHANGED <<m_overflows, hardware_tags>>

add_overflow(mac) ==
    /\ m_state = "overflow"
    /\ m_overflows' = Append(m_overflows, mac)
    /\ UNCHANGED <<m_state, m_flows, promiscuous, lost, hardware_tags>>

add_disabled(mac) ==
    /\ m_state = "disabled"
    /\ \/ /\ refuses(rules)
          /\ m_overflows' = Append(m_overflows, mac)
          /\ hardware_tags' = IF m_overflows = <<>> THEN FALSE ELSE hardware_tags
          /\ UNCHANGED <<m_state, m_flows, promiscuous, lost>>
       \/ /\ creates(rules)
          /\ emplace(m_flows, mac) /\ lost' = lost + duplicate(m_flows, mac)
          /\ UNCHANGED <<m_state, promiscuous, m_overflows, hardware_tags>>

\* delete_flow may fail.
delete_error == /\ DeviceFails /\ m_state' = "error"
                /\ UNCHANGED <<m_flows, promiscuous, lost, m_overflows, hardware_tags>>

del_ok(mac) ==
    /\ m_state = "ok"
    /\ \/ mac \in m_flows /\ delete_error
       \/ /\ m_flows' = m_flows \ {mac}
          /\ UNCHANGED <<m_state, promiscuous, lost, m_overflows, hardware_tags>>

\* The first overflowed address gets a rule, unless the device refuses it.
maybe_move_overflow_to_filter(flows) ==
    \/ /\ m_overflows = <<>> \/ DeviceFails
       /\ m_flows' = flows /\ UNCHANGED <<m_overflows, lost>>
    \/ /\ m_overflows # <<>>
       /\ emplace(flows, Head(m_overflows))
       /\ lost' = lost + duplicate(flows, Head(m_overflows))
       /\ m_overflows' = Tail(m_overflows)

\* The rule of the address goes and makes room for an overflowed address; an
\* address without a rule leaves the overflow.
remove(mac) ==
    IF mac \in m_flows THEN maybe_move_overflow_to_filter(m_flows \ {mac})
    ELSE /\ m_overflows' = Only(m_overflows, Macs \ {mac})
         /\ UNCHANGED <<m_flows, lost>>

del_overflow(mac) ==
    /\ m_state = "overflow"
    /\ \/ mac \in m_flows /\ delete_error
       \/ /\ remove(mac)
          /\ \/ /\ m_overflows' = <<>> /\ promiscuous' = FALSE
                /\ hardware_tags' = TRUE /\ m_state' = "ok"
             \/ /\ m_overflows' = <<>> /\ DeviceFails /\ m_state' = "error"
                /\ UNCHANGED <<promiscuous, hardware_tags>>
             \/ /\ m_overflows' # <<>>
                /\ UNCHANGED <<m_state, promiscuous, hardware_tags>>

del_disabled(mac) ==
    /\ m_state = "disabled"
    /\ \/ mac \in m_flows /\ delete_error
       \/ /\ remove(mac)
          /\ hardware_tags' = IF m_overflows' = <<>> THEN TRUE ELSE hardware_tags
          /\ UNCHANGED <<m_state, promiscuous>>

disable_ok ==
    /\ m_state = "ok"
    /\ \/ refuses(rules) /\ m_state' = "error" /\ UNCHANGED promiscuous
       \/ creates(rules) /\ m_state' = "disabled" /\ promiscuous' = TRUE
    /\ UNCHANGED <<m_flows, lost, m_overflows, hardware_tags>>

\* The promiscuous rule goes, also when addresses have overflowed.
enable_disabled ==
    /\ m_state = "disabled"
    /\ \/ m_state' = "ok" /\ promiscuous' = FALSE
       \/ DeviceFails /\ m_state' = "error" /\ UNCHANGED promiscuous
    /\ UNCHANGED <<m_flows, lost, m_overflows, hardware_tags>>

\* The default on_event of filter.hpp, for all other events and states.
ignored(handled) == /\ m_state \notin handled
                    /\ UNCHANGED <<m_state, m_flows, promiscuous, lost, m_overflows, hardware_tags>>

-----------------------------------------------------------------------------
(* worker_controller.cpp.                                                  *)

add_interface(mac) ==
    /\ Len(m_overflows) < MaxOverflows
    /\ mac \notin macs /\ macs' = macs \cup {mac} /\ UNCHANGED sinks
    /\ \/ add_ok(mac) \/ add_overflow(mac) \/ add_disabled(mac)
       \/ ignored({"ok", "overflow", "disabled"})

del_interface(mac) ==
    /\ mac \in macs /\ macs' = macs \ {mac} /\ UNCHANGED sinks
    /\ \/ del_ok(mac) \/ del_overflow(mac) \/ del_disabled(mac)
       \/ ignored({"ok", "overflow", "disabled"})

\* m_sink_features.update() when the port has sinks, and when it has none.
disable == sinks' = TRUE /\ UNCHANGED macs /\ (disable_ok \/ ignored({"ok"}))
enable  == sinks' = FALSE /\ UNCHANGED macs /\ (enable_disabled \/ ignored({"disabled"}))

Next == \/ \E mac \in Macs : add_interface(mac) \/ del_interface(mac)
        \/ disable \/ enable

Spec == Init /\ [][Next]_vars

-----------------------------------------------------------------------------
(* Properties.                                                             *)

\* Every variable has its type, and the device holds no more rules than it can.
TypeOK ==
    /\ m_state \in {"ok", "overflow", "disabled", "error"}
    /\ m_flows \subseteq Macs /\ macs \subseteq Macs /\ lost \in Nat
    /\ m_overflows \in Seq(Macs) /\ Len(m_overflows) <= MaxOverflows
    /\ promiscuous \in BOOLEAN /\ hardware_tags \in BOOLEAN /\ sinks \in BOOLEAN
    /\ rules <= MaxRules

\* An ok filter always has room for the promiscuous rule, which it will need
\* when an address does not fit or when sinks come (add_ok, disable_ok).
RoomReserved == m_state = "ok" => rules < MaxRules

\* While the receive queues trust the marks (hardware_tags), every interface
\* has a rule that marks its packets; worker.cpp drops unmarked packets.
TagsCover == hardware_tags /\ m_state # "error" => macs \subseteq m_flows

\* An ok filter lets in the packets of every interface.
OkAdmits == m_state = "ok" => macs \subseteq m_flows
=============================================================================
