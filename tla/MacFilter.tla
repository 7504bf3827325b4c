------------------------------ MODULE MacFilter ------------------------------
(***************************************************************************)
(* packetio/drivers/dpdk/port/mac_filter.cpp: the filter of a port that    *)
(* lets in the MAC addresses of its interfaces, as worker_controller.cpp   *)
(* uses it.  A device has room for a few addresses; when they do not fit,  *)
(* or when packet sinks want all traffic, the port is made promiscuous.    *)
(*                                                                         *)
(* The device is external.  The vectors of addresses are sets here: none   *)
(* of them ever gets an address it has already, and which overflowed       *)
(* address moves into the device first makes no difference below.          *)
(***************************************************************************)
EXTENDS Naturals, FiniteSets

CONSTANTS
    Macs,           \* MAC addresses of interfaces
    MaxMacs,        \* get_max_mac_addresses
    DeviceFails     \* TRUE: the device may refuse a request it could satisfy

ASSUME MacFilterAssumption ==
    /\ IsFiniteSet(Macs) /\ MaxMacs \in Nat /\ DeviceFails \in BOOLEAN

VARIABLES
    m_state,        \* "ok", "overflow", "disabled" or "error"
    m_filtered,     \* addresses the filter knows to be in the device
    m_overflowed,   \* addresses without room
    device,         \* addresses in the device
    promiscuous,    \* the device's promiscuous mode
    macs,           \* addresses of the port's interfaces in the forwarding table
    sinks           \* the port has receive sinks: the filter was last disabled

vars == <<m_state, m_filtered, m_overflowed, device, promiscuous, macs, sinks>>

Init ==
    /\ m_state = "ok" /\ m_filtered = {} /\ m_overflowed = {}
    /\ device = {} /\ promiscuous = FALSE
    /\ macs = {} /\ sinks = FALSE

-----------------------------------------------------------------------------
(* The device.                                                             *)

room == Cardinality(device) < MaxMacs

\* rte_eth_dev_mac_addr_add can succeed, can fail.
accepts(mac) == mac \in device \/ room
refuses(mac) == mac \notin device /\ (~room \/ DeviceFails)

-----------------------------------------------------------------------------
(* The filter's on_event functions, one for each event and state.          *)

\* on_error for an addition: promiscuous mode stands in for the filter.
add_error == m_state' = "error" /\ promiscuous' = TRUE

\* on_error for a removal, which rte_eth_dev_mac_addr_remove refuses.
del_error(mac) == /\ DeviceFails /\ mac \in device /\ m_state' = "error"
                  /\ UNCHANGED <<m_filtered, m_overflowed, device, promiscuous>>

add_ok(mac) ==
    /\ m_state = "ok"
    /\ \/ /\ Cardinality(m_filtered) = MaxMacs
          /\ m_overflowed' = m_overflowed \cup {mac}
          /\ promiscuous' = TRUE /\ m_state' = "overflow"
          /\ UNCHANGED <<m_filtered, device>>
       \/ /\ Cardinality(m_filtered) # MaxMacs /\ refuses(mac)
          /\ add_error
          /\ UNCHANGED <<m_filtered, m_overflowed, device>>
       \/ /\ Cardinality(m_filtered) # MaxMacs /\ accepts(mac)
          /\ device' = device \cup {mac} /\ m_filtered' = m_filtered \cup {mac}
          /\ UNCHANGED <<m_state, m_overflowed, promiscuous>>

add_overflow(mac) ==
    /\ m_state = "overflow"
    /\ m_overflowed' = m_overflowed \cup {mac}
    /\ UNCHANGED <<m_state, m_filtered, device, promiscuous>>

\* An address that fits goes to the device, but not into m_filtered.
add_disabled(mac) ==
    /\ m_state = "disabled"
    /\ \/ /\ Cardinality(m_filtered) < MaxMacs /\ refuses(mac)
          /\ add_error
          /\ UNCHANGED <<m_filtered, m_overflowed, device>>
       \/ /\ Cardinality(m_filtered) < MaxMacs /\ accepts(mac)
          /\ device' = device \cup {mac}
          /\ UNCHANGED <<m_state, m_filtered, m_overflowed, promiscuous>>
       \/ /\ Cardinality(m_filtered) >= MaxMacs
          /\ m_overflowed' = m_overflowed \cup {mac}
          /\ UNCHANGED <<m_state, m_filtered, device, promiscuous>>

del_ok(mac) ==
    /\ m_state = "ok"
    /\ \/ del_error(mac)
       \/ /\ device' = device \ {mac} /\ m_filtered' = m_filtered \ {mac}
          /\ UNCHANGED <<m_state, m_overflowed, promiscuous>>

\* Mutation: an overflowed address is dropped without going to the device.
maybe_delete_mac_drops(mac, next) ==
    LET over == m_overflowed \ {mac}
    IN  /\ m_filtered' = m_filtered \ {mac}
        /\ device' = IF mac \in m_filtered THEN device \ {mac} ELSE device
        /\ \E front \in over \cup {mac} : m_overflowed' = over \ {front}
        /\ next

\* maybe_delete_mac: the address is removed and an overflowed one takes the
\* room.  next says what follows if the device does not fail.
maybe_delete_mac(mac, next) ==
    LET filtered == m_filtered \ {mac}
        left == IF mac \in m_filtered THEN device \ {mac} ELSE device
        over == m_overflowed \ {mac}
        full == Cardinality(left) >= MaxMacs
    IN  IF over = {} \/ Cardinality(filtered) >= MaxMacs
        THEN /\ m_filtered' = filtered /\ m_overflowed' = over /\ device' = left
             /\ next
        ELSE \E front \in over :
               \/ /\ front \notin left /\ (full \/ DeviceFails)
                  /\ m_filtered' = filtered /\ m_overflowed' = over /\ device' = left
                  /\ add_error
               \/ /\ front \in left \/ ~full
                  /\ m_filtered' = filtered \cup {front} /\ m_overflowed' = over \ {front}
                  /\ device' = left \cup {front}
                  /\ next

\* Without overflowed addresses the promiscuous mode ends.
del_overflow(mac) ==
    /\ m_state = "overflow"
    /\ \/ mac \in m_filtered /\ del_error(mac)
       \/ maybe_delete_mac(mac,
            IF m_overflowed' = {} THEN m_state' = "ok" /\ promiscuous' = FALSE
            ELSE UNCHANGED <<m_state, promiscuous>>)

del_disabled(mac) ==
    /\ m_state = "disabled"
    /\ \/ mac \in m_filtered /\ del_error(mac)
       \/ maybe_delete_mac(mac, UNCHANGED <<m_state, promiscuous>>)

disable_ok ==
    /\ m_state = "ok" /\ m_state' = "disabled" /\ promiscuous' = TRUE
    /\ UNCHANGED <<m_filtered, m_overflowed, device>>

\* Mutation: the filter is enabled although it overflows.
enable_disabled_ok ==
    /\ m_state = "disabled" /\ m_state' = "ok" /\ promiscuous' = FALSE
    /\ UNCHANGED <<m_filtered, m_overflowed, device>>

enable_disabled ==
    /\ m_state = "disabled"
    /\ IF m_overflowed # {} THEN m_state' = "overflow" /\ UNCHANGED promiscuous
       ELSE m_state' = "ok" /\ promiscuous' = FALSE
    /\ UNCHANGED <<m_filtered, m_overflowed, device>>

\* The default on_event of filter.hpp, for all other events and states.
ignored(handled) == m_state \notin handled
                    /\ UNCHANGED <<m_state, m_filtered, m_overflowed, device, promiscuous>>

-----------------------------------------------------------------------------
(* worker_controller.cpp.                                                  *)

add_interface(mac) ==
    /\ mac \notin macs /\ macs' = macs \cup {mac} /\ UNCHANGED sinks
    /\ \/ add_ok(mac) \/ add_overflow(mac) \/ add_disabled(mac)
       \/ ignored({"ok", "overflow", "disabled"})

del_interface(mac) ==
    /\ mac \in macs /\ macs' = macs \ {mac} /\ UNCHANGED sinks
    /\ \/ del_ok(mac) \/ del_overflow(mac) \/ del_disabled(mac)
       \/ ignored({"ok", "overflow", "disabled"})

\* m_sink_features.update() when the port has sinks, and when it has none.
disable == sinks' = TRUE /\ UNCHANGED macs /\ (disable_ok \/ ignored({"ok"}))
enable  == sinks' = FALSE /\ UNCHANGED macs /\ (enable_disabled \/ ignored({"disabled"}))

Next == \/ \E mac \in Macs : add_interface(mac) \/ del_interface(mac)
        \/ disable \/ enable

Spec == Init /\ [][Next]_vars

-----------------------------------------------------------------------------
(* Properties.                                                             *)

\* Every variable has its type; what the filter knows to be in the device is
\* there, and the device holds no more than it can.
TypeOK ==
    /\ m_state \in {"ok", "overflow", "disabled", "error"}
    /\ m_filtered \subseteq device /\ device \subseteq Macs
    /\ m_overflowed \subseteq Macs /\ macs \subseteq Macs
    /\ promiscuous \in BOOLEAN /\ sinks \in BOOLEAN
    /\ Cardinality(device) <= MaxMacs

\* Every interface receives its packets: its address is in the device or the
\* port is promiscuous.
Received == \A mac \in macs : promiscuous \/ mac \in device

\* Whatever was added, deleted, disabled and enabled before, each step of a
\* working filter, the one that fails included, leaves every interface of the
\* forwarding table receiving its packets.
Admits == [][m_state # "error" => Received']_vars

\* The states of filter.hpp mean what they say: an ok filter filters and has
\* nothing left over, an overflowing or disabled one has a promiscuous port.
StateMeans == /\ m_state = "ok" => ~promiscuous /\ m_overflowed = {}
              /\ m_state \in {"overflow", "disabled"} => promiscuous
              /\ m_state = "overflow" => m_overflowed # {}

\* While the port has sinks it is promiscuous (need_sink_feature).
SinksSeeAll == sinks => promiscuous

\* A device that does what it is asked and has room for every interface never
\* makes the filter fail.
FitsWithoutError == ~DeviceFails /\ Cardinality(macs) <= MaxMacs => m_state # "error"
=============================================================================
