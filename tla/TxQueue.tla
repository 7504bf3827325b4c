------------------------------ MODULE TxQueue -------------------------------
(***************************************************************************)
(* packetio/workers/dpdk/tx_queue.cpp: the ring on which the stack thread  *)
(* hands packets to the worker that owns a port queue, and the eventfd     *)
(* that wakes the worker.  The consumer side is the tx_queue event of      *)
(* run_pollable and run_spinning in worker.cpp.  Packets are counted, not  *)
(* named: the ring is a single producer, single consumer fifo.             *)
(*                                                                         *)
(* write_idx and read_idx are uint64_t counters; they are kept modulo      *)
(* IndexMod, which preserves their difference as the code computes it.     *)
(* The eventfd is registered edge triggered (pollable_event::add): every   *)
(* write raises edge, and poll reports the fd if it is also readable.      *)
(***************************************************************************)
EXTENDS Integers

CONSTANTS
    RingSize,       \* tx_queue_size - 1 usable slots
    BurstSize,      \* pkt_burst_size
    EventFdMax,     \* an eventfd_write that would exceed this fails
    IndexMod        \* 2^64 in the code

ASSUME TxQueueAssumption ==
    /\ RingSize \in Nat \ {0}
    /\ BurstSize \in Nat \ {0}
    /\ EventFdMax \in Nat /\ EventFdMax >= 2
    /\ IndexMod \in Nat /\ IndexMod > 4

VARIABLES
    ring,       \* packets in the ring
    write_idx,  \* notifications ever announced
    read_idx,   \* notifications ever acknowledged
    counter,    \* the eventfd counter
    edge,       \* the eventfd was written since epoll last reported it
    ppc,        \* producer: where enqueue is
    pw,         \* producer: write_idx as loaded by notifications()
    burst,      \* producer: packets this call of enqueue will add
    cpc,        \* consumer: where the worker is
    cw,         \* consumer: write_idx as loaded by notifications()
    got         \* consumer: what eventfd_read returned

producerVars == <<ppc, pw, burst>>
consumerVars == <<cpc, cw, got>>
vars == <<ring, write_idx, read_idx, counter, edge, producerVars, consumerVars>>

plus(a, n) == IF a + n >= IndexMod THEN a + n - IndexMod ELSE a + n
minus(a, b) == IF a >= b THEN a - b ELSE a - b + IndexMod

smaller(a, b) == IF a < b THEN a ELSE b

Init ==
    /\ ring = 0 /\ write_idx = 0 /\ read_idx = 0
    /\ counter = 0 /\ edge = FALSE
    /\ ppc = "idle" /\ pw = 0 /\ burst = 0
    /\ cpc = "poll" /\ cw = 0 /\ got = 0

-----------------------------------------------------------------------------
(* Producer: enqueue() = notify(), then rte_ring_enqueue_burst().          *)

enqueue(n) ==
    /\ ppc = "idle"
    /\ burst' = n
    /\ pw' = write_idx            \* notifications(): first load
    /\ ppc' = "check"
    /\ UNCHANGED <<ring, write_idx, read_idx, counter, edge, consumerVars>>

\* notifications(): second load, and the test of notify().
notify_check ==
    /\ ppc = "check"
    /\ ppc' = IF minus(pw, read_idx) = 0 THEN "announce" ELSE "insert"
    /\ pw' = 0
    /\ UNCHANGED <<ring, write_idx, read_idx, counter, edge, burst, consumerVars>>

notify_announce ==
    /\ ppc = "announce"
    /\ write_idx' = plus(write_idx, 1)
    /\ ppc' = "signal"
    /\ UNCHANGED <<ring, read_idx, counter, edge, pw, burst, consumerVars>>

\* eventfd_write; the announcement is taken back if it fails.
notify_signal ==
    /\ ppc = "signal"
    /\ IF counter < EventFdMax
       THEN /\ counter' = counter + 1 /\ edge' = TRUE
            /\ UNCHANGED write_idx
       ELSE /\ write_idx' = minus(write_idx, 1)
            /\ UNCHANGED <<counter, edge>>
    /\ ppc' = "insert"
    /\ UNCHANGED <<ring, read_idx, pw, burst, consumerVars>>

\* rte_ring_enqueue_burst: as many packets as there is room for.
enqueue_burst ==
    /\ ppc = "insert"
    /\ ring' = smaller(ring + burst, RingSize)
    /\ burst' = 0
    /\ ppc' = "idle"
    /\ UNCHANGED <<write_idx, read_idx, counter, edge, pw, consumerVars>>

-----------------------------------------------------------------------------
(* Consumer: the worker's event loop.                                      *)

\* Mutation: the worker waits for a ring fuller than it can get (off by one).
poll_full_only ==
    /\ cpc = "poll"
    /\ edge
    /\ edge' = FALSE
    /\ cpc' = IF counter = 0 THEN "poll"
              ELSE IF ring = RingSize + 1 THEN "burst" ELSE "ack"
    /\ UNCHANGED <<ring, write_idx, read_idx, counter, producerVars, cw, got>>

\* epoll_poller::poll reports the queue.
poll ==
    /\ cpc = "poll"
    /\ edge
    /\ edge' = FALSE
    /\ cpc' = IF counter > 0 THEN "burst" ELSE "poll"
    /\ UNCHANGED <<ring, write_idx, read_idx, counter, producerVars, cw, got>>

\* Mutation: adding a readable fd to the poller reports nothing.
restart_silent ==
    /\ cpc = "poll"
    /\ edge' = FALSE
    /\ UNCHANGED <<ring, write_idx, read_idx, counter, producerVars, consumerVars>>

\* A control message makes the worker leave its run function and enter it
\* again: poller.del and poller.add, which reports a readable fd at once.
restart ==
    /\ cpc = "poll"
    /\ edge' = (counter > 0)
    /\ UNCHANGED <<ring, write_idx, read_idx, counter, producerVars, consumerVars>>

\* tx_burst: run_pollable repeats it while it reports full bursts (it reports
\* 0 if rte_eth_tx_prepare refuses); run_spinning does one per event.
tx_burst(repeat) ==
    /\ cpc = "burst"
    /\ ring' = ring - smaller(ring, BurstSize)
    /\ cpc' = IF repeat /\ ring >= BurstSize THEN "burst" ELSE "ack"
    /\ UNCHANGED <<write_idx, read_idx, counter, edge, producerVars, cw, got>>

\* enable(): ack() loads write_idx; read_idx changes in this thread only.
ack_check ==
    /\ cpc = "ack"
    /\ cpc' = IF minus(write_idx, read_idx) # 0 THEN "read" ELSE "empty"
    /\ UNCHANGED <<ring, write_idx, read_idx, counter, edge, producerVars, cw, got>>

\* eventfd_read returns and clears the counter, or fails if it is zero.
ack_read ==
    /\ cpc = "read"
    /\ got' = counter
    /\ counter' = 0
    /\ cpc' = IF counter = 0 THEN "empty" ELSE "add"
    /\ UNCHANGED <<ring, write_idx, read_idx, edge, producerVars, cw>>

\* Mutation: one eventfd_read counts as one notification.
ack_add_one ==
    /\ cpc = "add"
    /\ read_idx' = plus(read_idx, 1)
    /\ got' = 0
    /\ cpc' = "empty"
    /\ UNCHANGED <<ring, write_idx, counter, edge, producerVars, cw>>

ack_add ==
    /\ cpc = "add"
    /\ read_idx' = plus(read_idx, got)
    /\ got' = 0
    /\ cpc' = "empty"
    /\ UNCHANGED <<ring, write_idx, counter, edge, producerVars, cw>>

\* enable(): rte_ring_empty() || notify()
enable_empty ==
    /\ cpc = "empty"
    /\ cpc' = IF ring = 0 THEN "poll" ELSE "check"
    /\ cw' = IF ring = 0 THEN 0 ELSE write_idx
    /\ UNCHANGED <<ring, write_idx, read_idx, counter, edge, producerVars, got>>

enable_check ==
    /\ cpc = "check"
    /\ cpc' = IF minus(cw, read_idx) = 0 THEN "announce" ELSE "poll"
    /\ cw' = 0
    /\ UNCHANGED <<ring, write_idx, read_idx, counter, edge, producerVars, got>>

enable_announce ==
    /\ cpc = "announce"
    /\ write_idx' = plus(write_idx, 1)
    /\ cpc' = "signal"
    /\ UNCHANGED <<ring, read_idx, counter, edge, producerVars, cw, got>>

enable_signal ==
    /\ cpc = "signal"
    /\ IF counter < EventFdMax
       THEN /\ counter' = counter + 1 /\ edge' = TRUE
            /\ UNCHANGED write_idx
       ELSE /\ write_idx' = minus(write_idx, 1)
            /\ UNCHANGED <<counter, edge>>
    /\ cpc' = "poll"
    /\ UNCHANGED <<ring, read_idx, producerVars, cw, got>>

-----------------------------------------------------------------------------
producer_step == notify_check \/ notify_announce \/ notify_signal \/ enqueue_burst

consumer_step ==
    \/ poll \/ \E repeat \in BOOLEAN : tx_burst(repeat)
    \/ ack_check \/ ack_read \/ ack_add
    \/ enable_empty \/ enable_check \/ enable_announce \/ enable_signal

Next == \/ \E n \in 1..BurstSize : enqueue(n)
        \/ producer_step
        \/ consumer_step
        \/ restart

Spec == Init /\ [][Next]_vars

\* Both threads run; nobody promises that the stack has another packet.
FairSpec == Spec /\ WF_vars(producer_step) /\ WF_vars(consumer_step)

-----------------------------------------------------------------------------
(* Properties.                                                             *)

notifications == minus(write_idx, read_idx)

\* Every variable has its type.
TypeOK ==
    /\ ring \in 0..RingSize
    /\ write_idx \in 0..IndexMod - 1 /\ read_idx \in 0..IndexMod - 1
    /\ counter \in 0..EventFdMax /\ edge \in BOOLEAN
    /\ ppc \in {"idle", "check", "announce", "signal", "insert"}
    /\ pw \in 0..IndexMod - 1 /\ burst \in 0..BurstSize
    /\ cpc \in {"poll", "burst", "ack", "read", "add", "empty", "check",
                "announce", "signal"}
    /\ cw \in 0..IndexMod - 1 /\ got \in 0..EventFdMax

\* The two indexes and the eventfd never drift apart, whichever thread notifies
\* and however notify() and ack() interleave: every announced notification is
\* in the eventfd, about to be written, or read and about to be acknowledged.
NotificationBalance ==
    notifications = counter + got
                    + (IF ppc = "signal" THEN 1 ELSE 0)
                    + (IF cpc = "signal" THEN 1 ELSE 0)

\* notify() tests before it announces and the test is not atomic, so both
\* threads may notify for the same packets; there are never more than two
\* notifications outstanding, and eventfd_write cannot fail.
BoundedNotifications == notifications <= 2

\* The queue cannot die: when neither thread is busy and no event is pending,
\* nothing is left unacknowledged, so the next enqueue() signals again.
NoDeadQueue ==
    ppc = "idle" /\ cpc = "poll" /\ ~edge => notifications = 0

\* As long as the stack keeps sending, packets do not stay in the ring: the
\* worker comes back to it.
RingServed ==
    []<>(ppc = "check") => [](ring > 0 => <>(cpc = "burst"))

\* What enable() says it ensures, "if the ring isn't empty, create a new
\* notification": no packet is left in the ring without an event to fetch it.
NoStrandedPackets ==
    ppc = "idle" /\ cpc = "poll" /\ ring > 0 => edge
=============================================================================
