------------------------------ MODULE MCCapture ------------------------------
(* Captures alone, with one configuration at a time.                        *)
EXTENDS Capture

CONSTANT w

\* A capture that ends after a while, one that waits for a packet, a plain one.
Timed     == {[duration |-> TRUE, start_trigger |-> FALSE, packet_count |-> 0]}
Triggered == {[duration |-> FALSE, start_trigger |-> TRUE, packet_count |-> 0]}
Plain     == {[duration |-> FALSE, start_trigger |-> FALSE, packet_count |-> 0]}
=============================================================================
