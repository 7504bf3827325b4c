---------------------------- MODULE MCRxDispatch -----------------------------
(* Two interfaces; packets to both, which need not exist, and to all, one   *)
(* with a signature and one without the device's mark.                      *)
EXTENDS RxDispatch, TLC

CONSTANTS i1, i2

MCIfs == {i1, i2}

plain(d) == [dst |-> d, sig |-> FALSE, mark |-> TRUE]

MCKinds == {plain(i1), plain(Multicast),
            [dst |-> i1, sig |-> TRUE, mark |-> TRUE],
            [dst |-> i2, sig |-> FALSE, mark |-> FALSE]}
=============================================================================
