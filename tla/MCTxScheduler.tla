--------------------------- MODULE MCTxScheduler ----------------------------
(* Two sources, one twice as fast as the other, for TLC.                   *)
EXTENDS TxScheduler, TLC

CONSTANTS s1, s2

MCSources == {s1, s2}
MCPeriod  == (s1 :> 1) @@ (s2 :> 2)
=============================================================================
