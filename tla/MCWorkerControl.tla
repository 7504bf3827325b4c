--------------------------- MODULE MCWorkerControl ---------------------------
(* WorkerControl for TLC: names for two workers.                           *)
EXTENDS WorkerControl

CONSTANTS w1, w2
=============================================================================
