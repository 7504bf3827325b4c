------------------------------ MODULE MCRecycle ------------------------------
(***************************************************************************)
(* Instances of Recycle for TLC: r1 spins, r2 polls and drains its receive *)
(* queues, and its stores may be delayed.  Two readers suffice for a scan  *)
(* that is interrupted between readers; two exchanges let a reader hold an *)
(* old and a new table at once.                                            *)
(***************************************************************************)
EXTENDS Recycle

CONSTANTS r1, r2

TwoReaders   == {r1, r2}
OneSpinning  == {r1}
OneDraining  == {r2}
OneBuffering == {r2}
NoReaders    == {}
=============================================================================
