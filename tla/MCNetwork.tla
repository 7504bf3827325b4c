----------------------------- MODULE MCNetwork ------------------------------
(* A network task whose connections do not fail, given fewer connections than *)
(* it has.                                                                    *)
EXTENDS NetworkTask

config_of(connections, ops) ==
    [operation |-> "READ", connections |-> connections, ops_per_connection |-> ops]

Shrinking     == {config_of(2, 1), config_of(1, 2)}
OneConnection == {config_of(1, 2)}

\* The worker spins for ever.
SpinSpec == Spec /\ Spins
=============================================================================
