------------------------------ MODULE MCStream ------------------------------
(* Instances of StreamRegistry for TLC. *)
EXTENDS StreamRegistry

CONSTANTS k1, p1, p2, v1

OneKey == [a \in Publishers \cup Viewers |-> k1]
=============================================================================
