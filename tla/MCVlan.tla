------------------------------- MODULE MCVlan -------------------------------
(* Instances of VlanLifecycle for TLC. *)
EXTENDS VlanLifecycle, TLC

CONSTANTS r1, r2, u1, u2, k1, k2, k3

\* u1 changes its key, u2 keeps it.
Holder == k1 :> u1 @@ k2 :> u1 @@ k3 :> u2

HeldByU1 == k1 :> u1
=============================================================================
