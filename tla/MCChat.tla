------------------------------- MODULE MCChat -------------------------------
(* Instances of ChatSession. *)
EXTENDS ChatSession, TLC

CONSTANTS a, b

Alike == Permutations(Calls)
=============================================================================
