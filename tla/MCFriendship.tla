----------------------------- MODULE MCFriendship -----------------------------
(* Instances of Friendship for TLC. *)
EXTENDS Friendship, TLC

\* Handlers are alike.
Alike == Permutations(Handlers)
=============================================================================
