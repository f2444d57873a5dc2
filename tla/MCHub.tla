------------------------------- MODULE MCHub -------------------------------
(* Instances of Hub for TLC. *)
EXTENDS Hub, TLC

CONSTANTS u1, u2, c1, c2, c3, r1

\* Two connections of u1 (a reconnect or a second device), one of u2.
TwoAndOne == [c \in {c1, c2, c3} |-> IF c = c3 THEN u2 ELSE u1]

\* One connection of each user.
OneEach == [c \in {c1, c3} |-> IF c = c3 THEN u2 ELSE u1]

\* A single connection.
OnlyC1 == [c \in {c1} |-> u1]

\* Two connections of one user.
OnlyOne == [c \in {c1, c2} |-> u1]

OwnedByU2 == [r \in {r1} |-> u2]
OwnedByU1 == [r \in {r1} |-> u1]

\* The two connections of u1 are interchangeable.
SameUser == Permutations({c1, c2})
=============================================================================
