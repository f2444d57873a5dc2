---------------------------- MODULE ChatDelivery ----------------------------
(***************************************************************************)
(* What sendChat (ws_service.dart) promises its caller: when it succeeds   *)
(* the message has been stored, when it is refused the message never will  *)
(* be, and it is not stored twice.  When it fails for another reason the   *)
(* caller cannot tell.                                                     *)
(***************************************************************************)
EXTENDS Naturals

CONSTANT Calls

VARIABLES
    copies,     \* how often the message of a call has been stored
    result      \* of the call

Init ==
    /\ copies = [c \in Calls |-> 0]
    /\ result = [c \in Calls |-> "none"]

Start(c) ==
    /\ result[c] = "none"
    /\ result' = [result EXCEPT ![c] = "open"]
    /\ UNCHANGED copies

\* A message may still be stored when its call has failed.
Store(c) ==
    /\ result[c] \in {"open", "failed"}
    /\ copies[c] = 0
    /\ copies' = [copies EXCEPT ![c] = 1]
    /\ UNCHANGED result

Succeed(c) ==
    /\ result[c] = "open" /\ copies[c] = 1
    /\ result' = [result EXCEPT ![c] = "ok"]
    /\ UNCHANGED copies

Refuse(c) ==
    /\ result[c] = "open" /\ copies[c] = 0
    /\ result' = [result EXCEPT ![c] = "refused"]
    /\ UNCHANGED copies

Fail(c) ==
    /\ result[c] = "open"
    /\ result' = [result EXCEPT ![c] = "failed"]
    /\ UNCHANGED copies

\* Calls that wait together fail together, when their connection is lost.
FailAll ==
    /\ \E some \in SUBSET {c \in Calls : result[c] = "open"} :
          result' = [c \in Calls |-> IF c \in some THEN "failed" ELSE result[c]]
    /\ UNCHANGED copies

Next ==
    \/ \E c \in Calls : Start(c) \/ Store(c) \/ Succeed(c) \/ Refuse(c) \/ Fail(c)
    \/ FailAll

Spec == Init /\ [][Next]_<<copies, result>>
-----------------------------------------------------------------------------
TypeOK ==
    /\ copies \in [Calls -> {0, 1}]
    /\ result \in [Calls -> {"none", "open", "ok", "refused", "failed"}]

\* What the caller of sendChat may conclude: succeeded is stored once, refused is
\* never stored, and nothing is stored twice (ws_service.dart:340-363).
Promise ==
    \A c \in Calls :
        /\ copies[c] <= 1
        /\ result[c] = "ok" => copies[c] = 1
        /\ result[c] \in {"none", "refused"} => copies[c] = 0
=============================================================================
