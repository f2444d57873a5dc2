------------------------------ MODULE Friendship ------------------------------
(***************************************************************************)
(* Friend requests: api/handler/friend.go over repository/friendship.go.   *)
(*                                                                         *)
(* A step is a query: no transaction and no lock joins the queries of a    *)
(* request, so the handlers interleave between them.  A row is found by    *)
(* its primary key (requester, addressee); two users may have a row in     *)
(* either direction.                                                       *)
(***************************************************************************)
EXTENDS Naturals

CONSTANTS
    Users,          \* user ids
    Handlers,       \* requests being served
    MayFail,        \* queries may fail
    None            \* no user

ASSUME FriendAssumption ==
    /\ Users \subseteq Nat
    /\ None \notin Users
    /\ MayFail \in BOOLEAN

VARIABLES
    status,         \* friendships : (requester, addressee) -> status, "none" if there is no row
    req,            \* requests being served
    asked,          \* history: who has asked whom
    agreed,         \* history: whom a user has accepted, as (requester, addressee)
    overtaken,      \* history: handlers to whose rows another has written since they looked
    disturbed       \* history: pairs written by an overtaken handler, or unseen

vars == <<status, req, asked, agreed, overtaken, disturbed>>

Rows   == {k \in Users \X Users : k[1] # k[2]}
Status == {"none", "pending", "accepted", "rejected"}

Flip(k) == <<k[2], k[1]>>
Pair(k) == {k, Flip(k)}

\* A request: of "user" about the row "key", or the row that was found.
Request == [pc : {"idle", "find", "delete", "create", "lookup", "update", "tell"},
            user : Users \cup {None}, key : Rows \cup {<<None, None>>}, answer : Status]
NoRequest == [pc |-> "idle", user |-> None, key |-> <<None, None>>, answer |-> "none"]

\* Variant of Found: only a row in the same direction is found.
FoundOneWay(k) == {r \in {k} : status[r] # "none"}

\* FindByUsers: of the rows in either direction First takes the one with the
\* smaller requester.
Found(k) == {r \in Pair(k) : status[r] # "none"}
First(k) == CHOOSE r \in Found(k) : \A s \in Found(k) : r[1] <= s[1]

-----------------------------------------------------------------------------
Init ==
    /\ status    = [k \in Rows |-> "none"]
    /\ req       = [h \in Handlers |-> NoRequest]
    /\ asked     = {}
    /\ agreed    = {}
    /\ overtaken = {}
    /\ disturbed = {}

End(h) == req' = [req EXCEPT ![h] = NoRequest]

\* A handler looks: what it has seen is up to date.
Looks(h) == overtaken' = overtaken \ {h}

\* The handlers that have looked at a pair and are not done with it.
InFlight(k) == {h \in Handlers : req[h].pc \in {"delete", "create", "update", "tell"} /\ req[h].key \in Pair(k)}

\* A handler writes: the others that are at it are overtaken.
Writes(h, k) ==
    /\ overtaken' = overtaken \cup (InFlight(k) \ {h})
    /\ disturbed' = IF h \in overtaken THEN disturbed \cup Pair(k) ELSE disturbed

-----------------------------------------------------------------------------
(* SendRequest *)

SendRequest(h, u, v) ==
    /\ req[h].pc = "idle" /\ u # v
    /\ req' = [req EXCEPT ![h] = [NoRequest EXCEPT !.pc = "find", !.user = u, !.key = <<u, v>>]]
    /\ UNCHANGED <<status, asked, agreed, overtaken, disturbed>>

Blocks(k) == status[First(k)] \in {"accepted", "pending"}

\* When the query fails the handler goes on as if there were no row.
FindExisting(h) ==
    LET k == req[h].key IN
    /\ req[h].pc = "find"
    /\ Looks(h)
    /\ \/ /\ Found(k) # {} /\ Blocks(k)
          /\ End(h) /\ UNCHANGED disturbed
       \/ /\ Found(k) # {} /\ ~Blocks(k)
          /\ req' = [req EXCEPT ![h].pc = "delete"] /\ UNCHANGED disturbed
       \/ /\ Found(k) = {}
          /\ req' = [req EXCEPT ![h].pc = "create"] /\ UNCHANGED disturbed
       \/ /\ MayFail
          /\ req' = [req EXCEPT ![h].pc = "create"] /\ disturbed' = disturbed \cup Pair(k)
    /\ UNCHANGED <<status, asked, agreed>>

\* A failure to delete is ignored, too: Create will fail, or make a second row.
DeleteRejected(h) ==
    LET k == req[h].key IN
    /\ req[h].pc = "delete"
    /\ req' = [req EXCEPT ![h].pc = "create"]
    /\ \/ /\ status' = [r \in Rows |-> IF r \in Pair(k) THEN "none" ELSE status[r]]
          /\ Writes(h, k)
       \/ /\ MayFail
          /\ disturbed' = disturbed \cup Pair(k)
          /\ UNCHANGED <<status, overtaken>>
    /\ UNCHANGED <<asked, agreed>>

\* Create fails when the key is taken.
Create(h) ==
    LET k == req[h].key IN
    /\ req[h].pc = "create"
    /\ \/ /\ status[k] = "none"
          /\ status' = [status EXCEPT ![k] = "pending"]
          /\ asked' = asked \cup {k}
          /\ Writes(h, k)
       \/ /\ status[k] # "none" \/ MayFail
          /\ UNCHANGED <<status, asked, overtaken, disturbed>>
    /\ End(h)
    /\ UNCHANGED agreed

-----------------------------------------------------------------------------
(* HandleRequest *)

\* Variant of StatusOf: the action is stored as it is.
StatusOfRaw(action) == action

StatusOf(action) == IF action = "accept" THEN "accepted" ELSE "rejected"

HandleRequest(h, u, v, action) ==
    /\ req[h].pc = "idle" /\ u # v
    /\ req' = [req EXCEPT ![h] = [pc |-> "lookup", user |-> u, key |-> <<v, u>>, answer |-> StatusOf(action)]]
    /\ UNCHANGED <<status, asked, agreed, overtaken, disturbed>>

\* Variant of MayAnswer: whoever is in the row may answer.
MayAnswerEither(u, k) == status[k] = "pending"

\* Variant of MayAnswer: an answer may be given again.
MayAnswerAlways(u, k) == k[2] = u

MayAnswer(u, k) == k[2] = u /\ status[k] = "pending"

\* The row found, which may be the other one, is to be the user's to answer.
FindRequest(h) ==
    LET k == req[h].key
        u == req[h].user IN
    /\ req[h].pc = "lookup"
    /\ Looks(h)
    /\ IF Found(k) # {} /\ MayAnswer(u, First(k))
       THEN /\ req' = [req EXCEPT ![h].pc = "update", ![h].key = First(k)]
            /\ agreed' = IF req[h].answer = "accepted" /\ First(k)[2] = u
                         THEN agreed \cup {First(k)} ELSE agreed
       ELSE End(h) /\ UNCHANGED agreed
    /\ UNCHANGED <<status, asked, disturbed>>

\* Variant of UpdateStatus: a failure is not noticed.
UpdateStatusIgnored(h) ==
    LET k == req[h].key IN
    /\ req[h].pc = "update"
    /\ \/ /\ status' = IF status[k] = "none" THEN status ELSE [status EXCEPT ![k] = req[h].answer]
          /\ Writes(h, k)
       \/ /\ MayFail
          /\ UNCHANGED <<status, overtaken, disturbed>>
    /\ IF req[h].answer = "accepted" THEN req' = [req EXCEPT ![h].pc = "tell"] ELSE End(h)
    /\ UNCHANGED <<asked, agreed>>

\* UpdateStatus writes by key, whatever the status has become; no row is no
\* error.  Who accepted tells the requester.
UpdateStatus(h) ==
    LET k == req[h].key IN
    /\ req[h].pc = "update"
    /\ \/ /\ status' = IF status[k] = "none" THEN status ELSE [status EXCEPT ![k] = req[h].answer]
          /\ Writes(h, k)
          /\ IF req[h].answer = "accepted"
             THEN req' = [req EXCEPT ![h].pc = "tell"]
             ELSE End(h)
       \/ /\ MayFail /\ End(h)
          /\ UNCHANGED <<status, overtaken, disturbed>>
    /\ UNCHANGED <<asked, agreed>>

\* friend.accepted goes to the requester.
Tell(h) ==
    /\ req[h].pc = "tell"
    /\ End(h)
    /\ UNCHANGED <<status, asked, agreed, overtaken, disturbed>>

-----------------------------------------------------------------------------
Next ==
    \/ \E h \in Handlers, u, v \in Users :
          SendRequest(h, u, v) \/ \E a \in {"accept", "reject"} : HandleRequest(h, u, v, a)
    \/ \E h \in Handlers :
          \/ FindExisting(h) \/ DeleteRejected(h) \/ Create(h)
          \/ FindRequest(h) \/ UpdateStatus(h) \/ Tell(h)

Spec == Init /\ [][Next]_vars

-----------------------------------------------------------------------------
(* Properties *)

TypeOK ==
    /\ status \in [Rows -> Status]
    /\ req \in [Handlers -> Request]
    /\ asked \subseteq Rows
    /\ agreed \subseteq Rows
    /\ overtaken \subseteq Handlers
    /\ disturbed \subseteq Rows

\* Nobody becomes a friend without having asked, or having accepted, whatever
\* requests and answers cross: UpdateStatus writes to a row by key that may have
\* been deleted and made again since (friend.go:136-151).
ConsentOfBoth == \A k \in Rows : status[k] = "accepted" => k \in asked \cap agreed

\* Two users have one row between them, but for requests that overlapped or a
\* query that failed: the check and the insert are two steps (friend.go:68-88).
OneRowPerPair == \A k \in Rows : k \in disturbed \/ status[k] = "none" \/ status[Flip(k)] = "none"

\* A friendship ends only by a handler that looked before it began: the deletion
\* of a rejected row, or the other of two answers (friend.go:79, 151).
FriendshipLasts ==
    [][\A k \in Rows : status[k] = "accepted" /\ status'[k] # "accepted" => k \in disturbed']_vars

\* The requester is told of a friendship that is there, unless the row was
\* written by another in between: an update of no row is no error
\* (friend.go:151-166, friendship.go:35-39).
ToldIsTrue == \A h \in Handlers :
    req[h].pc = "tell" => status[req[h].key] = "accepted" \/ h \in overtaken
=============================================================================
