---------------------------- MODULE FriendProofs ----------------------------
(***************************************************************************)
(* Friendship for any users and any number of requests served at once: a   *)
(* friendship has the consent of both, two users have one row, a           *)
(* friendship lasts, and who is told of one has it.                        *)
(***************************************************************************)
EXTENDS Friendship, TLAPS

\* A row that is there was asked for, an accepted one was accepted by its
\* addressee, and so was one that a handler is about to write "accepted" to:
\* the last is what makes the write by key safe, for agreed only grows.
Consent ==
    /\ \A k \in Rows : status[k] # "none" => k \in asked
    /\ \A k \in Rows : status[k] = "accepted" => k \in agreed
    /\ \A h \in Handlers : /\ req[h].pc # "idle" => req[h].key \in Rows
                           /\ req[h].pc = "update" /\ req[h].answer = "accepted" => req[h].key \in agreed

IInv == TypeOK /\ Consent

-----------------------------------------------------------------------------
(* The row that is found. *)

\* The other direction of a row is a row.
LEMMA PairOfRow == ASSUME NEW k \in Rows PROVE Pair(k) \subseteq Rows
  BY DEF Pair, Flip, Rows

\* First picks one of the rows found, if there is any.
LEMMA FirstIsFound ==
  ASSUME NEW k \in Rows, Found(k) # {}
  PROVE  First(k) \in Found(k)
<1>1. Found(k) \subseteq {k, Flip(k)} /\ k[1] \in Nat /\ Flip(k)[1] \in Nat
  BY FriendAssumption DEF Found, Pair, Flip, Rows
<1>2. \E r \in Found(k) : \A s \in Found(k) : r[1] <= s[1]
  <2>1. CASE k \in Found(k) /\ (Flip(k) \in Found(k) => k[1] <= Flip(k)[1])
    BY <1>1, <2>1
  <2>2. CASE ~(k \in Found(k) /\ (Flip(k) \in Found(k) => k[1] <= Flip(k)[1]))
    BY <1>1, <2>2
  <2>3. QED BY <2>1, <2>2
<1>3. QED BY <1>2 DEF First

\* So it is a row between the two.
LEMMA FirstIsRow ==
  ASSUME NEW k \in Rows, Found(k) # {}
  PROVE  First(k) \in Rows
  BY FirstIsFound, PairOfRow DEF Found

-----------------------------------------------------------------------------
(* The invariant is inductive. *)

LEMMA InitConsent == Init => IInv
  BY DEF Init, IInv, TypeOK, Consent, Request, NoRequest, Status, Rows

\* End leaves the handler idle.
LEMMA EndKeeps ==
  ASSUME IInv, NEW h \in Handlers, End(h)
  PROVE  /\ req' \in [Handlers -> Request]
         /\ req'[h].pc = "idle"
         /\ \A g \in Handlers \ {h} : req'[g] = req[g]
  BY DEF IInv, TypeOK, End, Request, NoRequest, Status

\* The histories keep their types.
LEMMA WritesKeeps ==
  ASSUME IInv, NEW h \in Handlers, NEW k \in Rows, Writes(h, k)
  PROVE  overtaken' \subseteq Handlers /\ disturbed' \subseteq Rows
  BY PairOfRow DEF IInv, TypeOK, Writes, InFlight

LEMMA SendRequestKeeps ==
  ASSUME IInv, NEW h \in Handlers, NEW u \in Users, NEW v \in Users, SendRequest(h, u, v)
  PROVE  IInv'
  BY DEF IInv, TypeOK, Consent, SendRequest, Request, NoRequest, Rows, Status

LEMMA FindExistingKeeps ==
  ASSUME IInv, NEW h \in Handlers, FindExisting(h)
  PROVE  IInv'
<1>1. req[h].key \in Rows
  BY DEF IInv, Consent, FindExisting
<1>2. Pair(req[h].key) \subseteq Rows
  BY <1>1, PairOfRow
<1>3. /\ req' \in [Handlers -> Request]
      /\ \A g \in Handlers : req'[g].pc # "idle" => req'[g].key = req[g].key /\ req[g].pc # "idle"
      /\ \A g \in Handlers : req'[g].pc = "update" => req'[g] = req[g]
  <2>1. CASE End(h) BY <2>1, EndKeeps DEF FindExisting
  <2>2. CASE req' = [req EXCEPT ![h].pc = "delete"]
    BY <2>2 DEF IInv, TypeOK, FindExisting, Request
  <2>3. CASE req' = [req EXCEPT ![h].pc = "create"]
    BY <2>3 DEF IInv, TypeOK, FindExisting, Request
  <2>4. QED BY <2>1, <2>2, <2>3 DEF FindExisting
<1>4. /\ UNCHANGED <<status, asked, agreed>>
      /\ overtaken' \subseteq Handlers /\ disturbed' \subseteq Rows
  BY <1>2 DEF IInv, TypeOK, FindExisting, Looks
<1>5. QED BY <1>3, <1>4 DEF IInv, TypeOK, Consent

LEMMA DeleteRejectedKeeps ==
  ASSUME IInv, NEW h \in Handlers, DeleteRejected(h)
  PROVE  IInv'
<1>1. req[h].key \in Rows
  BY DEF IInv, Consent, DeleteRejected
<1>2. /\ req' \in [Handlers -> Request]
      /\ \A g \in Handlers : req'[g].pc # "idle" => req'[g].key = req[g].key /\ req[g].pc # "idle"
      /\ \A g \in Handlers : req'[g].pc = "update" => req'[g] = req[g]
  BY DEF IInv, TypeOK, DeleteRejected, Request
<1>3. overtaken' \subseteq Handlers /\ disturbed' \subseteq Rows
  BY <1>1, WritesKeeps, PairOfRow DEF IInv, TypeOK, DeleteRejected
<1>4. /\ status' \in [Rows -> Status]
      /\ \A k \in Rows : status'[k] \in {status[k], "none"}
  BY DEF IInv, TypeOK, DeleteRejected, Status
<1>5. UNCHANGED <<asked, agreed>>
  BY DEF DeleteRejected
<1>6. QED BY <1>2, <1>3, <1>4, <1>5 DEF IInv, TypeOK, Consent

LEMMA CreateKeeps ==
  ASSUME IInv, NEW h \in Handlers, Create(h)
  PROVE  IInv'
<1>1. req[h].key \in Rows
  BY DEF IInv, Consent, Create
<1>2. /\ req' \in [Handlers -> Request]
      /\ \A g \in Handlers : req'[g].pc # "idle" => req'[g] = req[g]
  BY EndKeeps DEF Create
<1>3. overtaken' \subseteq Handlers /\ disturbed' \subseteq Rows
  BY <1>1, WritesKeeps DEF IInv, TypeOK, Create
<1>4. /\ status' \in [Rows -> Status] /\ asked' \subseteq Rows
      /\ \A k \in Rows : /\ status'[k] # "none" => k \in asked'
                         /\ status'[k] = "accepted" => status[k] = "accepted"
  BY <1>1 DEF IInv, TypeOK, Consent, Create, Status
<1>5. UNCHANGED agreed
  BY DEF Create
<1>6. QED BY <1>2, <1>3, <1>4, <1>5 DEF IInv, TypeOK, Consent

LEMMA HandleRequestKeeps ==
  ASSUME IInv, NEW h \in Handlers, NEW u \in Users, NEW v \in Users, NEW action,
         HandleRequest(h, u, v, action)
  PROVE  IInv'
  BY DEF IInv, TypeOK, Consent, HandleRequest, StatusOf, Request, Rows, Status

LEMMA FindRequestKeeps ==
  ASSUME IInv, NEW h \in Handlers, FindRequest(h)
  PROVE  IInv'
<1>1. req[h].key \in Rows
  BY DEF IInv, Consent, FindRequest
<1> DEFINE u == req[h].user
           k == First(req[h].key)
<1>2. overtaken' \subseteq Handlers /\ UNCHANGED <<status, asked, disturbed>>
  BY DEF IInv, TypeOK, FindRequest, Looks
<1>3. CASE End(h) /\ UNCHANGED agreed
  BY <1>2, <1>3, EndKeeps DEF IInv, TypeOK, Consent
<1>4. CASE Found(req[h].key) # {} /\ MayAnswer(u, k)
  <2>1. k \in Rows
    BY <1>1, <1>4, FirstIsRow
  <2>2. k[2] = u
    BY <1>4 DEF MayAnswer
  <2>3. req' = [req EXCEPT ![h].pc = "update", ![h].key = k]
    BY <1>4 DEF FindRequest
  <2>4. agreed' = IF req[h].answer = "accepted" /\ k[2] = u THEN agreed \cup {k} ELSE agreed
    BY <1>4 DEF FindRequest
  <2>5. req' \in [Handlers -> Request] /\ agreed' \subseteq Rows /\ agreed \subseteq agreed'
    <3>1. req' \in [Handlers -> Request]
      <4>1. req[h] \in Request /\ req \in [Handlers -> Request]
        BY DEF IInv, TypeOK
      <4> HIDE DEF k
      <4>2. [req[h] EXCEPT !.pc = "update", !.key = k] \in Request
        BY <2>1, <4>1 DEF Request
      <4>3. req' = [req EXCEPT ![h] = [req[h] EXCEPT !.pc = "update", !.key = k]]
        BY <2>3, <4>1
      <4>4. QED BY <4>1, <4>2, <4>3
    <3>2. agreed' \subseteq Rows /\ agreed \subseteq agreed'
      <4> HIDE DEF k
      <4> QED BY <2>1, <2>4 DEF IInv, TypeOK
    <3> QED BY <3>1, <3>2
  <2>6. /\ req'[h].key = k /\ req'[h].answer = req[h].answer
        /\ \A g \in Handlers \ {h} : req'[g] = req[g]
    BY <2>3 DEF IInv, TypeOK, Request
  <2>7. Consent'
    <3>1. \A g \in Handlers : /\ req'[g].pc # "idle" => req'[g].key \in Rows
                              /\ req'[g].pc = "update" /\ req'[g].answer = "accepted"
                                    => req'[g].key \in agreed'
      BY <2>1, <2>2, <2>4, <2>5, <2>6 DEF IInv, Consent
    <3>2. QED BY <1>2, <2>5, <3>1 DEF IInv, Consent
  <2>8. QED BY <1>2, <2>5, <2>7 DEF IInv, TypeOK
<1>5. QED BY <1>3, <1>4 DEF FindRequest

LEMMA UpdateStatusKeeps ==
  ASSUME IInv, NEW h \in Handlers, UpdateStatus(h)
  PROVE  IInv'
<1> DEFINE k == req[h].key
<1>1. k \in Rows /\ req[h].answer \in Status
  BY DEF IInv, TypeOK, Consent, UpdateStatus, Request
<1>2. UNCHANGED <<asked, agreed>>
  BY DEF UpdateStatus
<1>3. /\ req' \in [Handlers -> Request]
      /\ \A g \in Handlers : /\ req'[g].pc # "idle" => req'[g].key = req[g].key /\ req[g].pc # "idle"
                             /\ req'[g].pc = "update" => req'[g] = req[g]
  <2>1. CASE End(h) BY <2>1, EndKeeps
  <2>2. CASE req' = [req EXCEPT ![h].pc = "tell"]
    BY <2>2 DEF IInv, TypeOK, UpdateStatus, Request
  <2>3. QED BY <2>1, <2>2 DEF UpdateStatus
<1>4. overtaken' \subseteq Handlers /\ disturbed' \subseteq Rows
  BY <1>1, WritesKeeps DEF IInv, TypeOK, UpdateStatus
<1>5. \/ status' = status
      \/ status[k] # "none" /\ status' = [status EXCEPT ![k] = req[h].answer]
  BY DEF UpdateStatus
<1>6. /\ status' \in [Rows -> Status]
      /\ \A j \in Rows : status'[j] # "none" => j \in asked
      /\ \A j \in Rows : status'[j] = "accepted" => j \in agreed
  BY <1>1, <1>5 DEF IInv, TypeOK, Consent, UpdateStatus
<1>7. QED BY <1>2, <1>3, <1>4, <1>6 DEF IInv, TypeOK, Consent

LEMMA TellKeeps ==
  ASSUME IInv, NEW h \in Handlers, Tell(h)
  PROVE  IInv'
  BY EndKeeps DEF IInv, TypeOK, Consent, Tell

LEMMA NextKeeps == IInv /\ [Next]_vars => IInv'
<1> SUFFICES ASSUME IInv, [Next]_vars PROVE IInv'
  OBVIOUS
<1>1. CASE UNCHANGED vars
  BY <1>1 DEF vars, IInv, TypeOK, Consent
<1>2. ASSUME NEW h \in Handlers, NEW u \in Users, NEW v \in Users, SendRequest(h, u, v) PROVE IInv'
  BY <1>2, SendRequestKeeps
<1>3. ASSUME NEW h \in Handlers, NEW u \in Users, NEW v \in Users,
             NEW a \in {"accept", "reject"}, HandleRequest(h, u, v, a)
      PROVE  IInv'
  BY <1>3, HandleRequestKeeps
<1>4. ASSUME NEW h \in Handlers, FindExisting(h) \/ DeleteRejected(h) \/ Create(h) PROVE IInv'
  BY <1>4, FindExistingKeeps, DeleteRejectedKeeps, CreateKeeps
<1>5. ASSUME NEW h \in Handlers, FindRequest(h) \/ UpdateStatus(h) \/ Tell(h) PROVE IInv'
  BY <1>5, FindRequestKeeps, UpdateStatusKeeps, TellKeeps
<1>6. QED BY <1>1, <1>2, <1>3, <1>4, <1>5 DEF Next

-----------------------------------------------------------------------------
(* What a handler has seen. *)

\* What a handler that has not been overtaken looked at is still there; the rows of
\* a pair that no overtaken handler has written are all known to who looked.
Sees(h) ==
    h \notin overtaken =>
        /\ req[h].pc = "update" => status[req[h].key] = "pending"
        /\ req[h].pc = "tell"   => status[req[h].key] = "accepted"
        /\ req[h].key \notin disturbed =>
              /\ req[h].pc = "create" => \A r \in Pair(req[h].key) : status[r] = "none"
              /\ req[h].pc = "delete" => \A r \in Pair(req[h].key) : status[r] \in {"none", "rejected"}

\* The first and the third part make the check and the insert of an undisturbed
\* pair as good as one step.
Tidy ==
    /\ \A k \in disturbed : Flip(k) \in disturbed
    /\ OneRowPerPair
    /\ \A h \in Handlers : Sees(h)

\* Of a row and the other one, each is the other of the other.
LEMMA PairOfOther ==
  ASSUME NEW k \in Rows, NEW j \in Pair(k)
  PROVE  j \in Rows /\ Flip(j) \in Pair(k) /\ Pair(j) = Pair(k) /\ Flip(Flip(k)) = k
<1>1. \E u, v \in Users : u # v /\ k = <<u, v>>
  BY DEF Rows
<1>2. QED BY <1>1 DEF Pair, Flip, Rows

\* A pair remains disturbed as one.
LEMMA DisturbedAsOne ==
  ASSUME TypeOK, Tidy, NEW k \in Rows, disturbed' \in {disturbed, disturbed \cup Pair(k)}
  PROVE  /\ \A j \in disturbed' : Flip(j) \in disturbed'
         /\ disturbed \subseteq disturbed'
  BY PairOfOther DEF Tidy

\* What the others have seen stays as it was, when those that are at the rows
\* written are overtaken.
LEMMA OthersSee ==
  ASSUME IInv, Tidy, NEW h \in Handlers, NEW k \in Rows,
         \A g \in Handlers \ {h} : req'[g] = req[g],
         \A j \in Rows \ Pair(k) : status'[j] = status[j],
         \A g \in Handlers \ {h} : g \in overtaken => g \in overtaken',
         disturbed \subseteq disturbed',
         \/ UNCHANGED status
         \/ \A g \in InFlight(k) \ {h} : g \in overtaken',
         NEW g \in Handlers \ {h}
  PROVE  Sees(g)'
<1>1. req'[g] = req[g] /\ Sees(g) /\ (g \notin overtaken' => g \notin overtaken)
  BY DEF Tidy
<1>2. CASE UNCHANGED status
  BY <1>1, <1>2 DEF Sees
<1>3. CASE g \in overtaken' \/ req[g].pc \notin {"delete", "create", "update", "tell"}
  BY <1>1, <1>3 DEF Sees
<1>4. CASE req[g].pc # "idle" /\ req[g].key \notin Pair(k)
  <2>1. req[g].key \in Rows
    BY <1>4 DEF IInv, Consent
  <2>2. \A r \in Pair(req[g].key) : r \in Rows \ Pair(k)
    BY <1>4, <2>1, PairOfOther DEF Pair
  <2>3. \A r \in Pair(req[g].key) : status'[r] = status[r]
    BY <2>2
  <2>4. req[g].key \in Pair(req[g].key)
    BY DEF Pair
  <2>5. QED BY <1>1, <2>3, <2>4 DEF Sees
<1>5. QED BY <1>2, <1>3, <1>4 DEF InFlight

\* A step that writes no row keeps what is known, if who took it has seen well.
LEMMA ReadKeepsTidy ==
  ASSUME IInv, Tidy, NEW h \in Handlers, NEW k \in Rows, UNCHANGED status,
         \A g \in Handlers \ {h} : req'[g] = req[g],
         \A g \in Handlers \ {h} : g \in overtaken => g \in overtaken',
         disturbed' \in {disturbed, disturbed \cup Pair(k)},
         Sees(h)'
  PROVE  Tidy'
<1>1. /\ \A j \in disturbed' : Flip(j) \in disturbed'
      /\ disturbed \subseteq disturbed'
  BY DisturbedAsOne DEF IInv
<1>2. OneRowPerPair'
  BY <1>1 DEF Tidy, OneRowPerPair
<1>3. \A g \in Handlers : Sees(g)'
  BY <1>1, OthersSee
<1>4. QED BY <1>1, <1>2, <1>3 DEF Tidy

\* A handler that is idle claims nothing.
LEMMA IdleSees ==
  ASSUME NEW h \in Handlers, req'[h].pc \in {"idle", "find", "lookup"}
  PROVE  Sees(h)'
  BY DEF Sees

LEMMA SendRequestTidy ==
  ASSUME IInv, Tidy, NEW h \in Handlers, NEW u \in Users, NEW v \in Users, SendRequest(h, u, v)
  PROVE  Tidy'
<1>1. /\ req'[h].pc = "find" /\ \A g \in Handlers \ {h} : req'[g] = req[g]
      /\ UNCHANGED <<status, overtaken, disturbed>> /\ <<u, v>> \in Rows
  BY DEF IInv, TypeOK, SendRequest, NoRequest, Rows
<1>2. QED BY <1>1, IdleSees, ReadKeepsTidy

LEMMA HandleRequestTidy ==
  ASSUME IInv, Tidy, NEW h \in Handlers, NEW u \in Users, NEW v \in Users, NEW action,
         HandleRequest(h, u, v, action)
  PROVE  Tidy'
<1>1. /\ req'[h].pc = "lookup" /\ \A g \in Handlers \ {h} : req'[g] = req[g]
      /\ UNCHANGED <<status, overtaken, disturbed>> /\ <<u, v>> \in Rows
  BY DEF IInv, TypeOK, HandleRequest, Rows
<1>2. QED BY <1>1, IdleSees, ReadKeepsTidy

LEMMA FindExistingTidy ==
  ASSUME IInv, Tidy, NEW h \in Handlers, FindExisting(h)
  PROVE  Tidy'
<1> DEFINE k == req[h].key
<1>1. k \in Rows /\ req[h].pc = "find"
  BY DEF IInv, Consent, FindExisting
<1>2. /\ UNCHANGED status /\ disturbed' \in {disturbed, disturbed \cup Pair(k)}
      /\ overtaken' = overtaken \ {h}
  BY DEF FindExisting, Looks
<1>3. \A g \in Handlers \ {h} : req'[g] = req[g]
  BY DEF IInv, TypeOK, FindExisting, End
<1>4. Sees(h)'
  <2>1. CASE End(h)
    BY <2>1, EndKeeps, IdleSees
  <2>2. CASE Found(k) # {} /\ ~Blocks(k) /\ req' = [req EXCEPT ![h].pc = "delete"] /\ UNCHANGED disturbed
    <3>1. req'[h].pc = "delete" /\ req'[h].key = k
      BY <2>2 DEF IInv, TypeOK, Request
    <3>2. First(k) \in Pair(k) /\ status[First(k)] \notin {"none", "accepted", "pending"}
      BY <1>1, <2>2, FirstIsFound DEF Found, Blocks
    <3>3. ASSUME k \notin disturbed, NEW r \in Pair(k)
          PROVE  status[r] \in {"none", "rejected"}
      <4>1. r \in Rows /\ First(k) \in Rows /\ First(k) \notin disturbed
        BY <1>1, <3>2, <3>3, PairOfOther DEF Tidy, Pair
      <4>2. status[First(k)] = "rejected"
        BY <3>2, <4>1 DEF IInv, TypeOK, Status
      <4>3. r = First(k) \/ r = Flip(First(k))
        BY <1>1, <3>2, PairOfOther DEF Pair
      <4>4. QED BY <4>1, <4>2, <4>3 DEF Tidy, OneRowPerPair
    <3>4. QED BY <1>2, <2>2, <3>1, <3>3 DEF Sees
  <2>3. CASE Found(k) = {} /\ req' = [req EXCEPT ![h].pc = "create"] /\ UNCHANGED disturbed
    <3>1. req'[h].pc = "create" /\ req'[h].key = k
      BY <2>3 DEF IInv, TypeOK, Request
    <3>2. \A r \in Pair(k) : status[r] = "none"
      BY <2>3 DEF Found
    <3>3. QED BY <1>2, <3>1, <3>2 DEF Sees
  <2>4. CASE req' = [req EXCEPT ![h].pc = "create"] /\ disturbed' = disturbed \cup Pair(k)
    <3>1. req'[h].pc = "create" /\ req'[h].key = k
      BY <2>4 DEF IInv, TypeOK, Request
    <3>2. QED BY <2>4, <3>1 DEF Sees, Pair
  <2>5. QED BY <2>1, <2>2, <2>3, <2>4 DEF FindExisting
<1>5. QED BY <1>1, <1>2, <1>3, <1>4, ReadKeepsTidy

LEMMA FindRequestTidy ==
  ASSUME IInv, Tidy, NEW h \in Handlers, FindRequest(h)
  PROVE  Tidy'
<1>1. req[h].key \in Rows
  BY DEF IInv, Consent, FindRequest
<1>2. UNCHANGED <<status, disturbed>> /\ overtaken' = overtaken \ {h}
  BY DEF FindRequest, Looks
<1>3. \A g \in Handlers \ {h} : req'[g] = req[g]
  BY DEF IInv, TypeOK, FindRequest, End
<1>4. Sees(h)'
  <2>1. CASE End(h)
    BY <2>1, EndKeeps, IdleSees
  <2>2. CASE MayAnswer(req[h].user, First(req[h].key)) /\
             req' = [req EXCEPT ![h].pc = "update", ![h].key = First(req[h].key)]
    <3>1. req'[h].pc = "update" /\ req'[h].key = First(req[h].key)
      BY <2>2 DEF IInv, TypeOK, Request
    <3>2. status[First(req[h].key)] = "pending"
      BY <2>2 DEF MayAnswer
    <3>3. QED BY <1>2, <3>1, <3>2 DEF Sees
  <2>3. QED BY <2>1, <2>2 DEF FindRequest
<1>5. QED BY <1>1, <1>2, <1>3, <1>4, ReadKeepsTidy

LEMMA TellTidy ==
  ASSUME IInv, Tidy, NEW h \in Handlers, Tell(h)
  PROVE  Tidy'
<1>1. req[h].key \in Rows
  BY DEF IInv, Consent, Tell
<1>2. req'[h].pc = "idle" /\ \A g \in Handlers \ {h} : req'[g] = req[g]
  BY EndKeeps DEF Tell
<1>3. UNCHANGED <<status, overtaken, disturbed>>
  BY DEF Tell
<1>4. QED BY <1>1, <1>2, <1>3, IdleSees, ReadKeepsTidy

-----------------------------------------------------------------------------
(* The handlers that write, and what they may do to a friendship. *)

\* No undisturbed friendship ends in the step.
Lasts == \A k \in Rows : status[k] = "accepted" /\ status'[k] # "accepted" => k \in disturbed'

\* What Writes does to the histories.
LEMMA WritesMarks ==
  ASSUME IInv, Tidy, NEW h \in Handlers, NEW k \in Rows, Writes(h, k)
  PROVE  /\ \A j \in disturbed' : Flip(j) \in disturbed'
         /\ disturbed \subseteq disturbed'
         /\ h \in overtaken => Pair(k) \subseteq disturbed'
         /\ h \in overtaken <=> h \in overtaken'
         /\ overtaken \subseteq overtaken'
         /\ \A g \in InFlight(k) \ {h} : g \in overtaken'
  BY DisturbedAsOne DEF IInv, Writes

LEMMA DeleteRejectedTidy ==
  ASSUME IInv, Tidy, NEW h \in Handlers, DeleteRejected(h)
  PROVE  Tidy' /\ Lasts
<1> DEFINE k == req[h].key
<1>1. k \in Rows /\ req[h].pc = "delete"
  BY DEF IInv, Consent, DeleteRejected
<1>2. /\ req'[h].pc = "create" /\ req'[h].key = k
      /\ \A g \in Handlers \ {h} : req'[g] = req[g]
  BY DEF IInv, TypeOK, DeleteRejected, Request
<1> HIDE DEF k
<1>3. CASE status' = [r \in Rows |-> IF r \in Pair(k) THEN "none" ELSE status[r]] /\ Writes(h, k)
  <2>1. /\ \A j \in disturbed' : Flip(j) \in disturbed'
        /\ disturbed \subseteq disturbed'
        /\ h \in overtaken => Pair(k) \subseteq disturbed'
        /\ h \in overtaken <=> h \in overtaken'
        /\ overtaken \subseteq overtaken'
        /\ \A g \in InFlight(k) \ {h} : g \in overtaken'
    BY <1>1, <1>3, WritesMarks
  <2>2. /\ \A j \in Rows \ Pair(k) : status'[j] = status[j]
        /\ \A j \in Pair(k) : status'[j] = "none"
        /\ \A j \in Rows : status'[j] \in {status[j], "none"}
    BY <1>1, <1>3, PairOfOther
  <2>3. OneRowPerPair'
    <3> SUFFICES ASSUME NEW j \in Rows, j \notin disturbed'
                 PROVE  status'[j] = "none" \/ status'[Flip(j)] = "none"
      BY DEF OneRowPerPair
    <3>1. Flip(j) \in Rows
      BY PairOfRow DEF Pair
    <3>2. QED BY <2>1, <2>2, <3>1 DEF Tidy, OneRowPerPair
  <2>4. Sees(h)'
    BY <1>2, <2>2 DEF Sees
  <2>5. \A g \in Handlers \ {h} : Sees(g)'
    BY <1>1, <1>2, <2>1, <2>2, OthersSee
  <2>6. Lasts
    <3> SUFFICES ASSUME NEW j \in Rows, status[j] = "accepted", status'[j] # "accepted",
                        j \notin disturbed'
                 PROVE  FALSE
      BY DEF Lasts
    <3>1. j \in Pair(k)
      BY <2>2
    <3>2. h \notin overtaken
      BY <2>1, <3>1
    <3>3. k \notin disturbed
      BY <1>1, <2>1, <3>1, PairOfOther DEF Pair, Tidy
    <3>4. QED BY <1>1, <3>1, <3>2, <3>3 DEF Tidy, Sees, k
  <2>7. QED BY <2>1, <2>3, <2>4, <2>5, <2>6 DEF Tidy
<1>4. CASE disturbed' = disturbed \cup Pair(k) /\ UNCHANGED <<status, overtaken>>
  <2>1. Sees(h)'
    BY <1>2, <1>4 DEF Sees, Pair
  <2>2. QED BY <1>1, <1>2, <1>4, <2>1, ReadKeepsTidy DEF Lasts
<1>5. QED BY <1>3, <1>4 DEF DeleteRejected, k

LEMMA CreateTidy ==
  ASSUME IInv, Tidy, NEW h \in Handlers, Create(h)
  PROVE  Tidy' /\ Lasts
<1> DEFINE k == req[h].key
<1>1. k \in Rows /\ req[h].pc = "create"
  BY DEF IInv, Consent, Create
<1>2. req'[h].pc = "idle" /\ \A g \in Handlers \ {h} : req'[g] = req[g]
  BY EndKeeps DEF Create
<1>3. Sees(h)'
  BY <1>2, IdleSees
<1> HIDE DEF k
<1>4. CASE status[k] = "none" /\ status' = [status EXCEPT ![k] = "pending"] /\ Writes(h, k)
  <2>1. /\ \A j \in disturbed' : Flip(j) \in disturbed'
        /\ disturbed \subseteq disturbed'
        /\ h \in overtaken => Pair(k) \subseteq disturbed'
        /\ overtaken \subseteq overtaken'
        /\ \A g \in InFlight(k) \ {h} : g \in overtaken'
    BY <1>1, <1>4, WritesMarks
  <2>2. \A j \in Rows : j # k => status'[j] = status[j]
    BY <1>4 DEF IInv, TypeOK
  <2>3. OneRowPerPair'
    <3> SUFFICES ASSUME NEW j \in Rows, j \notin disturbed'
                 PROVE  status'[j] = "none" \/ status'[Flip(j)] = "none"
      BY DEF OneRowPerPair
    <3>1. Flip(j) \in Rows /\ Flip(Flip(j)) = j
      BY PairOfRow, PairOfOther DEF Pair
    <3>2. CASE j # k /\ Flip(j) # k
      BY <2>1, <2>2, <3>1, <3>2 DEF Tidy, OneRowPerPair
    <3>3. CASE j = k \/ Flip(j) = k
      <4>1. j \in Pair(k) /\ Flip(j) \in Pair(k)
        BY <3>1, <3>3 DEF Pair
      <4>2. h \notin overtaken /\ k \notin disturbed
        BY <1>1, <2>1, <3>1, <3>3, <4>1 DEF Tidy
      <4>3. \A r \in Pair(k) : status[r] = "none"
        BY <1>1, <4>2 DEF Tidy, Sees, k
      <4>4. Flip(j) # j
        BY DEF Rows, Flip
      <4>5. QED BY <2>2, <3>1, <4>1, <4>3, <4>4
    <3>4. QED BY <3>2, <3>3
  <2>4. \A g \in Handlers \ {h} : Sees(g)'
    <3>1. \A j \in Rows \ Pair(k) : status'[j] = status[j]
      BY <2>2 DEF Pair
    <3>2. QED BY <1>1, <1>2, <2>1, <3>1, OthersSee
  <2>5. Lasts
    BY <1>1, <1>4, <2>2 DEF Lasts
  <2>6. QED BY <1>3, <2>1, <2>3, <2>4, <2>5 DEF Tidy
<1>5. CASE UNCHANGED <<status, asked, overtaken, disturbed>>
  BY <1>1, <1>2, <1>3, <1>5, ReadKeepsTidy DEF Lasts
<1>6. QED BY <1>4, <1>5 DEF Create, k

LEMMA UpdateStatusTidy ==
  ASSUME IInv, Tidy, NEW h \in Handlers, UpdateStatus(h)
  PROVE  Tidy' /\ Lasts
<1> DEFINE k == req[h].key
<1>1. k \in Rows /\ req[h].pc = "update"
  BY DEF IInv, Consent, UpdateStatus
<1>2. \A g \in Handlers \ {h} : req'[g] = req[g]
  BY DEF IInv, TypeOK, UpdateStatus, End
<1>3. CASE /\ status' = IF status[k] = "none" THEN status ELSE [status EXCEPT ![k] = req[h].answer]
           /\ Writes(h, k)
           /\ IF req[h].answer = "accepted" THEN req' = [req EXCEPT ![h].pc = "tell"] ELSE End(h)
  <2>1. /\ \A j \in disturbed' : Flip(j) \in disturbed'
        /\ disturbed \subseteq disturbed'
        /\ h \in overtaken => Pair(k) \subseteq disturbed'
        /\ h \in overtaken <=> h \in overtaken'
        /\ overtaken \subseteq overtaken'
        /\ \A g \in InFlight(k) \ {h} : g \in overtaken'
    BY <1>1, <1>3, WritesMarks
  <2>2. /\ \A j \in Rows : j # k => status'[j] = status[j]
        /\ status[k] = "none" => status'[k] = "none"
        /\ status[k] # "none" => status'[k] = req[h].answer
    BY <1>1, <1>3 DEF IInv, TypeOK
  <2>3. h \notin overtaken => status[k] = "pending"
    BY <1>1 DEF Tidy, Sees
  <2>4. OneRowPerPair'
    <3> HIDE DEF k
    <3> SUFFICES ASSUME NEW j \in Rows, j \notin disturbed'
                 PROVE  status'[j] = "none" \/ status'[Flip(j)] = "none"
      BY DEF OneRowPerPair
    <3>1. Flip(j) \in Rows
      BY PairOfRow DEF Pair
    <3>2. \A r \in Rows : status[r] = "none" => status'[r] = "none"
      BY <2>2
    <3>3. QED BY <2>1, <3>1, <3>2 DEF Tidy, OneRowPerPair
  <2>5. \A g \in Handlers \ {h} : Sees(g)'
    <3>1. \A j \in Rows \ Pair(k) : status'[j] = status[j]
      BY <2>2 DEF Pair
    <3>2. QED BY <1>1, <1>2, <2>1, <3>1, OthersSee
  <2>6. Sees(h)'
    <3>1. CASE req[h].answer = "accepted"
      <4>1. req'[h].pc = "tell" /\ req'[h].key = k
        BY <1>3, <3>1 DEF IInv, TypeOK, Request
      <4>2. h \notin overtaken => status'[k] = "accepted"
        BY <2>2, <2>3, <3>1
      <4>3. QED BY <2>1, <4>1, <4>2 DEF Sees
    <3>2. CASE End(h)
      BY <3>2, EndKeeps, IdleSees
    <3>3. QED BY <1>3, <3>1, <3>2
  <2>7. Lasts
    <3> SUFFICES ASSUME NEW j \in Rows, status[j] = "accepted", status'[j] # "accepted"
                 PROVE  j \in disturbed'
      BY DEF Lasts
    <3>1. j = k
      BY <2>2
    <3>2. QED BY <2>1, <2>3, <3>1 DEF Pair
  <2>8. QED BY <2>1, <2>4, <2>5, <2>6, <2>7 DEF Tidy
<1>4. CASE End(h) /\ UNCHANGED <<status, overtaken, disturbed>>
  <2>1. Sees(h)'
    BY <1>4, EndKeeps, IdleSees
  <2>2. QED BY <1>1, <1>2, <1>4, <2>1, ReadKeepsTidy DEF Lasts
<1>5. QED BY <1>3, <1>4 DEF UpdateStatus

LEMMA InitTidy == Init => Tidy
  BY PairOfRow DEF Init, Tidy, OneRowPerPair, Sees, NoRequest

LEMMA NextTidy == IInv /\ Tidy /\ [Next]_vars => Tidy' /\ Lasts
<1> SUFFICES ASSUME IInv, Tidy, [Next]_vars PROVE Tidy' /\ Lasts
  OBVIOUS
<1>1. CASE UNCHANGED vars
  BY <1>1 DEF vars, Tidy, OneRowPerPair, Sees, Lasts
<1>2. ASSUME NEW h \in Handlers, NEW u \in Users, NEW v \in Users, SendRequest(h, u, v)
      PROVE  Tidy' /\ Lasts
  BY <1>2, SendRequestTidy DEF SendRequest, Lasts
<1>3. ASSUME NEW h \in Handlers, NEW u \in Users, NEW v \in Users,
             NEW a \in {"accept", "reject"}, HandleRequest(h, u, v, a)
      PROVE  Tidy' /\ Lasts
  BY <1>3, HandleRequestTidy DEF HandleRequest, Lasts
<1>4. ASSUME NEW h \in Handlers, FindExisting(h) PROVE Tidy' /\ Lasts
  BY <1>4, FindExistingTidy DEF FindExisting, Lasts
<1>5. ASSUME NEW h \in Handlers, FindRequest(h) \/ Tell(h) PROVE Tidy' /\ Lasts
  BY <1>5, FindRequestTidy, TellTidy DEF FindRequest, Tell, Lasts
<1>6. ASSUME NEW h \in Handlers, DeleteRejected(h) \/ Create(h) \/ UpdateStatus(h)
      PROVE  Tidy' /\ Lasts
  BY <1>6, DeleteRejectedTidy, CreateTidy, UpdateStatusTidy
<1>7. QED BY <1>1, <1>2, <1>3, <1>4, <1>5, <1>6 DEF Next

-----------------------------------------------------------------------------
(* Theorems *)

\* Every state of every run is well formed (friend.go, friendship.go).
THEOREM TypeCorrect == Spec => []TypeOK
<1>1. IInv => TypeOK BY DEF IInv
<1>2. QED BY InitConsent, NextKeeps, <1>1, PTL DEF Spec

\* Nobody is a friend who has not asked or accepted, although UpdateStatus writes
\* by key to a row that may not be the one the handler saw (friend.go:136-151).
THEOREM FriendsConsented == Spec => []ConsentOfBoth
<1>1. IInv => ConsentOfBoth BY DEF IInv, Consent, ConsentOfBoth
<1>2. QED BY InitConsent, NextKeeps, <1>1, PTL DEF Spec

\* Two users have one row between them, unless a query failed or a handler wrote
\* although another had written since it looked: that the check and the insert are
\* two queries can go wrong in no other way (friend.go:68-88).
THEOREM OneRow == Spec => []OneRowPerPair
<1>1. Tidy => OneRowPerPair BY DEF Tidy
<1>2. QED BY InitConsent, NextKeeps, InitTidy, NextTidy, <1>1, PTL DEF Spec

\* Whoever is told of a friendship has it, unless another wrote the row between the
\* lookup of the request and the message (friend.go:136-166).
THEOREM ToldIsFriend == Spec => []ToldIsTrue
<1>1. Tidy => ToldIsTrue BY DEF Tidy, Sees, ToldIsTrue
<1>2. QED BY InitConsent, NextKeeps, InitTidy, NextTidy, <1>1, PTL DEF Spec

\* No handler that saw the row as it is ends a friendship: neither the deletion of a
\* rejected row nor an answer (friend.go:79, 151).
THEOREM FriendsStay == Spec => FriendshipLasts
<1>1. IInv /\ Tidy /\ [Next]_vars =>
         [\A k \in Rows : status[k] = "accepted" /\ status'[k] # "accepted" => k \in disturbed']_vars
  BY NextTidy DEF Lasts
<1>2. QED BY InitConsent, NextKeeps, InitTidy, NextTidy, <1>1, PTL DEF Spec, FriendshipLasts
=============================================================================
