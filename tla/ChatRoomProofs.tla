--------------------------- MODULE ChatRoomProofs ---------------------------
(***************************************************************************)
(* Whether the server has the user in the room when the client thinks so,  *)
(* for any calls, any number of connections and any faults.  What counts   *)
(* is not the room of the moment but what it will be when everything on    *)
(* its way to the server has been read.                                    *)
(***************************************************************************)
EXTENDS ChatProofs

-----------------------------------------------------------------------------
(* The room as it will be. *)

\* A server that has the user in the room (b) or not, and reads n envelopes of s,
\* has the user in the room.
Sure(s, n, b) ==
    \/ \E i \in 1..n : s[i].ev = "room.join" /\ \A j \in i..n : s[j].ev # "room.leave"
    \/ b /\ \A j \in 1..n : s[j].ev # "room.leave"

\* A connection that is closed reads nothing: it does no harm.
Base(g)  == sub[g] \/ serving[g].step = "join" \/ conn[g] = "closed"
In(g, i) == Sure(up[g], i, Base(g))
End(g)   == In(g, Len(up[g]))

\* The answers to room.join that are to come will be true when they come.
Settled(g) == Unanswered(g) => End(g)

Has(s, ev) == \E i \in DOMAIN s : s[i].ev = ev

LEMMA SureGrows ==
  ASSUME NEW s \in Seq(Envelope), NEW e \in Envelope, NEW b, NEW c, b => c
  PROVE  /\ \A n \in 0..Len(s) : Sure(s, n, b) => Sure(Append(s, e), n, c)
         /\ e.ev = "room.join" => Sure(Append(s, e), Len(Append(s, e)), c)
         /\ e.ev # "room.leave" /\ Sure(s, Len(s), b) => Sure(Append(s, e), Len(Append(s, e)), c)
<1>1. Len(Append(s, e)) = Len(s) + 1 /\ Append(s, e)[Len(s) + 1] = e /\ Len(s) \in Nat
      /\ \A i \in 1..Len(s) : Append(s, e)[i] = s[i]
  OBVIOUS
<1>2. ASSUME NEW n \in 0..Len(s), Sure(s, n, b) PROVE Sure(Append(s, e), n, c)
  BY <1>1, <1>2 DEF Sure
<1>3. ASSUME e.ev = "room.join" PROVE Sure(Append(s, e), Len(s) + 1, c)
  BY <1>1, <1>3 DEF Sure
<1>4. ASSUME e.ev # "room.leave", Sure(s, Len(s), b) PROVE Sure(Append(s, e), Len(s) + 1, c)
  BY <1>1, <1>4 DEF Sure
<1>5. QED BY <1>1, <1>2, <1>3, <1>4

\* The first envelope is read, and leaves the user in the room or not (c).
LEMMA SureShrinks ==
  ASSUME NEW s \in Seq(Envelope), s # <<>>, NEW b, NEW c,
         Head(s).ev = "room.join" => c, b /\ Head(s).ev # "room.leave" => c,
         NEW n \in 0..Len(Tail(s)), Sure(s, n + 1, b)
  PROVE  Sure(Tail(s), n, c)
<1>1. /\ Len(Tail(s)) = Len(s) - 1 /\ Len(s) \in Nat \ {0} /\ Head(s) = s[1]
      /\ \A i \in 1..Len(Tail(s)) : Tail(s)[i] = s[i + 1]
  OBVIOUS
<1>2. CASE \E i \in 1..(n + 1) : s[i].ev = "room.join" /\ \A j \in i..(n + 1) : s[j].ev # "room.leave"
  <2>1. PICK i \in 1..(n + 1) : s[i].ev = "room.join" /\ \A j \in i..(n + 1) : s[j].ev # "room.leave"
    BY <1>2
  <2>2. \A j \in 1..n : j + 1 \in 1..(n + 1) /\ Tail(s)[j] = s[j + 1] /\ j + 1 >= 2
    BY <1>1
  <2>3. CASE i = 1
    BY <1>1, <2>1, <2>2, <2>3 DEF Sure
  <2>4. CASE i # 1
    <3>1. i - 1 \in 1..n /\ Tail(s)[i - 1] = s[i]
      BY <1>1, <2>4
    <3>2. \A j \in (i - 1)..n : Tail(s)[j].ev # "room.leave"
      BY <2>1, <2>2, <2>4
    <3>3. QED BY <2>1, <3>1, <3>2 DEF Sure
  <2>5. QED BY <2>3, <2>4
<1>3. CASE b /\ \A j \in 1..(n + 1) : s[j].ev # "room.leave"
  <2>1. c /\ \A j \in 1..n : j + 1 \in 1..(n + 1) /\ Tail(s)[j] = s[j + 1]
    BY <1>1, <1>3
  <2>2. QED BY <1>3, <2>1 DEF Sure
<1>4. QED BY <1>2, <1>3 DEF Sure

LEMMA SureAnyway ==
  ASSUME NEW s, NEW n, NEW b, NEW c, b => c, Sure(s, n, b)
  PROVE  Sure(s, n, c)
  BY DEF Sure

LEMMA SureEmpty ==
  ASSUME NEW b
  PROVE  Sure(<<>>, 0, b) <=> b
  BY DEF Sure

\* Without a room.leave, one room.join is enough.
LEMMA SureStays ==
  ASSUME NEW s \in Seq(Envelope), ~Has(s, "room.leave"), NEW b, NEW n \in 0..Len(s),
         b \/ \E i \in 1..n : s[i].ev = "room.join"
  PROVE  Sure(s, n, b)
<1>1. \A j \in 1..n : s[j].ev # "room.leave"
  BY DEF Has
<1>2. QED BY <1>1 DEF Sure

-----------------------------------------------------------------------------
(* What a step of the server does to the connections of a member. *)

Refusal(e) == e.ev = "chat.error" /\ e.reason = "not_in_room"
Joining(g) == serving[g].step = "join"

Still(h) ==
    /\ up'[h] = up[h] /\ down'[h] = down[h]
    /\ sub'[h] = sub[h] /\ (Base(h)' <=> Base(h)) /\ (Joining(h)' <=> Joining(h))

\* Something is answered at most.
Plain(g) ==
    /\ up'[g] = up[g]
    /\ sub'[g] = sub[g] /\ (Base(g)' <=> Base(g)) /\ (Joining(g)' <=> Joining(g))
    /\ \/ down'[g] = down[g]
       \/ \E e \in Envelope : /\ e.ev # "room.joined" /\ ~Refusal(e)
                              /\ down'[g] = Append(down[g], e)

Joins(g) ==
    /\ up'[g] = up[g] /\ Joining(g) /\ ~Joining(g)' /\ sub'[g]
    /\ down'[g] = Append(down[g], [ev |-> "room.joined"])

TakesJoin(g) == Head(up[g]).ev = "room.join" /\ Joining(g)' /\ sub'[g] = sub[g] /\ down'[g] = down[g]

TakesLeave(g) == Head(up[g]).ev = "room.leave" /\ ~Joining(g)' /\ ~sub'[g] /\ down'[g] = down[g]

TakesSend(g) ==
    /\ Head(up[g]).ev = "chat.send" /\ ~Joining(g)' /\ sub'[g] = sub[g]
    /\ \/ down'[g] = down[g]
       \/ \E e \in Envelope : /\ e.ev = "chat.error" /\ e.id = Head(up[g]).id
                              /\ Refusal(e) => ~sub[g]
                              /\ down'[g] = Append(down[g], e)

Takes(g) ==
    /\ up[g] # <<>> /\ up'[g] = Tail(up[g])
    /\ ~Joining(g) /\ conn[g] = "open" /\ conn'[g] = "open"
    /\ TakesJoin(g) \/ TakesLeave(g) \/ TakesSend(g)

Drops(g) ==
    /\ up'[g] = <<>> /\ down'[g] = <<>>
    /\ conn'[g] = "closed" /\ ~Joining(g)' /\ ~sub'[g]

\* The four kinds of step.
Kind(g) == Plain(g) \/ Joins(g) \/ Takes(g) \/ Drops(g)

Elsewhere(g) == \A h \in Gens : h # g => Still(h)

LEMMA OpeningKinds ==
  ASSUME TypeOK, NEW g \in Gens, Break(g) \/ Register(g) \/ Unregister(g)
  PROVE  Elsewhere(g) /\ (Plain(g) \/ Drops(g))
<1>1. CASE Break(g)
  BY <1>1 DEF Break, server, Elsewhere, Still, Plain, Base, Joining
<1>2. CASE Register(g)
  <2>1. [ev |-> "connected"] \in Envelope /\ ~Refusal([ev |-> "connected"])
    BY Envelopes DEF Refusal
  <2>2. /\ UNCHANGED <<up, sub, serving>> /\ down' = [down EXCEPT ![g] = Append(@, [ev |-> "connected"])]
        /\ conn[g] = "none" /\ conn' = [conn EXCEPT ![g] = "open"]
    BY <1>2 DEF Register, Reply
  <2>3. Elsewhere(g)
    BY <2>2 DEF TypeOK, Elsewhere, Still, Base, Joining
  <2>4. Plain(g)
    BY <2>1, <2>2 DEF TypeOK, Plain, Base, Joining
  <2>5. QED BY <2>3, <2>4
<1>3. CASE Unregister(g)
  <2>1. Elsewhere(g)
    BY <1>3 DEF Unregister, TypeOK, Elsewhere, Still, Base, Joining
  <2>2. Drops(g)
    BY <1>3 DEF Unregister, TypeOK, Drops, Joining, Idle
  <2>3. QED BY <2>1, <2>2
<1>4. QED BY <1>1, <1>2, <1>3

LEMMA ReadingKinds ==
  ASSUME TypeOK, IsMember, NEW g \in Gens,
         HandleRoomJoin(g) \/ HandleRoomLeave(g) \/ HandleChatSend(g)
  PROVE  Elsewhere(g) /\ Takes(g)
<1>1. /\ up[g] # <<>> /\ up' = [up EXCEPT ![g] = Tail(@)] /\ UNCHANGED conn
      /\ conn[g] = "open" /\ serving[g] = Idle
  BY DEF HandleRoomJoin, HandleRoomLeave, HandleChatSend, Reads
<1>2. up'[g] = Tail(up[g]) /\ ~Joining(g) /\ \A h \in Gens : h # g => up'[h] = up[h]
  BY <1>1 DEF TypeOK, Joining, Idle
<1>3. CASE HandleRoomJoin(g)
  <2>1. /\ Head(up[g]).ev = "room.join" /\ UNCHANGED <<down, sub>>
        /\ serving' = [serving EXCEPT ![g] = [step |-> "join"]]
    BY <1>3 DEF HandleRoomJoin, Reads
  <2>2. TakesJoin(g)
    BY <2>1 DEF TypeOK, TakesJoin, Joining
  <2>3. Elsewhere(g)
    BY <1>1, <1>2, <2>1 DEF TypeOK, Elsewhere, Still, Base, Joining
  <2>4. QED BY <1>1, <1>2, <2>2, <2>3 DEF Takes
<1>4. CASE HandleRoomLeave(g)
  <2>1. /\ Head(up[g]).ev = "room.leave" /\ UNCHANGED <<down, serving>>
        /\ sub' = [sub EXCEPT ![g] = FALSE]
    BY <1>4 DEF HandleRoomLeave, Reads
  <2>2. TakesLeave(g)
    BY <1>2, <2>1 DEF TypeOK, TakesLeave, Joining
  <2>3. Elsewhere(g)
    BY <1>1, <1>2, <2>1 DEF TypeOK, Elsewhere, Still, Base, Joining
  <2>4. QED BY <1>1, <1>2, <2>2, <2>3 DEF Takes
<1>5. CASE HandleChatSend(g)
  <2>1. PICK id : id = Head(up[g]).id
    OBVIOUS
  <2>2. /\ Head(up[g]).ev = "chat.send" /\ UNCHANGED sub
        /\ \/ UNCHANGED down /\ serving' = [serving EXCEPT ![g] = [step |-> "create", id |-> id]]
           \/ /\ Error(g, id, IF sub[g] THEN "not_stored" ELSE "not_in_room")
              /\ UNCHANGED serving
    BY <1>5, <2>1 DEF HandleChatSend, Reads
  <2>3. id \in Ids
    BY <1>1, <2>1, <2>2, Queues, Carried DEF TypeOK
  <2>4. \A h \in Gens : h # g => serving'[h] = serving[h] /\ down'[h] = down[h]
    BY <2>2 DEF TypeOK, Error, Reply
  <2>5. ~Joining(g)'
    BY <1>1, <2>2 DEF TypeOK, Joining, Idle
  <2>6. down'[g] = down[g] \/ \E e \in Envelope : /\ e.ev = "chat.error" /\ e.id = id
                                                  /\ Refusal(e) => ~sub[g]
                                                  /\ down'[g] = Append(down[g], e)
    <3>1. CASE UNCHANGED down
      BY <3>1
    <3>2. CASE Error(g, id, "not_stored") /\ sub[g]
      BY <2>3, <3>2, Envelopes DEF TypeOK, Error, Reply, Refusal
    <3>3. CASE Error(g, id, "not_in_room") /\ ~sub[g]
      BY <2>3, <3>3, Envelopes DEF TypeOK, Error, Reply, Refusal
    <3>4. QED BY <2>2, <3>1, <3>2, <3>3 DEF TypeOK
  <2>7. TakesSend(g)
    BY <2>1, <2>2, <2>5, <2>6 DEF TakesSend
  <2>8. Elsewhere(g)
    BY <1>1, <1>2, <2>2, <2>4 DEF Elsewhere, Still, Base, Joining
  <2>9. QED BY <1>1, <1>2, <2>7, <2>8 DEF Takes
<1>6. QED BY <1>3, <1>4, <1>5

LEMMA ServingKinds ==
  ASSUME TypeOK, NEW g \in Gens, Join(g) \/ Create(g) \/ Lookup(g) \/ BroadcastToRoom(g)
  PROVE  Elsewhere(g) /\ (Plain(g) \/ Joins(g))
<1>1. UNCHANGED <<up, conn>>
  BY DEF Join, Create, Lookup, BroadcastToRoom, At
<1>2. CASE Join(g)
  <2>1. /\ Joining(g) /\ serving' = [serving EXCEPT ![g] = Idle]
        /\ sub' = [sub EXCEPT ![g] = TRUE]
        /\ down' = [down EXCEPT ![g] = Append(@, [ev |-> "room.joined"])]
    BY <1>2 DEF Join, At, Joining, Reply
  <2>2. Joins(g)
    BY <1>1, <2>1 DEF TypeOK, Joins, Joining, Idle
  <2>3. Elsewhere(g)
    BY <1>1, <2>1 DEF TypeOK, Elsewhere, Still, Base, Joining
  <2>4. QED BY <2>2, <2>3
<1>3. CASE Create(g) \/ Lookup(g) \/ BroadcastToRoom(g)
  <2>1. serving[g].step \in {"create", "lookup", "broadcast"} /\ UNCHANGED sub
    BY <1>3 DEF Create, Lookup, BroadcastToRoom, At
  <2>2. serving[g].id \in Ids /\ serving[g] \in [step : Step, id : Ids]
    BY <2>1, Served
  <2>3. /\ \A h \in Gens : h # g => serving'[h] = serving[h]
        /\ serving'[g].step \in {"none", "lookup", "broadcast"}
    <3>1. \/ serving' = [serving EXCEPT ![g] = Idle]
          \/ serving' = [serving EXCEPT ![g].step = "lookup"]
          \/ serving' = [serving EXCEPT ![g].step = "broadcast"]
      BY <1>3 DEF Create, Lookup, BroadcastToRoom
    <3>2. QED BY <2>2, <3>1 DEF TypeOK, Idle
  <2>4. PICK id \in Ids : id = serving[g].id
    BY <2>2
  <2>5. UNCHANGED down \/ \E r \in {"not_stored", "lookup_failed"} : Error(g, id, r)
    BY <1>3, <2>4 DEF Create, Lookup, BroadcastToRoom
  <2>6. /\ \A h \in Gens : h # g => down'[h] = down[h]
        /\ \/ down'[g] = down[g]
           \/ \E e \in Envelope : /\ e.ev # "room.joined" /\ ~Refusal(e)
                                  /\ down'[g] = Append(down[g], e)
    <3>1. ASSUME NEW r \in {"not_stored", "lookup_failed"}, Error(g, id, r)
          PROVE  \E e \in Envelope : /\ e.ev # "room.joined" /\ ~Refusal(e)
                                     /\ down' = [down EXCEPT ![g] = Append(@, e)]
      <4>1. PICK e \in Envelope : e = [ev |-> "chat.error", id |-> id, reason |-> r]
        BY Envelopes
      <4>2. e.ev = "chat.error" /\ e.reason \in {"not_stored", "lookup_failed"}
        BY <4>1
      <4>3. QED BY <3>1, <4>1, <4>2 DEF Error, Reply, Refusal
    <3>2. QED BY <2>5, <3>1 DEF TypeOK
  <2>7. Elsewhere(g)
    BY <1>1, <2>1, <2>3, <2>6 DEF Elsewhere, Still, Base, Joining
  <2>8. Plain(g)
    BY <1>1, <2>1, <2>3, <2>6 DEF Plain, Base, Joining
  <2>9. QED BY <2>7, <2>8
<1>4. QED BY <1>2, <1>3

LEMMA RunningKinds ==
  ASSUME TypeOK, RunBroadcast
  PROVE  \E g \in Gens : Elsewhere(g) /\ Plain(g)
<1>1. UNCHANGED <<up, conn, sub, serving>>
  BY DEF RunBroadcast
<1>2. CASE clients # 0 /\ sub[clients]
  <2>1. PICK e \in Envelope : e = [ev |-> "chat.message", id |-> running]
    BY Envelopes DEF RunBroadcast, TypeOK
  <2>2. PICK g \in Gens : g = clients
    BY <1>2 DEF TypeOK, Gens
  <2>3. down' = [down EXCEPT ![g] = Append(@, e)] /\ e.ev = "chat.message"
    BY <1>2, <2>1, <2>2 DEF RunBroadcast, Reply
  <2>4. Elsewhere(g) /\ Plain(g)
    BY <1>1, <2>3 DEF TypeOK, Elsewhere, Still, Plain, Base, Joining, Refusal
  <2>5. QED BY <2>4
<1>3. CASE UNCHANGED down
  <2>1. PICK g \in Gens : TRUE
    BY DEF TypeOK
  <2>2. QED BY <1>1, <1>3, <2>1 DEF Elsewhere, Still, Plain, Base, Joining
<1>4. QED BY <1>2, <1>3 DEF RunBroadcast

LEMMA ServerKinds ==
  ASSUME TypeOK, Server, IsMember'
  PROVE  /\ UNCHANGED <<client, crossed>> /\ IsMember
         /\ \E g \in Gens : Elsewhere(g) /\ Kind(g)
<1>1. ~KickMember /\ ~KickUnsub
  BY DEF KickMember, KickUnsub, IsMember
<1>2. UNCHANGED <<client, crossed, kick>>
  BY <1>1 DEF Server, Break, Register, Unregister, HandleRoomJoin, HandleRoomLeave, HandleChatSend,
              Reads, Join, Create, Lookup, BroadcastToRoom, At, RunBroadcast, server
<1>3. IsMember
  BY <1>2 DEF IsMember
<1>4. CASE RunBroadcast
  BY <1>2, <1>3, <1>4, RunningKinds DEF Kind
<1>5. ASSUME NEW g \in Gens, Break(g) \/ Register(g) \/ Unregister(g)
      PROVE  Elsewhere(g) /\ Kind(g)
  BY <1>5, OpeningKinds DEF Kind
<1>6. ASSUME NEW g \in Gens, HandleRoomJoin(g) \/ HandleRoomLeave(g) \/ HandleChatSend(g)
      PROVE  Elsewhere(g) /\ Kind(g)
  BY <1>3, <1>6, ReadingKinds DEF Kind
<1>7. ASSUME NEW g \in Gens, Join(g) \/ Create(g) \/ Lookup(g) \/ BroadcastToRoom(g)
      PROVE  Elsewhere(g) /\ Kind(g)
  BY <1>7, ServingKinds DEF Kind
<1>8. QED BY <1>1, <1>2, <1>3, <1>4, <1>5, <1>6, <1>7 DEF Server

-----------------------------------------------------------------------------
(* What becomes of the room, and of what is under way. *)

LEMMA UnansweredIs ==
  /\ \A g : Unanswered(g) <=> Joining(g) \/ Has(up[g], "room.join") \/ Has(down[g], "room.joined")
  /\ \A g : Unanswered(g)' <=> Joining(g)' \/ Has(up'[g], "room.join") \/ Has(down'[g], "room.joined")
  BY DEF Unanswered, Joining, Has

\* What a queue has when an envelope is added to it or taken from it.
LEMMA HasChanges ==
  ASSUME NEW s \in Seq(Envelope), NEW ev
  PROVE  /\ ~Has(<<>>, ev)
         /\ \A e \in Envelope : Has(Append(s, e), ev) <=> Has(s, ev) \/ e.ev = ev
         /\ s # <<>> => (Has(s, ev) <=> Head(s).ev = ev \/ Has(Tail(s), ev))
<1>1. ASSUME NEW e \in Envelope
      PROVE  Has(Append(s, e), ev) <=> Has(s, ev) \/ e.ev = ev
  <2>1. DOMAIN Append(s, e) = 1..(Len(s) + 1) /\ DOMAIN s = 1..Len(s) /\ Append(s, e)[Len(s) + 1] = e /\ Len(s) \in Nat
        /\ \A i \in 1..Len(s) : Append(s, e)[i] = s[i]
    OBVIOUS
  <2>2. QED BY <2>1 DEF Has
<1>2. ASSUME s # <<>>
      PROVE  Has(s, ev) <=> Head(s).ev = ev \/ Has(Tail(s), ev)
  <2>1. /\ DOMAIN Tail(s) = 1..(Len(s) - 1) /\ DOMAIN s = 1..Len(s) /\ Len(s) \in Nat \ {0} /\ Head(s) = s[1]
        /\ \A i \in DOMAIN Tail(s) : Tail(s)[i] = s[i + 1]
    BY <1>2
  <2>2. ASSUME NEW i \in DOMAIN s, s[i].ev = ev PROVE s[1].ev = ev \/ Has(Tail(s), ev)
    <3>1. i # 1 => i - 1 \in DOMAIN Tail(s) /\ Tail(s)[i - 1] = s[i]
      BY <2>1
    <3>2. QED BY <2>2, <3>1 DEF Has
  <2>3. ASSUME NEW i \in DOMAIN Tail(s), Tail(s)[i].ev = ev PROVE Has(s, ev)
    BY <2>1, <2>3 DEF Has
  <2>4. 1 \in DOMAIN s
    BY <2>1
  <2>5. QED BY <2>1, <2>2, <2>3, <2>4 DEF Has
<1>3. QED BY <1>1, <1>2 DEF Has

LEMMA InIs ==
  /\ \A g, i : In(g, i) <=> Sure(up[g], i, Base(g))
  /\ \A g, i : In(g, i)' <=> Sure(up'[g], i, Base(g)')
  /\ \A g : End(g) <=> Sure(up[g], Len(up[g]), Base(g))
  /\ \A g : End(g)' <=> Sure(up'[g], Len(up'[g]), Base(g)')
  /\ \A g : Settled(g) <=> (Unanswered(g) => End(g))
  /\ \A g : Settled(g)' <=> (Unanswered(g)' => End(g)')
  BY DEF In, End, Settled

\* What a connection's reader makes of the room is what the envelope it reads says.
LEMMA TakesBase ==
  ASSUME TypeOK, NEW g \in Gens, Takes(g)
  PROVE  /\ up[g] \in Seq(Envelope) /\ Len(up[g]) = Len(up'[g]) + 1 /\ Len(up'[g]) \in Nat
         /\ Base(g) <=> sub[g]
         /\ Head(up[g]).ev = "room.join" => Base(g)'
         /\ Base(g) /\ Head(up[g]).ev # "room.leave" => Base(g)'
<1>1. up[g] \in Seq(Envelope) /\ Len(up[g]) = Len(up'[g]) + 1 /\ Len(up'[g]) \in Nat
  BY DEF TypeOK, Takes
<1>2. Base(g) <=> sub[g]
  BY DEF Takes, Base, Joining
<1>3. /\ Head(up[g]).ev = "room.join" => Joining(g)'
      /\ Head(up[g]).ev # "room.leave" => Joining(g)' \/ sub'[g] = sub[g]
  BY DEF Takes, TakesJoin, TakesLeave, TakesSend
<1>4. Base(g)' <=> Joining(g)' \/ sub'[g] \/ conn'[g] = "closed"
  BY DEF Base, Joining
<1>5. QED BY <1>1, <1>2, <1>3, <1>4

\* A step that leaves the envelopes alone leaves the room as it will be.
LEMMA ServerIn ==
  ASSUME TypeOK, NEW g \in Gens, Still(g) \/ Kind(g)
  PROVE  \E d \in {0, 1} : \A j \in DOMAIN up'[g] :
            /\ j + d \in DOMAIN up[g] /\ up'[g][j] = up[g][j + d]
            /\ In(g, j + d) => In(g, j)'
<1>0. up[g] \in Seq(Envelope)
  BY DEF TypeOK
<1>1. CASE Still(g) \/ Plain(g) \/ Joins(g)
  <2>1. up'[g] = up[g] /\ (Base(g) => Base(g)')
    BY <1>1 DEF Still, Plain, Joins, Base, Joining
  <2>2. \A j \in DOMAIN up'[g] : In(g, j) => In(g, j)'
    BY <2>1, InIs, SureAnyway
  <2>3. \A j \in DOMAIN up'[g] : j + 0 = j
    BY <1>0, <2>1
  <2>4. QED BY <2>1, <2>2, <2>3
<1>2. CASE Takes(g)
  <2>1. /\ up[g] # <<>> /\ up'[g] = Tail(up[g])
        /\ \A j \in DOMAIN up'[g] : /\ j + 1 \in DOMAIN up[g] /\ up'[g][j] = up[g][j + 1]
                                    /\ j \in 0..Len(up'[g])
    BY <1>0, <1>2 DEF Takes
  <2>2. ASSUME NEW j \in DOMAIN up'[g], In(g, j + 1) PROVE In(g, j)'
    <3>1. Sure(up[g], j + 1, Base(g)) /\ j \in 0..Len(Tail(up[g]))
      BY <2>1, <2>2, InIs
    <3>2. Sure(Tail(up[g]), j, Base(g)')
      BY <1>0, <1>2, <2>1, <3>1, TakesBase, SureShrinks
    <3>3. QED BY <2>1, <3>2, InIs
  <2>3. QED BY <2>1, <2>2
<1>3. CASE Drops(g)
  BY <1>3 DEF Drops
<1>4. QED BY <1>1, <1>2, <1>3 DEF Kind

LEMMA ServerEnd ==
  ASSUME TypeOK, NEW g \in Gens, Still(g) \/ Kind(g), End(g)
  PROVE  End(g)'
<1>1. CASE Still(g) \/ Plain(g) \/ Joins(g)
  <2>1. up'[g] = up[g] /\ (Base(g) => Base(g)')
    BY <1>1 DEF Still, Plain, Joins, Base, Joining
  <2>2. QED BY <2>1, InIs, SureAnyway
<1>2. CASE Takes(g)
  <2>1. up[g] # <<>> /\ up'[g] = Tail(up[g]) /\ Len(up'[g]) \in 0..Len(Tail(up[g]))
    BY <1>2, TakesBase DEF Takes
  <2>2. QED BY <1>2, <2>1, TakesBase, InIs, SureShrinks
<1>3. CASE Drops(g)
  <2>1. up'[g] = <<>> /\ Len(up'[g]) = 0 /\ Base(g)'
    BY <1>3 DEF Drops, Base
  <2>2. QED BY <2>1, InIs, SureEmpty
<1>4. QED BY <1>1, <1>2, <1>3 DEF Kind

LEMMA ServerSettled ==
  ASSUME TypeOK, NEW g \in Gens, Still(g) \/ Kind(g), Settled(g)
  PROVE  Settled(g)'
<1>1. CASE Drops(g)
  <2>1. ~Unanswered(g)'
    BY <1>1, UnansweredIs, HasChanges DEF Drops, Has
  <2>2. QED BY <2>1, InIs
<1>2. CASE ~Drops(g)
  <2>1. up[g] \in Seq(Envelope) /\ down[g] \in Seq(Envelope)
    BY DEF TypeOK
  <2>2. ASSUME Unanswered(g)' PROVE Unanswered(g)
    <3>1. CASE Still(g)
      BY <2>2, <3>1, UnansweredIs DEF Still
    <3>2. CASE Plain(g)
      <4>1. CASE down'[g] = down[g]
        BY <2>2, <3>2, <4>1, UnansweredIs DEF Plain
      <4>2. ASSUME NEW e \in Envelope, e.ev # "room.joined", down'[g] = Append(down[g], e)
            PROVE  Unanswered(g)
        <5>1. Has(down'[g], "room.joined") => Has(down[g], "room.joined")
          BY <2>1, <4>2, HasChanges
        <5>2. QED BY <2>2, <3>2, <5>1, UnansweredIs DEF Plain
      <4>3. QED BY <3>2, <4>1, <4>2 DEF Plain
    <3>3. CASE Joins(g)
      BY <3>3, UnansweredIs DEF Joins
    <3>4. CASE Takes(g)
      <4>1. Has(up'[g], "room.join") => Has(up[g], "room.join")
        BY <2>1, <3>4, HasChanges DEF Takes
      <4>2. Joining(g)' => Head(up[g]).ev = "room.join"
        BY <3>4 DEF Takes, TakesJoin, TakesLeave, TakesSend
      <4>3. Head(up[g]).ev = "room.join" => Has(up[g], "room.join")
        BY <2>1, <3>4, HasChanges DEF Takes
      <4>4. Has(down'[g], "room.joined") => Has(down[g], "room.joined")
        <5>1. CASE down'[g] = down[g]
          BY <5>1
        <5>2. ASSUME NEW e \in Envelope, e.ev = "chat.error", down'[g] = Append(down[g], e)
              PROVE  Has(down'[g], "room.joined") => Has(down[g], "room.joined")
          BY <2>1, <5>2, HasChanges
        <5>3. QED BY <3>4, <5>1, <5>2 DEF Takes, TakesJoin, TakesLeave, TakesSend
      <4>5. QED BY <2>2, <4>1, <4>2, <4>3, <4>4, UnansweredIs
    <3>5. QED BY <1>2, <3>1, <3>2, <3>3, <3>4 DEF Kind
  <2>3. QED BY <2>2, ServerEnd, InIs
<1>3. QED BY <1>1, <1>2

-----------------------------------------------------------------------------
(* What a step of the client does to the connections. *)

Grows(g, E) == up'[g] = up[g] \/ \E e \in Envelope : e.ev \in E /\ up'[g] = Append(up[g], e)
Shrinks(g)  == down'[g] = down[g] \/ (down[g] # <<>> /\ down'[g] = Tail(down[g]))

\* What the client sends but when it leaves.
Speaks(g) == Grows(g, {"room.join", "chat.send"})

LEMMA SendGrows ==
  ASSUME TypeOK, NEW e \in Envelope, Send(e), NEW g \in Gens, NEW E, e.ev \in E
  PROVE  Grows(g, E) /\ (g # gen => up'[g] = up[g])
  BY DEF TypeOK, Send, Grows

LEMMA ClientKinds ==
  ASSUME TypeOK, Client
  PROVE  /\ UNCHANGED <<conn, sub, serving, kick>>
         /\ \A g \in Gens : /\ g # gen => up'[g] = up[g] /\ down'[g] = down[g]
                            /\ Shrinks(g)
                            /\ LeaveRoom => Grows(g, {"room.leave"})
                            /\ ~LeaveRoom => Speaks(g)
<1>1. UNCHANGED <<conn, sub, serving, kick>>
  BY DEF Client, SendChat, EnsureRoomJoined, SendChatOnce, Timeout, OnConnected, OnRoomJoined, OnJoinError,
         OnChatMessage, OnChatError, Receive, LeaveRoom, Done, Watchdog, GiveUp, Open, server
<1> SUFFICES ASSUME NEW g \in Gens
             PROVE  /\ g # gen => up'[g] = up[g] /\ down'[g] = down[g]
                    /\ Shrinks(g)
                    /\ LeaveRoom => Grows(g, {"room.leave"})
                    /\ ~LeaveRoom => Speaks(g)
  BY <1>1
<1>2. ASSUME UNCHANGED <<up, down>>
      PROVE  Shrinks(g) /\ Grows(g, {"room.leave"}) /\ Speaks(g)
  BY <1>2 DEF Shrinks, Grows, Speaks
<1>3. CASE LeaveRoom
  <2>1. Send([ev |-> "room.leave"]) /\ UNCHANGED down
    BY <1>3 DEF LeaveRoom
  <2>2. [ev |-> "room.leave"] \in Envelope
    BY Envelopes
  <2>3. Grows(g, {"room.leave"}) /\ (g # gen => up'[g] = up[g])
    BY <2>1, <2>2, SendGrows
  <2>4. QED BY <1>3, <2>1, <2>3 DEF Shrinks
<1>4. ASSUME NEW c \in Calls, SendChat(c) \/ Timeout(c)
      PROVE  Shrinks(g) /\ Speaks(g) /\ UNCHANGED <<up, down>>
  BY <1>2, <1>4 DEF SendChat, Timeout, wire
<1>5. ASSUME NEW c \in Calls, EnsureRoomJoined(c)
      PROVE  Shrinks(g) /\ Speaks(g) /\ (g # gen => up'[g] = up[g]) /\ UNCHANGED down
  <2>1. UNCHANGED down /\ (UNCHANGED up \/ Send([ev |-> "room.join"]))
    BY <1>5 DEF EnsureRoomJoined
  <2>2. [ev |-> "room.join"] \in Envelope
    BY Envelopes
  <2>3. Send([ev |-> "room.join"]) => Speaks(g) /\ (g # gen => up'[g] = up[g])
    BY <2>2, SendGrows DEF Speaks
  <2>4. QED BY <1>2, <2>1, <2>3 DEF Shrinks
<1>6. ASSUME NEW c \in Calls, SendChatOnce(c)
      PROVE  Shrinks(g) /\ Speaks(g) /\ (g # gen => up'[g] = up[g]) /\ UNCHANGED down
  <2>1. PICK e : e = [ev |-> "chat.send", id |-> <<c, call[c].attempt>>]
    OBVIOUS
  <2>2. e \in Envelope /\ e.ev = "chat.send"
    BY <2>1, Envelopes DEF TypeOK, Ids
  <2>3. UNCHANGED down /\ Send(e)
    BY <1>6, <2>1 DEF SendChatOnce
  <2>4. QED BY <2>2, <2>3, SendGrows DEF Speaks, Shrinks
<1>7. ASSUME NEW ev, Receive(ev)
      PROVE  Shrinks(g) /\ (g # gen => down'[g] = down[g])
  BY <1>7 DEF Receive, Shrinks, TypeOK
<1>8. CASE OnConnected
  <2>1. \/ UNCHANGED up
        \/ up' = [up EXCEPT ![gen] = Append(@, [ev |-> "room.join"])]
    BY <1>8 DEF OnConnected
  <2>2. [ev |-> "room.join"] \in Envelope
    BY Envelopes
  <2>3. Speaks(g) /\ (g # gen => up'[g] = up[g])
    BY <2>1, <2>2 DEF TypeOK, Speaks, Grows
  <2>4. ~LeaveRoom
    BY <1>8 DEF OnConnected, Receive, TypeOK, LeaveRoom
  <2>5. QED BY <1>7, <1>8, <2>3, <2>4 DEF OnConnected
<1>9. CASE OnRoomJoined \/ OnJoinError \/ OnChatMessage \/ OnChatError
  <2>1. UNCHANGED up
    BY <1>9 DEF OnRoomJoined, OnJoinError, OnChatMessage, OnChatError
  <2>2. Speaks(g) /\ Grows(g, {"room.leave"})
    BY <2>1 DEF Speaks, Grows
  <2>3. QED BY <1>7, <1>9, <2>1, <2>2 DEF OnRoomJoined, OnJoinError, OnChatMessage, OnChatError
<1>10. CASE Done \/ Watchdog \/ Open
  BY <1>2, <1>10 DEF Done, Watchdog, GiveUp, Open, wire
<1>11. (\E c \in Calls : SendChat(c) \/ EnsureRoomJoined(c) \/ SendChatOnce(c) \/ Timeout(c)) => ~LeaveRoom
  BY DEF SendChat, EnsureRoomJoined, SendChatOnce, Timeout, LeaveRoom, TypeOK
<1>12. QED BY <1>3, <1>4, <1>5, <1>6, <1>8, <1>9, <1>10, <1>11 DEF Client

\* What has been sent stays where it was, and so does the room it will be read in.
LEMMA ClientIn ==
  ASSUME TypeOK, Client, NEW g \in Gens
  PROVE  /\ up[g] \in Seq(Envelope) /\ (Base(g)' <=> Base(g)) /\ (Joining(g)' <=> Joining(g))
         /\ \A i \in DOMAIN up[g] : i \in DOMAIN up'[g] /\ up'[g][i] = up[g][i] /\ (In(g, i) => In(g, i)')
<1>1. up[g] \in Seq(Envelope) /\ (Base(g)' <=> Base(g)) /\ (Joining(g)' <=> Joining(g))
  BY ClientKinds DEF TypeOK, Base, Joining
<1>2. CASE up'[g] = up[g]
  BY <1>1, <1>2, InIs, SureAnyway
<1>3. ASSUME NEW e \in Envelope, up'[g] = Append(up[g], e)
      PROVE  \A i \in DOMAIN up[g] : i \in DOMAIN up'[g] /\ up'[g][i] = up[g][i] /\ (In(g, i) => In(g, i)')
  <2>1. \A i \in DOMAIN up[g] : i \in DOMAIN up'[g] /\ up'[g][i] = up[g][i] /\ i \in 0..Len(up[g])
    BY <1>1, <1>3
  <2>2. QED BY <1>1, <1>3, <2>1, InIs, SureGrows
<1>4. Grows(g, {"room.leave"}) \/ Speaks(g)
  BY ClientKinds
<1>5. QED BY <1>1, <1>2, <1>3, <1>4 DEF Grows, Speaks

LEMMA ClientEnd ==
  ASSUME TypeOK, Client, ~LeaveRoom, NEW g \in Gens
  PROVE  /\ End(g) => End(g)'
         /\ Settled(g) => Settled(g)'
<1>1. up[g] \in Seq(Envelope) /\ down[g] \in Seq(Envelope) /\ (Base(g)' <=> Base(g)) /\ (Joining(g)' <=> Joining(g))
  BY ClientIn DEF TypeOK
<1>2. Speaks(g) /\ Shrinks(g)
  BY ClientKinds
<1>3. Has(down'[g], "room.joined") => Has(down[g], "room.joined")
  BY <1>1, <1>2, HasChanges DEF Shrinks
<1>4. CASE up'[g] = up[g]
  <2>1. End(g) => End(g)'
    BY <1>1, <1>4, InIs, SureAnyway
  <2>2. Unanswered(g)' => Unanswered(g)
    BY <1>1, <1>3, <1>4, UnansweredIs
  <2>3. QED BY <2>1, <2>2, InIs
<1>5. ASSUME NEW e \in Envelope, e.ev = "room.join", up'[g] = Append(up[g], e)
      PROVE  End(g)'
  BY <1>1, <1>5, InIs, SureGrows
<1>6. ASSUME NEW e \in Envelope, e.ev = "chat.send", up'[g] = Append(up[g], e)
      PROVE  (End(g) => End(g)') /\ (Settled(g) => Settled(g)')
  <2>1. End(g) => End(g)'
    BY <1>1, <1>6, InIs, SureGrows
  <2>2. Has(up'[g], "room.join") => Has(up[g], "room.join")
    BY <1>1, <1>6, HasChanges
  <2>3. Unanswered(g)' => Unanswered(g)
    BY <1>1, <1>3, <2>2, UnansweredIs
  <2>4. QED BY <2>1, <2>3, InIs
<1>7. QED BY <1>2, <1>4, <1>5, <1>6, InIs DEF Speaks, Grows

\* Whoever leaves says so last.
LEMMA LeavingWire ==
  ASSUME TypeOK, LeaveRoom, NEW g \in Gens
  PROVE  /\ Unanswered(g)' <=> Unanswered(g)
         /\ g # gen \/ state # "connected" => up'[g] = up[g] /\ (End(g) => End(g)')
<1>1. up[g] \in Seq(Envelope) /\ (Base(g)' <=> Base(g)) /\ (Joining(g)' <=> Joining(g)) /\ UNCHANGED down
  BY ClientIn DEF LeaveRoom, Client
<1>2. g # gen \/ state # "connected" => up'[g] = up[g]
  BY DEF LeaveRoom, Send, TypeOK
<1>3. Has(up'[g], "room.join") <=> Has(up[g], "room.join")
  <2>1. Grows(g, {"room.leave"})
    BY ClientKinds DEF Client
  <2>2. ASSUME NEW e \in Envelope, e.ev = "room.leave", up'[g] = Append(up[g], e)
        PROVE  Has(up'[g], "room.join") <=> Has(up[g], "room.join")
    BY <1>1, <2>2, HasChanges
  <2>3. QED BY <2>1, <2>2 DEF Grows
<1>4. g # gen \/ state # "connected" => (End(g) => End(g)')
  BY <1>1, <1>2, InIs, SureAnyway
<1>5. QED BY <1>1, <1>2, <1>3, <1>4, UnansweredIs

-----------------------------------------------------------------------------
(* The room of a connection on which no room.leave has overtaken an answer. *)

Wired ==
    /\ timer => state = "disconnected"
    /\ state = "disconnected" => ~confirmed
    /\ \A g \in Gens : conn[g] = "closed" => broken[g]

\* The answer to a room.join that is to come will be true when it comes, and so is
\* the one the client has read.
Sound ==
    IsMember => \A g \in Gens : g \notin crossed => Settled(g) /\ (confirmed /\ g = gen => End(g))

LEMMA InitSound == Init => Wired /\ Sound
<1> SUFFICES ASSUME Init PROVE Wired /\ Sound
  OBVIOUS
<1>1. Wired
  BY DEF Init, Wired
<1>2. \A g \in Gens : ~Unanswered(g)
  BY UnansweredIs DEF Init, Joining, Idle, Has
<1>3. QED BY <1>1, <1>2, InIs DEF Init, Sound

LEMMA StepsWired == TypeOK /\ Wired /\ [Next]_vars => Wired'
<1> SUFFICES ASSUME TypeOK, Wired, [Next]_vars PROVE Wired'
  OBVIOUS
<1>1. CASE UNCHANGED vars
  BY <1>1 DEF Wired, vars, client, wire, server
<1>2. CASE Client
  <2>1. UNCHANGED conn /\ \A g \in Gens : broken[g] => broken'[g]
    BY <1>2 DEF Client, SendChat, EnsureRoomJoined, SendChatOnce, Timeout, OnConnected, OnRoomJoined, OnJoinError,
         OnChatMessage, OnChatError, Receive, LeaveRoom, Done, Watchdog, GiveUp, Open, server, wire, TypeOK
  <2>2. ASSUME NEW c \in Calls, SendChat(c) \/ EnsureRoomJoined(c) \/ SendChatOnce(c) \/ Timeout(c)
        PROVE  UNCHANGED <<timer, state, confirmed>>
    BY <2>2 DEF SendChat, EnsureRoomJoined, SendChatOnce, Timeout
  <2>3. CASE OnConnected \/ OnRoomJoined \/ OnJoinError \/ OnChatMessage \/ OnChatError
    <3>1. state # "disconnected" /\ UNCHANGED timer /\ state' # "disconnected"
      BY <2>3 DEF OnConnected, OnRoomJoined, OnJoinError, OnChatMessage, OnChatError, Receive, Listens
    <3>2. QED BY <2>1, <3>1 DEF Wired
  <2>4. CASE LeaveRoom \/ Done \/ Watchdog \/ Open
    <3>1. (timer' => state' = "disconnected") /\ (state' = "disconnected" => ~confirmed')
      BY <2>4 DEF LeaveRoom, Forget, Done, Watchdog, GiveUp, Open, Wired
    <3>2. QED BY <2>1, <3>1 DEF Wired
  <2>5. QED BY <1>2, <2>1, <2>2, <2>3, <2>4 DEF Client, Wired
<1>3. CASE Server
  <2>1. UNCHANGED <<timer, state, confirmed>>
    BY <1>3 DEF Server, Break, Register, Unregister, HandleRoomJoin, HandleRoomLeave, HandleChatSend, Reads,
                Join, Create, Lookup, BroadcastToRoom, At, RunBroadcast, KickMember, KickUnsub, client
  <2>2. ASSUME NEW g \in Gens, Break(g) \/ Register(g) \/ Unregister(g)
        PROVE  \A h \in Gens : conn'[h] = "closed" => broken'[h]
    BY <2>2 DEF Break, Register, Unregister, server, TypeOK, Wired
  <2>3. ASSUME NEW g \in Gens, \/ HandleRoomJoin(g) \/ HandleRoomLeave(g) \/ HandleChatSend(g)
                               \/ Join(g) \/ Create(g) \/ Lookup(g) \/ BroadcastToRoom(g)
        PROVE  UNCHANGED <<conn, broken>>
    BY <2>3 DEF HandleRoomJoin, HandleRoomLeave, HandleChatSend, Reads, Join, Create, Lookup, BroadcastToRoom, At
  <2>4. CASE RunBroadcast \/ KickMember \/ KickUnsub
    BY <2>1, <2>4 DEF RunBroadcast, KickMember, KickUnsub, wire, Wired
  <2>5. QED BY <1>3, <2>1, <2>2, <2>3, <2>4 DEF Server, Wired
<1>4. QED BY <1>1, <1>2, <1>3 DEF Next

LEMMA ClientSound ==
  ASSUME TypeOK, Wired, Sound, Client
  PROVE  Sound'
<1> SUFFICES ASSUME IsMember', NEW g \in Gens, g \notin crossed'
             PROVE  Settled(g)' /\ (confirmed' /\ g = gen' => End(g)')
  BY DEF Sound
<1>1. IsMember
  BY ClientKinds DEF IsMember
<1>2. CASE LeaveRoom
  <2>1. g \notin crossed /\ ~confirmed'
    BY <1>2 DEF LeaveRoom, Forget
  <2>2. CASE g = gen /\ state = "connected"
    <3>1. ~Unanswered(g)
      BY <1>2, <2>2 DEF LeaveRoom
    <3>2. QED BY <1>2, <2>1, <3>1, LeavingWire, InIs
  <2>3. CASE g # gen \/ state # "connected"
    BY <1>1, <1>2, <2>1, <2>3, LeavingWire, InIs DEF Sound
  <2>4. QED BY <2>2, <2>3
<1>3. CASE ~LeaveRoom
  <2>1. UNCHANGED crossed
    BY <1>3 DEF Client, SendChat, EnsureRoomJoined, SendChatOnce, Timeout, OnConnected, OnRoomJoined, OnJoinError,
         OnChatMessage, OnChatError, Receive, Done, Watchdog, GiveUp, Open
  <2>2. Settled(g) /\ (confirmed /\ g = gen => End(g))
    BY <1>1, <2>1 DEF Sound
  <2>3. Settled(g)' /\ (End(g) => End(g)')
    BY <1>3, <2>2, ClientEnd
  <2>4. ASSUME confirmed', g = gen' PROVE End(g)
    <3>1. CASE OnRoomJoined
      <4>1. g = gen /\ Next1.ev = "room.joined" /\ down[g] # <<>> /\ down[g] \in Seq(Envelope)
        BY <2>4, <3>1 DEF OnRoomJoined, Receive, TypeOK
      <4>2. Unanswered(g)
        BY <4>1, HasChanges, UnansweredIs DEF Next1
      <4>3. QED BY <2>2, <4>2, InIs
    <3>2. CASE ~OnRoomJoined
      <4>1. confirmed /\ g = gen
        BY <1>3, <2>4, <3>2 DEF Client, SendChat, EnsureRoomJoined, SendChatOnce, Timeout, OnConnected, OnJoinError,
           OnChatMessage, OnChatError, StillConfirmed, Receive, Done, Watchdog, GiveUp, Open, Wired
      <4>2. QED BY <2>2, <4>1
    <3>3. QED BY <3>1, <3>2
  <2>5. QED BY <2>3, <2>4
<1>4. QED BY <1>2, <1>3

LEMMA ServerSound ==
  ASSUME TypeOK, Sound, Server
  PROVE  Sound'
<1> SUFFICES ASSUME IsMember', NEW g \in Gens, g \notin crossed'
             PROVE  Settled(g)' /\ (confirmed' /\ g = gen' => End(g)')
  BY DEF Sound
<1>1. IsMember /\ UNCHANGED <<crossed, confirmed, gen>> /\ (Still(g) \/ Kind(g))
  BY ServerKinds DEF client, Elsewhere
<1>2. Settled(g) /\ (confirmed /\ g = gen => End(g))
  BY <1>1 DEF Sound
<1>3. QED BY <1>1, <1>2, ServerEnd, ServerSettled

LEMMA IdleSound == Sound /\ UNCHANGED vars => Sound'
<1> SUFFICES ASSUME Sound, UNCHANGED vars PROVE Sound'
  OBVIOUS
<1>1. /\ UNCHANGED <<up, down, sub, serving, conn, kick, confirmed, gen, crossed>>
      /\ \A g : (Base(g)' <=> Base(g)) /\ (Unanswered(g)' <=> Unanswered(g))
  BY DEF vars, client, wire, server, Base, Unanswered
<1>2. \A g : (End(g)' <=> End(g)) /\ (Settled(g)' <=> Settled(g))
  BY <1>1, InIs, SureAnyway
<1>3. QED BY <1>1, <1>2 DEF Sound, IsMember

RoomInv == IInv /\ Wired /\ Sound

LEMMA RoomStays == (Init => RoomInv) /\ (RoomInv /\ [Next]_vars => RoomInv')
<1>1. Init => RoomInv
  BY InitDelivers, InitSound DEF RoomInv
<1>2. ASSUME RoomInv, [Next]_vars PROVE RoomInv'
  <2>1. TypeOK /\ Wired /\ Sound /\ IInv
    BY <1>2 DEF RoomInv, IInv
  <2>2. IInv' /\ Wired'
    BY <1>2, <2>1, StepsDeliver, StepsWired
  <2>3. Sound'
    BY <1>2, <2>1, ClientSound, ServerSound, IdleSound DEF Next
  <2>4. QED BY <2>2, <2>3 DEF RoomInv
<1>3. QED BY <1>1, <1>2

LEMMA SoundIsEnough == RoomInv => ConfirmedIsSubscribed
<1> SUFFICES ASSUME TypeOK, Wired, Sound, confirmed, IsMember, Quiet(gen), ~broken[gen], gen \notin crossed
             PROVE  sub[gen]
  BY DEF RoomInv, IInv, ConfirmedIsSubscribed
<1>1. PICK g \in Gens : g = gen
  BY DEF TypeOK
<1>2. End(g) /\ up[g] = <<>> /\ serving[g] = Idle /\ conn[g] # "closed"
  BY <1>1 DEF Sound, Quiet, Wired
<1>3. Base(g) /\ ~Joining(g)
  BY <1>2, InIs, SureEmpty DEF Joining, Idle
<1>4. QED BY <1>1, <1>2, <1>3 DEF Base, Joining

\* Once both ends have read what the other sent, a member's client that takes the
\* room for joined is in the room for the server, but for connections on which
\* leaveRoom overtook the answer to a room.join (ws_service.dart:315, 528-541).
THEOREM ConfirmedIsTrue == Spec => []ConfirmedIsSubscribed
  BY RoomStays, SoundIsEnough, PTL DEF Spec

-----------------------------------------------------------------------------
(* Connections to come, and calls. *)

\* Nothing has happened on a connection that has not been opened.
Ahead ==
    \A g \in Gens : g > gen => /\ up[g] = <<>> /\ down[g] = <<>>
                               /\ conn[g] = "none" /\ ~sub[g] /\ serving[g] = Idle

LEMMA InitAhead == Init => Ahead
  BY DEF Init, Ahead

LEMMA StepsAhead == TypeOK /\ Ahead /\ [Next]_vars => Ahead'
<1> SUFFICES ASSUME TypeOK, Ahead, [Next]_vars PROVE Ahead'
  OBVIOUS
<1>1. CASE UNCHANGED vars
  BY <1>1 DEF Ahead, vars, client, wire, server
<1>2. CASE Client
  <2>1. gen' \in {gen, gen + 1}
    BY <1>2 DEF Client, SendChat, EnsureRoomJoined, SendChatOnce, Timeout, OnConnected, OnRoomJoined,
       OnJoinError, OnChatMessage, OnChatError, Receive, LeaveRoom, Done, Watchdog, GiveUp, Open
  <2>2. ASSUME NEW g \in Gens, g > gen'
        PROVE  g > gen /\ g # gen
    <3>1. gen \in Nat /\ g \in Nat
      BY SessionAssumption DEF TypeOK, Gens
    <3>2. QED BY <2>1, <2>2, <3>1
  <2>3. ASSUME NEW g \in Gens, g # gen
        PROVE  up'[g] = up[g] /\ down'[g] = down[g] /\ UNCHANGED <<conn, sub, serving>>
    BY <1>2, <2>3, ClientKinds
  <2>4. QED BY <2>2, <2>3 DEF Ahead
<1>3. CASE Server
  <2>1. UNCHANGED gen
    BY <1>3 DEF Server, Break, Register, Unregister, HandleRoomJoin, HandleRoomLeave, HandleChatSend, Reads,
                Join, Create, Lookup, BroadcastToRoom, At, RunBroadcast, KickMember, KickUnsub, client
  <2>2. ASSUME NEW h \in Gens, h > gen
        PROVE  /\ up[h] = <<>> /\ down[h] = <<>> /\ conn[h] = "none" /\ ~sub[h] /\ serving[h] = Idle
               /\ Idle.step = "none" /\ ~(h <= gen)
    <3>1. h \in Nat /\ gen \in Nat
      BY SessionAssumption DEF TypeOK, Gens
    <3>2. QED BY <2>2, <3>1 DEF Ahead, Idle
  <2>3. ASSUME NEW g \in Gens, Break(g) \/ Register(g) \/ Unregister(g), NEW h \in Gens, h > gen
        PROVE  /\ up'[h] = <<>> /\ down'[h] = <<>> /\ conn'[h] = "none" /\ ~sub'[h] /\ serving'[h] = Idle
    <3>1. /\ up[h] = <<>> /\ down[h] = <<>> /\ conn[h] = "none" /\ ~sub[h] /\ serving[h] = Idle /\ ~(h <= gen)
      BY <2>2, <2>3
    <3>2. h # g
      BY <2>3, <3>1 DEF Break, Register, Unregister
    <3>3. QED BY <2>3, <3>1, <3>2 DEF Break, Register, Unregister, Reply, server, TypeOK
  <2>4. ASSUME NEW g \in Gens, HandleRoomJoin(g) \/ HandleRoomLeave(g) \/ HandleChatSend(g), NEW h \in Gens, h > gen
        PROVE  /\ up'[h] = <<>> /\ down'[h] = <<>> /\ conn'[h] = "none" /\ ~sub'[h] /\ serving'[h] = Idle
    <3>1. /\ up[h] = <<>> /\ down[h] = <<>> /\ conn[h] = "none" /\ ~sub[h] /\ serving[h] = Idle
      BY <2>2, <2>4
    <3>2. h # g
      BY <2>4, <3>1 DEF HandleRoomJoin, HandleRoomLeave, HandleChatSend, Reads
    <3>3. QED BY <2>4, <3>1, <3>2 DEF HandleRoomJoin, HandleRoomLeave, HandleChatSend, Reads, Error, Reply, TypeOK
  <2>5. ASSUME NEW g \in Gens, Join(g) \/ Create(g) \/ Lookup(g) \/ BroadcastToRoom(g), NEW h \in Gens, h > gen
        PROVE  /\ up'[h] = <<>> /\ down'[h] = <<>> /\ conn'[h] = "none" /\ ~sub'[h] /\ serving'[h] = Idle
    <3>1. /\ up[h] = <<>> /\ down[h] = <<>> /\ conn[h] = "none" /\ ~sub[h] /\ serving[h] = Idle /\ Idle.step = "none"
      BY <2>2, <2>5
    <3>2. h # g
      BY <2>5, <3>1 DEF Join, Create, Lookup, BroadcastToRoom, At
    <3>3. QED BY <2>5, <3>1, <3>2 DEF Join, Create, Lookup, BroadcastToRoom, At, Error, Reply, TypeOK
  <2>6. ASSUME RunBroadcast \/ KickMember \/ KickUnsub, NEW h \in Gens, h > gen
        PROVE  /\ up'[h] = <<>> /\ down'[h] = <<>> /\ conn'[h] = "none" /\ ~sub'[h] /\ serving'[h] = Idle
    <3>1. /\ up[h] = <<>> /\ down[h] = <<>> /\ conn[h] = "none" /\ ~sub[h] /\ serving[h] = Idle
      BY <2>2, <2>6
    <3>2. CASE RunBroadcast
      BY <3>1, <3>2 DEF RunBroadcast, Reply, TypeOK
    <3>3. CASE KickMember \/ KickUnsub
      BY <3>1, <3>3 DEF KickMember, KickUnsub, wire, TypeOK
    <3>4. QED BY <2>6, <3>2, <3>3
  <2>7. QED BY <1>3, <2>1, <2>3, <2>4, <2>5, <2>6 DEF Server, Ahead
<1>4. QED BY <1>1, <1>2, <1>3 DEF Next

Again(c) == call[c].pc = "again" \/ call[c].attempt = 2

\* A refusal for not being in the room is what the client reads next.
ReadsRefusal(c) ==
    /\ OnChatError /\ Refusal(Next1)
    /\ Pending(Next1.id) /\ Next1.id[1] = c

LEMMA MovedTo ==
  ASSUME TypeOK, NEW cs, NEW pc \in CallPC, call' = Move(cs, pc), NEW c \in Calls
  PROVE  /\ call'[c].attempt = call[c].attempt
         /\ call'[c].pc = IF c \in cs THEN pc ELSE call[c].pc
  BY DEF TypeOK, Move

\* How a call gets where the room matters to it.
LEMMA ClientCalls ==
  ASSUME TypeOK, Client, NEW c \in Calls
  PROVE  /\ call'[c].attempt = 2 =>
               \/ call[c].attempt = 2
               \/ call[c].pc = "again" /\ joined' /\ call'[c].pc \notin {"join", "send"}
         /\ call'[c].pc = "again" => call[c].pc = "again" \/ (ReadsRefusal(c) /\ Next1.id[2] = 1)
         /\ call'[c].pc = "outside" => call[c].pc = "outside" \/ (ReadsRefusal(c) /\ Next1.id[2] # 1)
         /\ call'[c].pc # "idle" => call[c].pc # "idle" \/ joined'
         /\ call'[c].pc \in {"join", "send"} => call[c].pc \in {"join", "send"} \/ EnsureRoomJoined(c)
<1> DEFINE Goal == /\ call'[c].attempt = 2 =>
                         \/ call[c].attempt = 2
                         \/ call[c].pc = "again" /\ joined' /\ call'[c].pc \notin {"join", "send"}
                   /\ call'[c].pc = "again" => call[c].pc = "again" \/ (ReadsRefusal(c) /\ Next1.id[2] = 1)
                   /\ call'[c].pc = "outside" => call[c].pc = "outside" \/ (ReadsRefusal(c) /\ Next1.id[2] # 1)
                   /\ call'[c].pc # "idle" => call[c].pc # "idle" \/ joined'
                   /\ call'[c].pc \in {"join", "send"} => call[c].pc \in {"join", "send"} \/ EnsureRoomJoined(c)
<1> SUFFICES Goal
  OBVIOUS
<1>1. ASSUME NEW cs, NEW pc \in CallPC \ {"again", "outside"}, call' = Move(cs, pc),
             \A d \in cs \cap Calls : call[d].pc # "idle" /\ (pc \in {"join", "send"} => call[d].pc \in {"join", "send"})
      PROVE  Goal
  BY <1>1, MovedTo
<1>2. ASSUME NEW d \in Calls, SendChat(d) PROVE Goal
  <2>p. PICK pc : pc = IF state = "connected" THEN "ensure" ELSE "wait"
    OBVIOUS
  <2>n. PICK n : n = IF call[d].pc = "again" THEN 2 ELSE 1
    OBVIOUS
  <2>1. /\ joined' /\ call' = [call EXCEPT ![d].pc = pc, ![d].attempt = n]
        /\ n = 2 => call[d].pc = "again"
        /\ pc \in {"ensure", "wait"}
    BY <1>2, <2>p, <2>n DEF SendChat
  <2>2. c # d => call'[c] = call[c]
    BY <2>1 DEF TypeOK
  <2>3. c = d => call'[c].pc = pc /\ call'[c].attempt = n
    BY <2>1 DEF TypeOK
  <2>4. QED BY <2>1, <2>2, <2>3
<1>3. ASSUME NEW d \in Calls, EnsureRoomJoined(d) PROVE Goal
  <2>1. PICK pc \in {"send", "join"} : call' = Move({d}, pc) /\ call[d].pc = "ensure"
    BY <1>3 DEF EnsureRoomJoined
  <2>2. /\ call'[c].attempt = call[c].attempt
        /\ call'[c].pc = IF c \in {d} THEN pc ELSE call[c].pc
    BY <2>1, MovedTo, Pcs
  <2>3. QED BY <1>3, <2>1, <2>2
<1>4. ASSUME NEW d \in Calls, SendChatOnce(d) \/ Timeout(d) PROVE Goal
  <2>1. call[d].pc # "idle" /\ \E pc \in {"sent", "failed"} : call' = Move({d}, pc)
    BY <1>4 DEF SendChatOnce, Timeout
  <2>2. QED BY <1>1, <2>1, Pcs
<1>5. CASE LeaveRoom \/ OnConnected \/ OnRoomJoined \/ OnJoinError
  <2>1. \/ call' = Move(joining, "failed") \/ call' = Move(joining, "send")
        \/ call' = Move(Waiting("wait"), "ensure")
    BY <1>5 DEF LeaveRoom, OnConnected, OnRoomJoined, OnJoinError
  <2>2. /\ \A d \in joining : call[d].pc = "join"
        /\ \A d \in Waiting("wait") : call[d].pc = "wait"
    BY DEF TypeOK, Waiting
  <2>3. QED BY <1>1, <2>1, <2>2, Pcs
<1>6. CASE OnChatMessage
  <2>1. PICK d : d = Next1.id[1]
    OBVIOUS
  <2>2. call' = call \/ (call[d].pc = "sent" /\ call' = Move({d}, "ok"))
    BY <1>6, <2>1 DEF OnChatMessage, Pending
  <2>3. QED BY <1>1, <2>2, Pcs
<1>7. CASE OnChatError
  <2>1. CASE ~Pending(Next1.id)
    BY <1>7, <2>1 DEF OnChatError
  <2>2. CASE Pending(Next1.id)
    <3>1. PICK e \in Envelope : e = Next1 /\ e.ev = "chat.error"
      BY <1>7, Queues DEF OnChatError, Receive, Next1, TypeOK
    <3>2. e.reason \in {"not_in_room", "not_stored", "lookup_failed"}
      BY <3>1, Carried
    <3>3. CASE Retries(e.id, e.reason)
      <4>1. call' = Move({e.id[1]}, "again") /\ e.reason = "not_in_room" /\ e.id[2] = 1
        BY <1>7, <2>2, <3>1, <3>3 DEF OnChatError, Retries
      <4>2. c = e.id[1] => ReadsRefusal(c) /\ Next1.id[2] = 1
        BY <1>7, <2>2, <3>1, <4>1 DEF ReadsRefusal, Refusal
      <4>3. call[e.id[1]].pc = "sent"
        BY <2>2, <3>1 DEF Pending
      <4>4. PICK d : d = e.id[1]
        OBVIOUS
      <4>5. /\ call'[c].attempt = call[c].attempt
            /\ call'[c].pc = IF c \in {d} THEN "again" ELSE call[c].pc
        BY <4>1, <4>4, MovedTo, Pcs
      <4>6. QED BY <4>2, <4>3, <4>4, <4>5
    <3>4. CASE e.reason = "not_in_room" /\ ~Retries(e.id, e.reason)
      <4>1. call' = Move({e.id[1]}, "outside") /\ e.id[2] # 1
        BY <1>7, <2>2, <3>1, <3>4 DEF OnChatError, Retries
      <4>2. c = e.id[1] => ReadsRefusal(c) /\ Next1.id[2] # 1
        BY <1>7, <2>2, <3>1, <3>4, <4>1 DEF ReadsRefusal, Refusal
      <4>3. call[e.id[1]].pc = "sent"
        BY <2>2, <3>1 DEF Pending
      <4>4. PICK d : d = e.id[1]
        OBVIOUS
      <4>5. /\ call'[c].attempt = call[c].attempt
            /\ call'[c].pc = IF c \in {d} THEN "outside" ELSE call[c].pc
        BY <4>1, <4>4, MovedTo, Pcs
      <4>6. QED BY <4>2, <4>3, <4>4, <4>5
    <3>5. CASE e.reason \in {"not_stored", "lookup_failed"}
      <4>1. \E pc \in {"refused", "failed"} : call' = Move({e.id[1]}, pc)
        BY <1>7, <2>2, <3>1, <3>5 DEF OnChatError, Retries
      <4>2. call[e.id[1]].pc = "sent"
        BY <2>2, <3>1 DEF Pending
      <4>3. QED BY <1>1, <4>1, <4>2, Pcs
    <3>6. QED BY <3>2, <3>3, <3>4, <3>5
  <2>3. QED BY <2>1, <2>2
<1>8. CASE Done \/ Watchdog \/ Open
  <2>1. call' = call \/ call' = Move(Waiting("sent"), "failed")
    BY <1>8 DEF Done, Watchdog, GiveUp, Open
  <2>2. \A d \in Waiting("sent") : call[d].pc = "sent"
    BY DEF Waiting
  <2>3. QED BY <1>1, <2>1, <2>2, Pcs
<1>9. QED BY <1>2, <1>3, <1>4, <1>5, <1>6, <1>7, <1>8 DEF Client

-----------------------------------------------------------------------------
(* What is on its way to the client. *)

LEMMA ServerHas ==
  ASSUME TypeOK, NEW g \in Gens, Still(g) \/ Kind(g), NEW ev, Has(up'[g], ev)
  PROVE  Has(up[g], ev)
  BY ServerIn DEF Has

\* What the server answers: room.joined when the user is in the room, and a refusal
\* to a message that was not sure to find the user there.
LEMMA ServerDown ==
  ASSUME TypeOK, NEW g \in Gens, Still(g) \/ Kind(g), NEW i \in DOMAIN down'[g]
  PROVE  \/ i \in DOMAIN down[g] /\ down'[g][i] = down[g][i]
         \/ /\ i = Len(down'[g])
            /\ down'[g][i].ev = "room.joined" => sub'[g]
            /\ Refusal(down'[g][i]) => /\ 1 \in DOMAIN up[g] /\ up[g][1].ev = "chat.send" /\ ~In(g, 1)
                                       /\ down'[g][i].id = up[g][1].id
<1>1. down[g] \in Seq(Envelope) /\ up[g] \in Seq(Envelope)
  BY DEF TypeOK
<1>2. CASE down'[g] \in {down[g], <<>>}
  BY <1>2
<1>3. ASSUME NEW e \in Envelope, down'[g] = Append(down[g], e)
      PROVE  \/ i \in DOMAIN down[g] /\ down'[g][i] = down[g][i]
             \/ i = Len(down'[g]) /\ down'[g][i] = e
  <2>1. /\ DOMAIN down'[g] = 1..(Len(down[g]) + 1) /\ DOMAIN down[g] = 1..Len(down[g]) /\ Len(down[g]) \in Nat
        /\ Len(down'[g]) = Len(down[g]) + 1 /\ down'[g][Len(down[g]) + 1] = e
        /\ \A j \in DOMAIN down[g] : down'[g][j] = down[g][j]
    BY <1>1, <1>3
  <2>2. QED BY <2>1
<1>4. CASE Plain(g)
  BY <1>2, <1>3, <1>4 DEF Plain
<1>5. CASE Joins(g)
  <2>1. [ev |-> "room.joined"] \in Envelope /\ ~Refusal([ev |-> "room.joined"])
    BY Envelopes DEF Refusal
  <2>2. QED BY <1>3, <1>5, <2>1 DEF Joins
<1>6. CASE Takes(g) /\ TakesSend(g) /\ down'[g] # down[g]
  <2>1. PICK e \in Envelope : /\ e.ev = "chat.error" /\ e.id = Head(up[g]).id
                              /\ Refusal(e) => ~sub[g]
                              /\ down'[g] = Append(down[g], e)
    BY <1>6 DEF TakesSend
  <2>2. /\ up[g] # <<>> /\ 1 \in DOMAIN up[g] /\ up[g][1] = Head(up[g]) /\ up[g][1].ev = "chat.send"
    BY <1>1, <1>6 DEF Takes, TakesSend
  <2>3. ~sub[g] => ~In(g, 1)
    <3>1. Base(g) <=> sub[g]
      BY <1>6, TakesBase
    <3>2. QED BY <2>2, <3>1, InIs DEF Sure
  <2>4. QED BY <1>3, <2>1, <2>2, <2>3
<1>7. QED BY <1>2, <1>4, <1>5, <1>6 DEF Kind, Still, Takes, TakesJoin, TakesLeave, Drops

\* Without a room.leave to read, the server keeps the user in the room.
LEMMA ServerSub ==
  ASSUME TypeOK, NEW g \in Gens, Still(g) \/ Kind(g), sub[g], ~Has(up[g], "room.leave"), down'[g] # <<>>
  PROVE  sub'[g]
<1>1. CASE Takes(g)
  <2>1. Head(up[g]).ev # "room.leave"
    BY <1>1, HasChanges DEF Takes, TypeOK
  <2>2. QED BY <1>1, <2>1 DEF Takes, TakesJoin, TakesLeave, TakesSend
<1>2. CASE ~Takes(g)
  BY <1>2 DEF Still, Kind, Plain, Joins, Drops
<1>3. QED BY <1>1, <1>2

LEMMA ClientDown ==
  ASSUME TypeOK, Client, NEW g \in Gens
  PROVE  \E d \in {0, 1} : \A i \in DOMAIN down'[g] : i + d \in DOMAIN down[g] /\ down'[g][i] = down[g][i + d]
<1>1. down[g] \in Seq(Envelope) /\ Shrinks(g)
  BY ClientKinds DEF TypeOK
<1>2. CASE down'[g] = down[g]
  <2>1. \A i \in DOMAIN down'[g] : i + 0 = i
    BY <1>1, <1>2
  <2>2. QED BY <1>2, <2>1
<1>3. CASE down[g] # <<>> /\ down'[g] = Tail(down[g])
  <2>1. \A i \in DOMAIN down'[g] : i + 1 \in DOMAIN down[g] /\ down'[g][i] = down[g][i + 1]
    BY <1>1, <1>3
  <2>2. QED BY <2>1
<1>4. QED BY <1>1, <1>2, <1>3 DEF Shrinks

LEMMA ClientHas ==
  ASSUME TypeOK, Client, ~LeaveRoom, NEW g \in Gens, Has(up'[g], "room.leave")
  PROVE  Has(up[g], "room.leave")
<1>1. up[g] \in Seq(Envelope) /\ Speaks(g)
  BY ClientKinds DEF TypeOK
<1>2. ASSUME NEW e \in Envelope, e.ev \in {"room.join", "chat.send"}, up'[g] = Append(up[g], e)
      PROVE  Has(up[g], "room.leave")
  BY <1>1, <1>2, HasChanges
<1>3. QED BY <1>1, <1>2 DEF Speaks, Grows

-----------------------------------------------------------------------------
(* What the client may rely on when it sends. *)

Trusts(g) == g = gen /\ state = "connected" /\ confirmed => End(g)

\* A call past ensureRoomJoined, or waiting in it, has seen to it.
Minds(g, c) == g = gen /\ state = "connected" /\ call[c].pc \in {"join", "send"} => End(g)

LEMMA TrustIs ==
  /\ \A g : Trusts(g)' <=> (g = gen' /\ state' = "connected" /\ confirmed' => End(g)')
  /\ \A g, c : Minds(g, c)' <=> (g = gen' /\ state' = "connected" /\ call'[c].pc \in {"join", "send"} => End(g)')
  BY DEF Trusts, Minds

LEMMA ClientTrusts ==
  ASSUME TypeOK, Client, ~LeaveRoom, NEW g \in Gens, g = gen => Settled(g) /\ Trusts(g)
  PROVE  Trusts(g)'
<1> SUFFICES ASSUME g = gen', state' = "connected", confirmed' PROVE End(g)'
  BY TrustIs
<1>1. ~OnConnected /\ ~Open /\ ~Done /\ ~Watchdog /\ ~OnJoinError
  BY DEF OnConnected, Open, Done, Watchdog, GiveUp, OnJoinError
<1>2. g = gen /\ state = "connected"
  BY <1>1 DEF Client, SendChat, EnsureRoomJoined, SendChatOnce, Timeout, OnRoomJoined, OnChatMessage, OnChatError, Receive
<1>3. CASE OnRoomJoined
  <2>1. g = gen /\ Next1.ev = "room.joined" /\ down[g] # <<>> /\ down[g] \in Seq(Envelope)
    BY <1>2, <1>3 DEF OnRoomJoined, Receive, TypeOK
  <2>2. Unanswered(g)
    BY <2>1, HasChanges, UnansweredIs DEF Next1
  <2>3. QED BY <2>1, <2>2, InIs, ClientEnd
<1>4. CASE ~OnRoomJoined
  <2>1. confirmed
    BY <1>1, <1>4 DEF Client, SendChat, EnsureRoomJoined, SendChatOnce, Timeout, OnChatMessage, OnChatError, StillConfirmed
  <2>2. QED BY <1>2, <1>4, <2>1, ClientEnd DEF Trusts
<1>5. QED BY <1>3, <1>4

\* The join that is sent comes before whatever the call sends.
LEMMA SentJoin ==
  ASSUME TypeOK, Client, NEW g \in Gens, up'[g] = Append(up[g], [ev |-> "room.join"])
  PROVE  End(g)'
<1>1. PICK e \in Envelope : e = [ev |-> "room.join"]
  BY Envelopes
<1>2. up[g] \in Seq(Envelope) /\ (Base(g)' <=> Base(g))
  BY ClientIn
<1>3. QED BY <1>1, <1>2, InIs, SureGrows

LEMMA ClientMinds ==
  ASSUME TypeOK, Client, ~LeaveRoom, NEW g \in Gens, NEW c \in Calls,
         g = gen => Trusts(g) /\ Minds(g, c),
         call[c].pc \in {"join", "send"} => joined
  PROVE  Minds(g, c)'
<1> SUFFICES ASSUME g = gen', state' = "connected", call'[c].pc \in {"join", "send"} PROVE End(g)'
  BY TrustIs
<1>1. ~Open /\ ~Done /\ ~Watchdog
  BY DEF Open, Done, Watchdog, GiveUp
<1>2. g = gen
  BY <1>1 DEF Client, SendChat, EnsureRoomJoined, SendChatOnce, Timeout, OnRoomJoined, OnConnected, OnJoinError,
              OnChatMessage, OnChatError, Receive
<1>3. CASE EnsureRoomJoined(c)
  <2>1. state = "connected"
    BY <1>3 DEF EnsureRoomJoined
  <2>2. CASE confirmed
    BY <1>2, <2>1, <2>2, ClientEnd DEF Trusts
  <2>3. CASE ~confirmed
    <3>1. up'[g] = Append(up[g], [ev |-> "room.join"])
      BY <1>2, <1>3, <2>1, <2>3 DEF EnsureRoomJoined, Send, TypeOK
    <3>2. QED BY <3>1, SentJoin
  <2>4. QED BY <2>2, <2>3
<1>4. CASE call[c].pc \in {"join", "send"} /\ OnConnected
  <2>1. up'[g] = Append(up[g], [ev |-> "room.join"])
    BY <1>2, <1>4 DEF OnConnected, TypeOK
  <2>2. QED BY <2>1, SentJoin
<1>5. CASE call[c].pc \in {"join", "send"} /\ ~OnConnected
  <2>1. state = "connected"
    BY <1>1, <1>5 DEF Client, SendChat, EnsureRoomJoined, SendChatOnce, Timeout, OnRoomJoined, OnJoinError,
                      OnChatMessage, OnChatError
  <2>2. QED BY <1>2, <1>5, <2>1, ClientEnd DEF Minds
<1>6. QED BY <1>3, <1>4, <1>5, ClientCalls

-----------------------------------------------------------------------------
(* Whoever has not left is never refused. *)

StayedAt(g) ==
    /\ ~Has(up[g], "room.leave") /\ Settled(g) /\ Trusts(g)
    /\ \A i \in DOMAIN down[g] : ~Refusal(down[g][i])
    /\ \A i \in DOMAIN up[g] : up[g][i].ev = "chat.send" => In(g, i)

StayedCall(c) ==
    /\ ~Again(c) /\ call[c].pc # "outside" /\ (call[c].pc # "idle" => joined)
    /\ \A g \in Gens : Minds(g, c)

Stayed ==
    IsMember /\ leaves = 0 => (\A g \in Gens : StayedAt(g)) /\ (\A c \in Calls : StayedCall(c))

LEMMA StayedIs ==
  /\ \A g : StayedAt(g)' <=> /\ ~Has(up'[g], "room.leave") /\ Settled(g)' /\ Trusts(g)'
                             /\ \A i \in DOMAIN down'[g] : ~Refusal(down'[g][i])
                             /\ \A i \in DOMAIN up'[g] : up'[g][i].ev = "chat.send" => In(g, i)'
  /\ \A c : StayedCall(c)' <=> /\ ~Again(c)' /\ call'[c].pc # "outside" /\ (call'[c].pc # "idle" => joined')
                               /\ \A g \in Gens : Minds(g, c)'
  /\ \A c : Again(c)' <=> call'[c].pc = "again" \/ call'[c].attempt = 2
  BY DEF StayedAt, StayedCall, Again

LEMMA InitStayed == Init => Stayed
<1> SUFFICES ASSUME Init PROVE (\A g \in Gens : StayedAt(g)) /\ (\A c \in Calls : StayedCall(c))
  BY DEF Stayed
<1>1. ASSUME NEW g \in Gens PROVE StayedAt(g)
  <2>1. up[g] = <<>> /\ down[g] = <<>> /\ ~Joining(g) /\ ~confirmed
    BY DEF Init, Joining, Idle
  <2>2. QED BY <2>1, UnansweredIs, InIs, HasChanges DEF StayedAt, Has, Trusts
<1>2. ASSUME NEW c \in Calls PROVE StayedCall(c)
  BY DEF Init, StayedCall, Again, Minds
<1>3. QED BY <1>1, <1>2

LEMMA ServerStayed ==
  ASSUME TypeOK, Stayed, Server
  PROVE  Stayed'
<1> SUFFICES ASSUME IsMember', leaves' = 0
             PROVE  (\A g \in Gens : StayedAt(g)') /\ (\A c \in Calls : StayedCall(c)')
  BY DEF Stayed
<1>1. /\ IsMember /\ UNCHANGED <<state, gen, confirmed, joined, call, leaves>>
      /\ \A g \in Gens : Still(g) \/ Kind(g)
  BY ServerKinds DEF client, Elsewhere
<1>2. (\A g \in Gens : StayedAt(g)) /\ (\A c \in Calls : StayedCall(c))
  BY <1>1 DEF Stayed
<1>3. ASSUME NEW g \in Gens
      PROVE  Settled(g)' /\ Trusts(g)' /\ \A c \in Calls : Minds(g, c)'
  <2>1. Settled(g) /\ Trusts(g) /\ \A c \in Calls : Minds(g, c)
    BY <1>2 DEF StayedAt, StayedCall
  <2>2. Settled(g)' /\ (End(g) => End(g)')
    BY <1>1, <2>1, ServerEnd, ServerSettled
  <2>3. QED BY <1>1, <2>1, <2>2, TrustIs DEF Trusts, Minds
<1>4. ASSUME NEW g \in Gens PROVE StayedAt(g)'
  <2>1. ~Has(up'[g], "room.leave")
    BY <1>1, <1>2, ServerHas DEF StayedAt
  <2>2. ASSUME NEW i \in DOMAIN down'[g] PROVE ~Refusal(down'[g][i])
    BY <1>1, <1>2, ServerDown DEF StayedAt
  <2>3. ASSUME NEW i \in DOMAIN up'[g], up'[g][i].ev = "chat.send" PROVE In(g, i)'
    BY <1>1, <1>2, <2>3, ServerIn DEF StayedAt
  <2>4. QED BY <1>3, <2>1, <2>2, <2>3, StayedIs
<1>5. ASSUME NEW c \in Calls PROVE StayedCall(c)'
  BY <1>1, <1>2, <1>3, StayedIs DEF StayedCall, Again
<1>6. QED BY <1>4, <1>5

\* Whose message is new, sends it where the call has seen to the room.
LEMMA SentMessage ==
  ASSUME TypeOK, Client, NEW g \in Gens, NEW i \in DOMAIN up'[g], up'[g][i].ev = "chat.send", i \notin DOMAIN up[g]
  PROVE  \E c \in Calls : /\ call[c].pc = "send" /\ state = "connected" /\ g = gen /\ SendChatOnce(c)
                          /\ up'[g][i].id = <<c, call[c].attempt>>
                          /\ (End(g) => In(g, i)')
<1>1. up[g] \in Seq(Envelope) /\ (Base(g)' <=> Base(g))
  BY ClientIn
<1>2. up'[g] # up[g]
  OBVIOUS
<1>3. ASSUME NEW e \in Envelope, up'[g] = Append(up[g], e)
      PROVE  i = Len(up'[g]) /\ up'[g][i] = e
  <2>1. /\ DOMAIN up'[g] = 1..(Len(up[g]) + 1) /\ DOMAIN up[g] = 1..Len(up[g]) /\ Len(up[g]) \in Nat
        /\ Len(up'[g]) = Len(up[g]) + 1 /\ up'[g][Len(up[g]) + 1] = e
    BY <1>1, <1>3
  <2>2. QED BY <2>1
<1>4. \E e \in Envelope : up'[g] = Append(up[g], e)
  BY <1>2, ClientKinds DEF Grows, Speaks
<1>5. ASSUME NEW e \in Envelope, e.ev # "chat.send", up'[g] = Append(up[g], e)
      PROVE  FALSE
  BY <1>3, <1>5
<1>6. ~\E e \in {[ev |-> "room.join"], [ev |-> "room.leave"]} : up' = [up EXCEPT ![gen] = Append(@, e)]
  <2>1. ASSUME NEW ev \in {"room.join", "room.leave"}, up' = [up EXCEPT ![gen] = Append(@, [ev |-> ev])]
        PROVE  FALSE
    <3>1. PICK e \in Envelope : e = [ev |-> ev] /\ e.ev # "chat.send"
      BY <2>1, Envelopes
    <3>2. up'[g] = Append(up[g], e)
      BY <1>2, <2>1, <3>1 DEF TypeOK
    <3>3. QED BY <1>5, <3>1, <3>2
  <2>2. QED BY <2>1
<1>7. PICK c \in Calls : SendChatOnce(c)
  BY <1>2, <1>6 DEF Client, SendChat, EnsureRoomJoined, Timeout, OnConnected, OnRoomJoined, OnJoinError, Send,
         OnChatMessage, OnChatError, LeaveRoom, Done, Watchdog, GiveUp, Open, wire
<1>8. PICK e \in Envelope : e = [ev |-> "chat.send", id |-> <<c, call[c].attempt>>]
  BY Envelopes DEF TypeOK, Ids
<1>9. /\ call[c].pc = "send" /\ state = "connected" /\ g = gen /\ up'[g] = Append(up[g], e)
  BY <1>2, <1>7, <1>8 DEF SendChatOnce, Send, TypeOK
<1>10. i = Len(up'[g]) /\ up'[g][i].id = <<c, call[c].attempt>> /\ e.ev # "room.leave"
  BY <1>3, <1>8, <1>9
<1>11. End(g) => In(g, i)'
  BY <1>1, <1>9, <1>10, InIs, SureGrows
<1>12. QED BY <1>7, <1>9, <1>10, <1>11

LEMMA ClientStayed ==
  ASSUME TypeOK, Stayed, Client
  PROVE  Stayed'
<1> SUFFICES ASSUME IsMember', leaves' = 0
             PROVE  (\A g \in Gens : StayedAt(g)') /\ (\A c \in Calls : StayedCall(c)')
  BY DEF Stayed
<1>1. IsMember /\ leaves = 0 /\ ~LeaveRoom
  <2>1. IsMember
    BY ClientKinds DEF IsMember
  <2>2. leaves \in Nat
    BY SessionAssumption DEF TypeOK
  <2>3. ~LeaveRoom
    BY <2>2 DEF LeaveRoom
  <2>4. UNCHANGED leaves
    BY <2>3 DEF Client, SendChat, EnsureRoomJoined, SendChatOnce, Timeout, OnConnected, OnRoomJoined,
         OnJoinError, OnChatMessage, OnChatError, Receive, Done, Watchdog, GiveUp, Open
  <2>5. QED BY <2>1, <2>3, <2>4
<1>2. (\A g \in Gens : StayedAt(g)) /\ (\A c \in Calls : StayedCall(c))
  BY <1>1 DEF Stayed
<1>3. joined => joined'
  BY <1>1 DEF Client, SendChat, EnsureRoomJoined, SendChatOnce, Timeout, OnConnected, OnRoomJoined,
       OnJoinError, OnChatMessage, OnChatError, Receive, Done, Watchdog, GiveUp, Open
<1>4. ASSUME NEW g \in Gens PROVE StayedAt(g)'
  <2>1. ~Has(up'[g], "room.leave")
    BY <1>1, <1>2, ClientHas DEF StayedAt
  <2>2. Settled(g)' /\ Trusts(g)'
    BY <1>1, <1>2, ClientEnd, ClientTrusts DEF StayedAt
  <2>3. ASSUME NEW i \in DOMAIN down'[g] PROVE ~Refusal(down'[g][i])
    BY <1>2, ClientDown DEF StayedAt
  <2>4. ASSUME NEW i \in DOMAIN up'[g], up'[g][i].ev = "chat.send" PROVE In(g, i)'
    <3>1. CASE i \in DOMAIN up[g]
      BY <1>2, <2>4, <3>1, ClientIn DEF StayedAt
    <3>2. CASE i \notin DOMAIN up[g]
      <4>1. End(g) => In(g, i)'
        BY <2>4, <3>2, SentMessage
      <4>2. PICK c \in Calls : call[c].pc = "send" /\ state = "connected" /\ g = gen
        BY <2>4, <3>2, SentMessage
      <4>3. End(g)
        BY <1>2, <4>2 DEF StayedCall, Minds
      <4>4. QED BY <4>1, <4>3
    <3>3. QED BY <3>1, <3>2
  <2>5. QED BY <2>1, <2>2, <2>3, <2>4, StayedIs
<1>5. ASSUME NEW c \in Calls PROVE StayedCall(c)'
  <2>1. ~ReadsRefusal(c)
    <3>1. SUFFICES ASSUME ReadsRefusal(c) PROVE FALSE
      OBVIOUS
    <3>2. PICK g \in Gens : g = gen
      BY DEF TypeOK
    <3>3. down[g] # <<>> /\ Refusal(Head(down[g])) /\ down[g] \in Seq(Envelope)
      BY <3>1, <3>2 DEF ReadsRefusal, OnChatError, Receive, Next1, TypeOK
    <3>4. 1 \in DOMAIN down[g] /\ Head(down[g]) = down[g][1]
      BY <3>3
    <3>5. QED BY <1>2, <3>3, <3>4 DEF StayedAt
  <2>2. /\ ~Again(c) /\ call[c].pc # "outside" /\ (call[c].pc # "idle" => joined)
        /\ \A g \in Gens : Minds(g, c) /\ Trusts(g)
    BY <1>2 DEF StayedCall, StayedAt
  <2>3. ~Again(c)' /\ call'[c].pc # "outside" /\ (call'[c].pc # "idle" => joined')
    BY <1>3, <2>1, <2>2, ClientCalls, StayedIs DEF Again
  <2>4. ASSUME NEW g \in Gens PROVE Minds(g, c)'
    BY <1>1, <2>2, ClientMinds
  <2>5. QED BY <2>3, <2>4, StayedIs
<1>6. QED BY <1>4, <1>5

-----------------------------------------------------------------------------
(* Whoever has left once is refused once. *)

\* The messages that the room.leave has yet to overtake are sure of the room.
Overtakes(g, h) ==
    \A j \in DOMAIN up[g] : \A i \in DOMAIN up[h] :
        /\ up[g][j].ev = "room.leave" /\ up[h][i].ev = "chat.send"
        /\ h < g \/ (h = g /\ i < j)
        => In(h, i)

\* A refusal is that of a first attempt, comes when the room.leave has been read, and
\* an answer to room.join that follows it is true.
RefusedOnce(g) ==
    \A i \in DOMAIN down[g] : Refusal(down[g][i]) =>
        /\ down[g][i].id[2] = 1
        /\ \A h \in Gens : h >= g => ~Has(up[h], "room.leave")
        /\ \A j \in DOMAIN down[g] : j > i /\ down[g][j].ev = "room.joined" => sub[g]

\* A second attempt finds the user in the room.
SecondIn(g) ==
    \A i \in DOMAIN up[g] : up[g][i].ev = "chat.send" /\ up[g][i].id[2] = 2 => In(g, i)

LeftCall(c) ==
    /\ Again(c) => \A g \in Gens : g = gen => ~Has(up[g], "room.leave") /\ Settled(g) /\ Trusts(g)
    /\ call[c].attempt = 2 => joined /\ \A g \in Gens : Minds(g, c)
    /\ call[c].pc # "outside"

LeftOnce ==
    /\ \A g \in Gens : RefusedOnce(g) /\ SecondIn(g) /\ \A h \in Gens : Overtakes(g, h)
    /\ \A c \in Calls : LeftCall(c)

Left == IsMember /\ leaves = 1 => LeftOnce

LEMMA LeftIs ==
  /\ \A g, h : Overtakes(g, h)' <=>
        \A j \in DOMAIN up'[g] : \A i \in DOMAIN up'[h] :
            /\ up'[g][j].ev = "room.leave" /\ up'[h][i].ev = "chat.send"
            /\ h < g \/ (h = g /\ i < j)
            => In(h, i)'
  /\ \A g : RefusedOnce(g)' <=>
        \A i \in DOMAIN down'[g] : Refusal(down'[g][i]) =>
            /\ down'[g][i].id[2] = 1
            /\ \A h \in Gens : h >= g => ~Has(up'[h], "room.leave")
            /\ \A j \in DOMAIN down'[g] : j > i /\ down'[g][j].ev = "room.joined" => sub'[g]
  /\ \A g : SecondIn(g)' <=>
        \A i \in DOMAIN up'[g] : up'[g][i].ev = "chat.send" /\ up'[g][i].id[2] = 2 => In(g, i)'
  /\ \A c : LeftCall(c)' <=>
        /\ Again(c)' => \A g \in Gens : g = gen' => ~Has(up'[g], "room.leave") /\ Settled(g)' /\ Trusts(g)'
        /\ call'[c].attempt = 2 => joined' /\ \A g \in Gens : Minds(g, c)'
        /\ call'[c].pc # "outside"
  BY DEF Overtakes, RefusedOnce, SecondIn, LeftCall

LEMMA LeftOnceIs ==
  LeftOnce' <=> /\ \A g \in Gens : RefusedOnce(g)' /\ SecondIn(g)' /\ \A h \in Gens : Overtakes(g, h)'
                /\ \A c \in Calls : LeftCall(c)'
  BY DEF LeftOnce

\* Neither queue has an envelope more than it had.
LEMMA ServerOvertakes ==
  ASSUME TypeOK, TypeOK', NEW g \in Gens, NEW h \in Gens, Still(g) \/ Kind(g), Still(h) \/ Kind(h), Overtakes(g, h)
  PROVE  Overtakes(g, h)'
<1> SUFFICES ASSUME NEW j \in DOMAIN up'[g], NEW i \in DOMAIN up'[h],
                    up'[g][j].ev = "room.leave", up'[h][i].ev = "chat.send",
                    h < g \/ (h = g /\ i < j)
             PROVE  In(h, i)'
  BY LeftIs
<1>1. PICK d \in {0, 1} : \A k \in DOMAIN up'[g] : k + d \in DOMAIN up[g] /\ up'[g][k] = up[g][k + d]
                                                  /\ (In(g, k + d) => In(g, k)')
  BY ServerIn
<1>2. CASE h = g
  <2>1. i + d < j + d
    <3>1. i \in Nat /\ j \in Nat /\ i < j
      <4>1. h \in Nat /\ g \in Nat
        BY DEF Gens
      <4>2. up'[g] \in Seq(Envelope)
        BY DEF TypeOK
      <4>3. DOMAIN up'[g] \subseteq Nat
        BY <4>2
      <4>4. QED BY <1>2, <4>1, <4>3
    <3>2. QED BY <3>1
  <2>2. QED BY <1>1, <1>2, <2>1 DEF Overtakes
<1>3. CASE h # g
  <2>1. PICK b \in {0, 1} : \A k \in DOMAIN up'[h] : k + b \in DOMAIN up[h] /\ up'[h][k] = up[h][k + b]
                                                    /\ (In(h, k + b) => In(h, k)')
    BY ServerIn
  <2>2. QED BY <1>1, <1>3, <2>1 DEF Overtakes
<1>4. QED BY <1>2, <1>3

LEMMA ServerRefuses ==
  ASSUME TypeOK, TypeOK', LeftOnce, NEW g \in Gens, \A h \in Gens : Still(h) \/ Kind(h)
  PROVE  RefusedOnce(g)'
<1> SUFFICES ASSUME NEW i \in DOMAIN down'[g], Refusal(down'[g][i])
             PROVE  /\ down'[g][i].id[2] = 1
                    /\ \A h \in Gens : h >= g => ~Has(up'[h], "room.leave")
                    /\ \A j \in DOMAIN down'[g] : j > i /\ down'[g][j].ev = "room.joined" => sub'[g]
  BY LeftIs
<1>1. \A h \in Gens : ~Has(up[h], "room.leave") => ~Has(up'[h], "room.leave")
  BY ServerHas
<1>2. CASE i \in DOMAIN down[g] /\ down'[g][i] = down[g][i]
  <2>1. /\ down[g][i].id[2] = 1
        /\ \A h \in Gens : h >= g => ~Has(up[h], "room.leave")
        /\ \A j \in DOMAIN down[g] : j > i /\ down[g][j].ev = "room.joined" => sub[g]
    BY <1>2 DEF LeftOnce, RefusedOnce
  <2>2. ~Has(up[g], "room.leave") /\ down'[g] # <<>>
    <3>1. g >= g
      BY DEF Gens
    <3>2. QED BY <2>1, <3>1
  <2>3. ASSUME NEW j \in DOMAIN down'[g], j > i, down'[g][j].ev = "room.joined" PROVE sub'[g]
    <3>1. CASE j \in DOMAIN down[g] /\ down'[g][j] = down[g][j]
      BY <2>1, <2>2, <2>3, <3>1, ServerSub
    <3>2. QED BY <2>3, <3>1, ServerDown
  <2>4. QED BY <1>1, <1>2, <2>1, <2>3
<1>3. CASE /\ i = Len(down'[g])
           /\ 1 \in DOMAIN up[g] /\ up[g][1].ev = "chat.send" /\ ~In(g, 1)
           /\ down'[g][i].id = up[g][1].id
  <2>1. down'[g][i].id[2] = 1
    <3>1. up[g][1] \in Envelope
      BY <1>3 DEF TypeOK
    <3>2. up[g][1].id[2] \in {1, 2}
      BY <1>3, <3>1, Carried, IdParts
    <3>3. QED BY <1>3, <3>2 DEF LeftOnce, SecondIn
  <2>2. ASSUME NEW h \in Gens, h >= g, Has(up[h], "room.leave") PROVE FALSE
    <3>1. PICK j \in DOMAIN up[h] : up[h][j].ev = "room.leave"
      BY <2>2 DEF Has
    <3>2. h = g => 1 < j
      <4>1. up[h] \in Seq(Envelope)
        BY DEF TypeOK
      <4>2. j \in Nat \ {0}
        BY <3>1, <4>1
      <4>3. QED BY <1>3, <3>1, <4>2
    <3>3. g < h \/ g = h
      BY <2>2 DEF Gens
    <3>4. QED BY <1>3, <3>1, <3>2, <3>3 DEF LeftOnce, Overtakes
  <2>3. down'[g] \in Seq(Envelope)
    BY DEF TypeOK
  <2>4. \A j \in DOMAIN down'[g] : ~(j > i)
    BY <1>3, <2>3
  <2>5. QED BY <1>1, <2>1, <2>2, <2>4
<1>4. QED BY <1>2, <1>3, ServerDown

LEMMA ServerLeft ==
  ASSUME TypeOK, TypeOK', Left, Server
  PROVE  Left'
<1> SUFFICES ASSUME IsMember', leaves' = 1 PROVE LeftOnce'
  BY DEF Left
<1>1. /\ IsMember /\ UNCHANGED <<state, gen, confirmed, joined, call, leaves>>
      /\ \A g \in Gens : Still(g) \/ Kind(g)
  BY ServerKinds DEF client, Elsewhere
<1>2. LeftOnce
  BY <1>1 DEF Left
<1>3. ASSUME NEW g \in Gens PROVE RefusedOnce(g)' /\ \A h \in Gens : Overtakes(g, h)'
  BY <1>1, <1>2, ServerRefuses, ServerOvertakes DEF LeftOnce
<1>4. ASSUME NEW g \in Gens PROVE SecondIn(g)'
  BY <1>1, <1>2, ServerIn, LeftIs DEF LeftOnce, SecondIn
<1>5. ASSUME NEW c \in Calls PROVE LeftCall(c)'
  <2>1. LeftCall(c) /\ (Again(c)' <=> Again(c))
    BY <1>1, <1>2 DEF LeftOnce, Again
  <2>2. ASSUME Again(c), NEW g \in Gens, g = gen
        PROVE  ~Has(up'[g], "room.leave") /\ Settled(g)' /\ Trusts(g)'
    <3>1. ~Has(up[g], "room.leave") /\ Settled(g) /\ Trusts(g)
      BY <2>1, <2>2 DEF LeftCall
    <3>2. ~Has(up'[g], "room.leave") /\ Settled(g)' /\ (End(g) => End(g)')
      BY <1>1, <3>1, ServerHas, ServerSettled, ServerEnd
    <3>3. QED BY <1>1, <3>1, <3>2, TrustIs DEF Trusts
  <2>3. ASSUME NEW g \in Gens, Minds(g, c) PROVE Minds(g, c)'
    <3>1. End(g) => End(g)'
      BY <1>1, ServerEnd
    <3>2. QED BY <1>1, <2>3, <3>1, TrustIs DEF Minds
  <2>4. QED BY <1>1, <2>1, <2>2, <2>3, LeftIs DEF LeftCall
<1>6. QED BY <1>3, <1>4, <1>5, LeftOnceIs

\* What the client sends does not change what is to come.
LEMMA ClientOvertakes ==
  ASSUME TypeOK, TypeOK', Ahead, Client, ~LeaveRoom, NEW g \in Gens, NEW h \in Gens, Overtakes(g, h)
  PROVE  Overtakes(g, h)'
<1> SUFFICES ASSUME NEW j \in DOMAIN up'[g], NEW i \in DOMAIN up'[h],
                    up'[g][j].ev = "room.leave", up'[h][i].ev = "chat.send",
                    h < g \/ (h = g /\ i < j)
             PROVE  In(h, i)'
  BY LeftIs
<1>1. j \in DOMAIN up[g] /\ up'[g][j] = up[g][j]
  <2>1. up[g] \in Seq(Envelope) /\ Speaks(g)
    BY ClientKinds DEF TypeOK
  <2>2. ASSUME NEW e \in Envelope, e.ev \in {"room.join", "chat.send"}, up'[g] = Append(up[g], e)
        PROVE  j \in DOMAIN up[g] /\ up'[g][j] = up[g][j]
    <3>1. /\ DOMAIN up'[g] = 1..(Len(up[g]) + 1) /\ DOMAIN up[g] = 1..Len(up[g]) /\ Len(up[g]) \in Nat
          /\ up'[g][Len(up[g]) + 1] = e /\ \A k \in DOMAIN up[g] : up'[g][k] = up[g][k]
      BY <2>1, <2>2
    <3>2. j # Len(up[g]) + 1
      BY <2>2, <3>1
    <3>3. QED BY <3>1, <3>2
  <2>3. QED BY <2>1, <2>2 DEF Speaks, Grows
<1>2. CASE i \in DOMAIN up[h]
  <2>1. up'[h][i] = up[h][i] /\ (In(h, i) => In(h, i)')
    BY <1>2, ClientIn
  <2>2. QED BY <1>1, <1>2, <2>1 DEF Overtakes
<1>3. CASE i \notin DOMAIN up[h]
  <2>1. h = gen
    BY <1>3, SentMessage
  <2>2. g = h
    <3>1. up[g] # <<>>
      BY <1>1
    <3>2. QED BY <2>1, <3>1 DEF Ahead, Gens
  <2>3. i < j
    BY <2>2 DEF Gens
  <2>4. up[g] \in Seq(Envelope) /\ up'[g] \in Seq(Envelope)
    BY DEF TypeOK
  <2>5. i \in DOMAIN up[g]
    BY <1>1, <2>2, <2>3, <2>4
  <2>6. QED BY <1>3, <2>2, <2>5
<1>4. QED BY <1>2, <1>3

LEMMA ClientRefuses ==
  ASSUME TypeOK, TypeOK', Client, ~LeaveRoom, NEW g \in Gens, RefusedOnce(g)
  PROVE  RefusedOnce(g)'
<1> SUFFICES ASSUME NEW i \in DOMAIN down'[g], Refusal(down'[g][i])
             PROVE  /\ down'[g][i].id[2] = 1
                    /\ \A h \in Gens : h >= g => ~Has(up'[h], "room.leave")
                    /\ \A j \in DOMAIN down'[g] : j > i /\ down'[g][j].ev = "room.joined" => sub'[g]
  BY LeftIs
<1>1. PICK d \in {0, 1} : \A k \in DOMAIN down'[g] : k + d \in DOMAIN down[g] /\ down'[g][k] = down[g][k + d]
  BY ClientDown
<1>2. /\ down'[g][i].id[2] = 1
      /\ \A h \in Gens : h >= g => ~Has(up[h], "room.leave")
      /\ \A j \in DOMAIN down[g] : j > i + d /\ down[g][j].ev = "room.joined" => sub[g]
  BY <1>1 DEF RefusedOnce
<1>3. \A h \in Gens : h >= g => ~Has(up'[h], "room.leave")
  BY <1>2, ClientHas
<1>4. ASSUME NEW j \in DOMAIN down'[g], j > i, down'[g][j].ev = "room.joined" PROVE sub'[g]
  <2>1. down'[g] \in Seq(Envelope)
    BY DEF TypeOK
  <2>2. j + d > i + d
    BY <1>4, <2>1
  <2>3. sub[g]
    BY <1>1, <1>2, <1>4, <2>2
  <2>4. QED BY <2>3, ClientKinds
<1>5. QED BY <1>2, <1>3, <1>4

LEMMA ClientSecond ==
  ASSUME TypeOK, LeftOnce, Client, NEW g \in Gens
  PROVE  SecondIn(g)'
<1> SUFFICES ASSUME NEW i \in DOMAIN up'[g], up'[g][i].ev = "chat.send", up'[g][i].id[2] = 2
             PROVE  In(g, i)'
  BY LeftIs
<1>1. CASE i \in DOMAIN up[g]
  BY <1>1, ClientIn DEF LeftOnce, SecondIn
<1>2. CASE i \notin DOMAIN up[g]
  <2>1. PICK c \in Calls : /\ call[c].pc = "send" /\ state = "connected" /\ g = gen
                           /\ up'[g][i].id = <<c, call[c].attempt>>
                           /\ (End(g) => In(g, i)')
    BY <1>2, SentMessage
  <2>2. call[c].attempt = 2
    BY <2>1
  <2>3. End(g)
    BY <2>1, <2>2 DEF LeftOnce, LeftCall, Minds
  <2>4. QED BY <2>1, <2>3
<1>3. QED BY <1>1, <1>2

\* The refusal is the last that can be: the second attempt starts from nothing.
LEMMA RefusalRead ==
  ASSUME TypeOK, LeftOnce, NEW c \in Calls, ReadsRefusal(c), NEW g \in Gens, g = gen
  PROVE  /\ Next1.id[2] = 1 /\ ~Has(up[g], "room.leave") /\ Settled(g)
         /\ ~confirmed' /\ UNCHANGED gen
<1>1. down[g] # <<>> /\ Refusal(Head(down[g])) /\ down[g] \in Seq(Envelope) /\ up[g] \in Seq(Envelope)
  BY DEF ReadsRefusal, OnChatError, Receive, Next1, TypeOK
<1>2. 1 \in DOMAIN down[g] /\ Head(down[g]) = down[g][1] /\ DOMAIN down[g] = 1..Len(down[g]) /\ Len(down[g]) \in Nat
  BY <1>1
<1>3. g >= g
  BY DEF Gens
<1>4. /\ down[g][1].id[2] = 1 /\ ~Has(up[g], "room.leave")
      /\ \A j \in DOMAIN down[g] : j > 1 /\ down[g][j].ev = "room.joined" => sub[g]
  BY <1>1, <1>2, <1>3 DEF LeftOnce, RefusedOnce
<1>5. Settled(g)
  <2>1. CASE Joining(g) \/ Has(down[g], "room.joined")
    <3>1. ASSUME Has(down[g], "room.joined") PROVE sub[g]
      <4>1. PICK j \in DOMAIN down[g] : down[g][j].ev = "room.joined"
        BY <3>1 DEF Has
      <4>2. j # 1
        BY <1>1, <1>2, <4>1 DEF Refusal
      <4>3. j > 1
        BY <1>2, <4>2
      <4>4. QED BY <1>4, <4>1, <4>3
    <3>2. Base(g) /\ Len(up[g]) \in 0..Len(up[g])
      BY <1>1, <2>1, <3>1 DEF Base, Joining
    <3>3. End(g)
      BY <1>1, <1>4, <3>2, SureStays, InIs
    <3>4. QED BY <3>3, InIs
  <2>2. CASE Has(up[g], "room.join")
    <3>1. \E i \in 1..Len(up[g]) : up[g][i].ev = "room.join"
      BY <1>1, <2>2 DEF Has
    <3>2. Len(up[g]) \in 0..Len(up[g])
      BY <1>1
    <3>3. End(g)
      BY <1>1, <1>4, <3>1, <3>2, SureStays, InIs
    <3>4. QED BY <3>3, InIs
  <2>3. QED BY <2>1, <2>2, UnansweredIs, InIs
<1>6. Next1.id[2] = 1
  BY <1>2, <1>4 DEF Next1
<1>7. ~confirmed' /\ UNCHANGED gen
  BY <1>6 DEF ReadsRefusal, Refusal, OnChatError, StillConfirmed, Retries, Receive
<1>8. QED BY <1>4, <1>5, <1>6, <1>7

LEMMA ClientLeftCall ==
  ASSUME TypeOK, TypeOK', Ahead, LeftOnce, Client, ~LeaveRoom, NEW c \in Calls
  PROVE  LeftCall(c)'
<1>1. LeftCall(c)
  BY DEF LeftOnce
<1>2. PICK n \in Gens : n = gen
  BY DEF TypeOK
<1>3. joined => joined'
  BY DEF Client, SendChat, EnsureRoomJoined, SendChatOnce, Timeout, OnConnected, OnRoomJoined,
       OnJoinError, OnChatMessage, OnChatError, Receive, Done, Watchdog, GiveUp, Open
<1>4. call'[c].pc # "outside"
  BY <1>1, <1>2, RefusalRead, ClientCalls DEF LeftCall
<1>5. ASSUME Again(c)', NEW g \in Gens, g = gen'
      PROVE  ~Has(up'[g], "room.leave") /\ Settled(g)' /\ Trusts(g)'
  <2>1. CASE Open
    <3>1. g > gen /\ state' # "connected" /\ UNCHANGED <<up, down, sub, serving, conn>>
      BY <1>5, <2>1 DEF Open, wire, server, TypeOK, Gens
    <3>2. up'[g] = <<>> /\ down'[g] = <<>> /\ ~Joining(g)'
      BY <3>1 DEF Ahead, Joining, Idle
    <3>3. ~Unanswered(g)' /\ ~Has(up'[g], "room.leave")
      BY <3>2, UnansweredIs DEF Has
    <3>4. QED BY <3>1, <3>3, InIs, TrustIs
  <2>2. CASE ~Open
    <3>1. g = gen
      BY <1>5, <2>2 DEF Client, SendChat, EnsureRoomJoined, SendChatOnce, Timeout, OnConnected, OnRoomJoined,
           OnJoinError, OnChatMessage, OnChatError, Receive, Done, Watchdog, GiveUp
    <3>2. CASE Again(c)
      <4>1. ~Has(up[g], "room.leave") /\ Settled(g) /\ Trusts(g)
        BY <1>1, <3>1, <3>2 DEF LeftCall
      <4>2. QED BY <4>1, ClientHas, ClientEnd, ClientTrusts
    <3>3. CASE ~Again(c)
      <4>1. ReadsRefusal(c)
        BY <1>5, <3>3, ClientCalls, StayedIs DEF Again
      <4>2. ~Has(up[g], "room.leave") /\ Settled(g) /\ ~confirmed'
        BY <3>1, <4>1, RefusalRead
      <4>3. QED BY <4>2, ClientHas, ClientEnd, TrustIs
    <3>4. QED BY <3>2, <3>3
  <2>3. QED BY <2>1, <2>2
<1>6. ASSUME call'[c].attempt = 2 PROVE joined' /\ \A g \in Gens : Minds(g, c)'
  <2>1. CASE call[c].attempt = 2
    <3>1. joined /\ \A g \in Gens : Minds(g, c) /\ (g = gen => Trusts(g))
      BY <1>1, <2>1 DEF LeftCall, Again
    <3>2. QED BY <1>3, <3>1, ClientMinds
  <2>2. CASE joined' /\ call'[c].pc \notin {"join", "send"}
    BY <2>2, TrustIs
  <2>3. QED BY <1>6, <2>1, <2>2, ClientCalls
<1>7. QED BY <1>4, <1>5, <1>6, LeftIs

\* Whoever leaves for the first time has never been refused.
LEMMA FirstLeave ==
  ASSUME TypeOK, TypeOK', LeaveRoom, \A g \in Gens : StayedAt(g), \A c \in Calls : StayedCall(c)
  PROVE  LeftOnce'
<1>1. Client /\ UNCHANGED down
  BY DEF Client, LeaveRoom
<1>2. ASSUME NEW g \in Gens, NEW i \in DOMAIN up'[g], up'[g][i].ev = "chat.send"
      PROVE  In(g, i)'
  <2>1. CASE i \in DOMAIN up[g]
    BY <1>1, <1>2, <2>1, ClientIn DEF StayedAt
  <2>2. CASE i \notin DOMAIN up[g]
    <3>1. \E c \in Calls : SendChatOnce(c)
      BY <1>1, <1>2, <2>2, SentMessage
    <3>2. UNCHANGED leaves
      BY <3>1 DEF SendChatOnce
    <3>3. QED BY <3>2 DEF LeaveRoom, TypeOK
  <2>3. QED BY <2>1, <2>2
<1>3. ASSUME NEW g \in Gens PROVE SecondIn(g)' /\ \A h \in Gens : Overtakes(g, h)'
  BY <1>2, LeftIs
<1>4. ASSUME NEW g \in Gens PROVE RefusedOnce(g)'
  BY <1>1, LeftIs DEF StayedAt
<1>5. ASSUME NEW c \in Calls PROVE LeftCall(c)'
  <2>1. ~Again(c) /\ call[c].pc # "outside"
    BY DEF StayedCall
  <2>2. call'[c].attempt = call[c].attempt /\ call'[c].pc \in {call[c].pc, "failed"}
    BY MovedTo, Pcs DEF LeaveRoom
  <2>3. QED BY <2>1, <2>2, LeftIs, StayedIs DEF Again
<1>6. QED BY <1>3, <1>4, <1>5, LeftOnceIs

LEMMA ClientLeft ==
  ASSUME TypeOK, TypeOK', Ahead, Stayed, Left, Client
  PROVE  Left'
<1> SUFFICES ASSUME IsMember', leaves' = 1 PROVE LeftOnce'
  BY DEF Left
<1>1. IsMember /\ leaves \in Nat
  <2>1. IsMember
    BY ClientKinds DEF IsMember
  <2>2. leaves \in Nat
    BY SessionAssumption DEF TypeOK
  <2>3. QED BY <2>1, <2>2
<1>2. CASE LeaveRoom
  <2>1. leaves = 0
    BY <1>1, <1>2 DEF LeaveRoom
  <2>2. QED BY <1>1, <1>2, <2>1, FirstLeave DEF Stayed
<1>3. CASE ~LeaveRoom
  <2>1. UNCHANGED leaves
    BY <1>3 DEF Client, SendChat, EnsureRoomJoined, SendChatOnce, Timeout, OnConnected, OnRoomJoined,
         OnJoinError, OnChatMessage, OnChatError, Receive, Done, Watchdog, GiveUp, Open
  <2>2. LeftOnce
    BY <1>1, <2>1 DEF Left
  <2>3. ASSUME NEW g \in Gens
        PROVE  RefusedOnce(g)' /\ SecondIn(g)' /\ \A h \in Gens : Overtakes(g, h)'
    BY <1>3, <2>2, ClientRefuses, ClientSecond, ClientOvertakes DEF LeftOnce
  <2>4. ASSUME NEW c \in Calls PROVE LeftCall(c)'
    BY <1>3, <2>2, ClientLeftCall
  <2>5. QED BY <2>3, <2>4, LeftOnceIs
<1>4. QED BY <1>2, <1>3

LEMMA IdleLeft == Stayed /\ Left /\ UNCHANGED vars => Stayed' /\ Left'
<1> SUFFICES ASSUME Stayed, Left, UNCHANGED vars PROVE Stayed' /\ Left'
  OBVIOUS
<1>1. /\ UNCHANGED <<state, joined, leaves, call, up, down, sub, serving, conn, kick, confirmed, gen>>
      /\ \A g : (Base(g)' <=> Base(g)) /\ (Unanswered(g)' <=> Unanswered(g))
  BY DEF vars, client, wire, server, Base, Unanswered
<1>2. /\ \A g, i : In(g, i)' <=> In(g, i)
      /\ \A g : (End(g)' <=> End(g)) /\ (Settled(g)' <=> Settled(g))
  BY <1>1, InIs, SureAnyway
<1>3. /\ \A g : Trusts(g)' <=> Trusts(g)
      /\ \A g, c : Minds(g, c)' <=> Minds(g, c)
      /\ \A c : Again(c)' <=> Again(c)
  BY <1>1, <1>2, TrustIs, StayedIs DEF Trusts, Minds, Again
<1>4. /\ \A g : StayedAt(g) => StayedAt(g)'
      /\ \A c : StayedCall(c) => StayedCall(c)'
  BY <1>1, <1>2, <1>3, StayedIs DEF StayedAt, StayedCall
<1>5. /\ \A g, h : Overtakes(g, h) => Overtakes(g, h)'
      /\ \A g : (RefusedOnce(g) => RefusedOnce(g)') /\ (SecondIn(g) => SecondIn(g)')
      /\ \A c : LeftCall(c) => LeftCall(c)'
  BY <1>1, <1>2, <1>3, LeftIs DEF Overtakes, RefusedOnce, SecondIn, LeftCall
<1>6. Stayed'
  BY <1>1, <1>4 DEF Stayed, IsMember
<1>7. Left'
  BY <1>1, <1>5, LeftOnceIs DEF Left, LeftOnce, IsMember
<1>8. QED BY <1>6, <1>7

RetryInv == IInv /\ Ahead /\ Stayed /\ Left

LEMMA RetryStays == (Init => RetryInv) /\ (RetryInv /\ [Next]_vars => RetryInv')
<1>1. Init => RetryInv
  <2>1. Init => Left
    BY DEF Init, Left
  <2>2. QED BY <2>1, InitDelivers, InitAhead, InitStayed DEF RetryInv
<1>2. ASSUME RetryInv, [Next]_vars PROVE RetryInv'
  <2>1. TypeOK /\ Ahead /\ Stayed /\ Left /\ IInv
    BY <1>2 DEF RetryInv, IInv
  <2>2. IInv' /\ Ahead' /\ TypeOK'
    BY <1>2, <2>1, StepsDeliver, StepsAhead DEF IInv
  <2>3. Stayed' /\ Left'
    BY <1>2, <2>1, <2>2, ClientStayed, ServerStayed, ClientLeft, ServerLeft, IdleLeft DEF Next
  <2>4. QED BY <2>2, <2>3 DEF RetryInv
<1>3. QED BY <1>1, <1>2

LEMMA LeftIsEnough == RetryInv => RetrySuffices
<1> SUFFICES ASSUME TypeOK, Stayed, Left, NEW c \in Calls, call[c].pc = "outside", IsMember
             PROVE  leaves > 1
  BY DEF RetryInv, IInv, RetrySuffices
<1>1. leaves # 0
  BY DEF Stayed, StayedCall
<1>2. leaves # 1
  BY DEF Left, LeftOnce, LeftCall
<1>3. leaves \in Nat
  BY SessionAssumption DEF TypeOK
<1>4. QED BY <1>1, <1>2, <1>3

\* One leaveRoom does not cost a message: both attempts of a call find the user
\* outside the room only after a kick or a second leaveRoom (ws_service.dart:348-362).
THEOREM OneLeaveIsForgiven == Spec => []RetrySuffices
  BY RetryStays, LeftIsEnough, PTL DEF Spec
=============================================================================
