----------------------------- MODULE ChatProofs -----------------------------
(***************************************************************************)
(* ChatSession keeps what ChatDelivery promises, for any calls, any number *)
(* of connections and any faults: the refinement, step by step, and the    *)
(* invariant it needs, that of a message under way there is one copy.      *)
(***************************************************************************)
EXTENDS ChatSession, TLAPS, SequenceTheorems

-----------------------------------------------------------------------------
(* Queues and what is in them. *)

\* A queue to which something is added, or from which the first is taken.
LEMMA Queues ==
  ASSUME NEW S, NEW s \in Seq(S)
  PROVE  /\ \A e \in S : Append(s, e) \in Seq(S)
         /\ s # <<>> => Head(s) \in S /\ Tail(s) \in Seq(S)
  BY HeadTailProperties, AppendProperties

\* The envelopes that carry a message carry its identity, errors their reason.
LEMMA Carried ==
  ASSUME NEW e \in Envelope
  PROVE  /\ e.ev \in {"chat.send", "chat.message", "chat.error"} => e.id \in Ids
         /\ e.ev = "chat.error" => e.reason \in {"not_in_room", "not_stored", "lookup_failed"}
<1>1. CASE e \in [ev : {"connected", "room.join", "room.leave", "room.joined", "room.join_error"}]
  BY <1>1
<1>2. CASE e \in [ev : {"chat.send", "chat.message"}, id : Ids]
  BY <1>2
<1>3. CASE e \in [ev : {"chat.error"}, id : Ids, reason : {"not_in_room", "not_stored", "lookup_failed"}]
  BY <1>3
<1>4. QED BY <1>1, <1>2, <1>3 DEF Envelope

LEMMA Envelopes ==
  /\ \A ev \in {"connected", "room.join", "room.leave", "room.joined", "room.join_error"} : [ev |-> ev] \in Envelope
  /\ \A id \in Ids : /\ [ev |-> "chat.send", id |-> id] \in Envelope
                     /\ [ev |-> "chat.message", id |-> id] \in Envelope
                     /\ \A r \in {"not_in_room", "not_stored", "lookup_failed"} :
                           [ev |-> "chat.error", id |-> id, reason |-> r] \in Envelope
  BY DEF Envelope

\* What HandleMessage is at is known by its step.
LEMMA Served ==
  ASSUME TypeOK, NEW g \in Gens
  PROVE  /\ serving[g].step \in Step
         /\ serving[g].step \in {"create", "lookup", "broadcast"} =>
               serving[g].id \in Ids /\ serving[g] \in [step : Step, id : Ids]
  BY DEF TypeOK, Step

\* An identity is a call and an attempt.
LEMMA IdParts ==
  ASSUME NEW id \in Ids
  PROVE  id[1] \in Calls /\ id[2] \in {1, 2} /\ id = <<id[1], id[2]>> /\ id # NoId
  BY DEF Ids, NoId

-----------------------------------------------------------------------------
(* Typing, by parts. *)

ClientOK ==
    /\ state \in {"disconnected", "connecting", "connected"} /\ gen \in Gens
    /\ timer \in BOOLEAN /\ joined \in BOOLEAN /\ confirmed \in BOOLEAN
    /\ joining \subseteq Waiting("join")
    /\ call \in [Calls -> [pc : CallPC, attempt : {1, 2}]] /\ leaves \in 0..MaxLeaves

WireOK == up \in [Gens -> Seq(Envelope)] /\ down \in [Gens -> Seq(Envelope)] /\ broken \in [Gens -> BOOLEAN]

ServerOK ==
    /\ conn \in [Gens -> {"none", "open", "closed"}] /\ sub \in [Gens -> BOOLEAN]
    /\ serving \in [Gens -> [step : {"none", "join"}] \cup [step : Step, id : Ids]]
    /\ running \in Ids \cup {NoId}
    /\ clients \in 0..MaxGen /\ kick \in {"none", "removed", "done"}
    /\ stored \in [Calls -> 0..2]

LEMMA TypeParts ==
  /\ TypeOK <=> ClientOK /\ WireOK /\ ServerOK /\ crossed \subseteq Gens
  /\ TypeOK' <=> ClientOK' /\ WireOK' /\ ServerOK' /\ crossed' \subseteq Gens
  BY DEF TypeOK, ClientOK, WireOK, ServerOK

LEMMA PartsStay ==
  /\ ClientOK /\ UNCHANGED client => ClientOK'
  /\ WireOK /\ UNCHANGED wire => WireOK'
  /\ ServerOK /\ UNCHANGED server => ServerOK'
  BY DEF ClientOK, WireOK, ServerOK, client, wire, server, Waiting

\* Move changes where the calls it is given are, and nothing else.
LEMMA Moves ==
  ASSUME ClientOK, NEW cs \in SUBSET Calls, NEW pc \in CallPC, call' = Move(cs, pc)
  PROVE  /\ call' \in [Calls -> [pc : CallPC, attempt : {1, 2}]]
         /\ \A c \in Calls : /\ call'[c].pc = IF c \in cs THEN pc ELSE call[c].pc
                             /\ call'[c].attempt = call[c].attempt
  BY DEF ClientOK, Move

LEMMA MovesOne ==
  ASSUME ClientOK, NEW c \in Calls, NEW pc \in CallPC, call' = Move({c}, pc)
  PROVE  /\ call' \in [Calls -> [pc : CallPC, attempt : {1, 2}]]
         /\ call'[c].pc = pc /\ call'[c].attempt = call[c].attempt
         /\ \A d \in Calls : d # c => call'[d] = call[d]
  BY DEF ClientOK, Move

\* Where a call may be, for the steps that move one.
LEMMA Pcs == {"idle", "wait", "ensure", "join", "send", "sent", "again",
              "ok", "refused", "outside", "failed"} \subseteq CallPC
  BY DEF CallPC

LEMMA InitTypes == Init => TypeOK
<1> SUFFICES ASSUME Init PROVE TypeOK
  OBVIOUS
<1>1. ClientOK
  <2>1. call \in [Calls -> [pc : CallPC, attempt : {1, 2}]]
    BY Pcs DEF Init
  <2>2. gen \in Gens /\ leaves \in 0..MaxLeaves
    BY SessionAssumption DEF Init, Gens
  <2>3. joining \subseteq Waiting("join")
    BY DEF Init
  <2>4. QED BY <2>1, <2>2, <2>3 DEF Init, ClientOK
<1>2. WireOK
  BY DEF Init, WireOK
<1>3. ServerOK
  BY SessionAssumption DEF Init, ServerOK, Idle, Gens
<1>4. QED BY <1>1, <1>2, <1>3, TypeParts DEF Init

LEMMA Sends ==
  ASSUME ClientOK, WireOK, NEW e \in Envelope, Send(e)
  PROVE  up' \in [Gens -> Seq(Envelope)]
  BY Queues DEF ClientOK, WireOK, Send

LEMMA Replies ==
  ASSUME WireOK, NEW g \in Gens, NEW e \in Envelope, Reply(g, e)
  PROVE  down' \in [Gens -> Seq(Envelope)]
  BY Queues DEF WireOK, Reply

-----------------------------------------------------------------------------
(* The client's steps keep the types. *)

LEMMA CallStepTypes ==
  ASSUME TypeOK, NEW c \in Calls, SendChat(c) \/ EnsureRoomJoined(c) \/ SendChatOnce(c) \/ Timeout(c)
  PROVE  TypeOK'
<1>1. ClientOK /\ WireOK /\ ServerOK /\ crossed \subseteq Gens
  BY TypeParts
<1>2. CASE SendChat(c)
  <2>1. PICK pc \in CallPC, n \in {1, 2} : call' = [call EXCEPT ![c].pc = pc, ![c].attempt = n]
    BY <1>2 DEF SendChat, CallPC
  <2>2. call' \in [Calls -> [pc : CallPC, attempt : {1, 2}]] /\ \A d \in Calls \ {c} : call'[d] = call[d]
    BY <1>1, <2>1 DEF ClientOK
  <2>3. ClientOK'
    BY <1>1, <1>2, <2>2 DEF SendChat, ClientOK, Waiting
  <2>4. QED BY <1>1, <1>2, <2>3, PartsStay, TypeParts DEF SendChat
<1>3. CASE EnsureRoomJoined(c)
  <2>1. call' = Move({c}, "send") \/ call' = Move({c}, "join")
    BY <1>3 DEF EnsureRoomJoined
  <2>2. call' \in [Calls -> [pc : CallPC, attempt : {1, 2}]]
    BY <1>1, <2>1, MovesOne, Pcs
  <2>3. joining' \subseteq Waiting("join")'
    <3>1. \A d \in joining : d # c /\ d \in Calls /\ call[d].pc = "join"
      BY <1>1, <1>3 DEF ClientOK, Waiting, EnsureRoomJoined
    <3>2. CASE call' = Move({c}, "send") /\ joining' = joining
      BY <1>1, <3>1, <3>2, MovesOne, Pcs DEF Waiting
    <3>3. CASE call' = Move({c}, "join") /\ joining' = joining \cup {c}
      <4>1. /\ call'[c].pc = "join"
            /\ \A d \in Calls \ {c} : call'[d] = call[d]
        BY <1>1, <3>3, MovesOne, Pcs
      <4>2. QED BY <3>1, <3>3, <4>1 DEF Waiting
    <3>4. QED BY <1>3, <3>2, <3>3 DEF EnsureRoomJoined
  <2>4. ClientOK'
    BY <1>1, <1>3, <2>2, <2>3 DEF EnsureRoomJoined, ClientOK
  <2>5. up' \in [Gens -> Seq(Envelope)]
    BY <1>1, <1>3, Sends, Envelopes DEF EnsureRoomJoined, WireOK
  <2>6. WireOK'
    BY <1>1, <1>3, <2>5 DEF EnsureRoomJoined, WireOK
  <2>7. QED BY <1>1, <1>3, <2>4, <2>6, PartsStay, TypeParts DEF EnsureRoomJoined
<1>4. CASE SendChatOnce(c)
  <2>1. <<c, call[c].attempt>> \in Ids
    BY <1>1 DEF ClientOK, Ids
  <2>2. WireOK'
    BY <1>1, <1>4, <2>1, Sends, Envelopes DEF SendChatOnce, WireOK
  <2>3. ClientOK'
    <3>1. call' \in [Calls -> [pc : CallPC, attempt : {1, 2}]] /\ \A d \in Calls : call[d].pc = "join" => call'[d].pc = "join"
      <4>1. PICK pc \in {"sent", "failed"} : call' = Move({c}, pc)
        BY <1>4 DEF SendChatOnce
      <4>2. QED BY <1>1, <1>4, <4>1, MovesOne, Pcs DEF SendChatOnce
    <3>2. QED BY <1>1, <1>4, <3>1 DEF SendChatOnce, ClientOK, Waiting
  <2>4. QED BY <1>1, <1>4, <2>2, <2>3, PartsStay, TypeParts DEF SendChatOnce
<1>5. CASE Timeout(c)
  <2>1. call' \in [Calls -> [pc : CallPC, attempt : {1, 2}]] /\ \A d \in Calls : d # c => call'[d].pc = call[d].pc
    <3>1. call' = Move({c}, "failed")
      BY <1>5 DEF Timeout
    <3>2. QED BY <1>1, <3>1, MovesOne, Pcs
  <2>2. joining' \subseteq Waiting("join")'
    BY <1>1, <1>5, <2>1 DEF Timeout, StillJoining, ClientOK, Waiting
  <2>3. ClientOK'
    BY <1>1, <1>5, <2>1, <2>2 DEF Timeout, ClientOK
  <2>4. QED BY <1>1, <1>5, <2>3, PartsStay, TypeParts DEF Timeout
<1>6. QED BY <1>2, <1>3, <1>4, <1>5

LEMMA ReceiveTypes ==
  ASSUME TypeOK, OnConnected \/ OnRoomJoined \/ OnJoinError \/ OnChatMessage \/ OnChatError
  PROVE  TypeOK'
<1>1. ClientOK /\ WireOK /\ ServerOK /\ crossed \subseteq Gens
  BY TypeParts
<1>2. PICK ev : Receive(ev)
  BY DEF OnConnected, OnRoomJoined, OnJoinError, OnChatMessage, OnChatError
<1>3. down[gen] \in Seq(Envelope) /\ down[gen] # <<>> /\ gen \in Gens
  BY <1>1, <1>2 DEF Receive, ClientOK, WireOK
<1>4. Next1 \in Envelope /\ down' \in [Gens -> Seq(Envelope)]
  BY <1>1, <1>2, <1>3, Queues DEF Next1, Receive, WireOK
<1>5. UNCHANGED <<gen, timer, broken, server, leaves, crossed>>
  BY <1>2 DEF Receive
<1>6. up' \in [Gens -> Seq(Envelope)]
  <2>1. up' = up \/ up' = [up EXCEPT ![gen] = Append(@, [ev |-> "room.join"])]
    BY DEF OnConnected, OnRoomJoined, OnJoinError, OnChatMessage, OnChatError
  <2>2. Append(up[gen], [ev |-> "room.join"]) \in Seq(Envelope)
    BY <1>1, <1>3, Queues, Envelopes DEF WireOK
  <2>3. QED BY <1>1, <1>3, <2>1, <2>2 DEF WireOK
<1>7. WireOK'
  BY <1>1, <1>4, <1>5, <1>6 DEF WireOK
<1>8. /\ state' \in {"disconnected", "connecting", "connected"} /\ joined' \in BOOLEAN /\ confirmed' \in BOOLEAN
  BY <1>1 DEF ClientOK, OnConnected, OnRoomJoined, OnJoinError, OnChatMessage, OnChatError, StillConfirmed
<1>9. /\ call' \in [Calls -> [pc : CallPC, attempt : {1, 2}]]
      /\ \/ joining' = joining /\ (\A c \in Calls : call[c].pc = "join" => call'[c].pc = "join")
         \/ joining' = {}
  <2>1. CASE OnConnected
    <3>1. call' = Move(Waiting("wait"), "ensure") /\ joining' = joining
      BY <2>1 DEF OnConnected
    <3>2. QED BY <1>1, <3>1, Moves DEF CallPC, Waiting
  <2>2. CASE OnRoomJoined
    <3>1. call' = Move(joining, "send") /\ joining' = {} /\ joining \subseteq Calls
      BY <1>1, <2>2 DEF OnRoomJoined, ClientOK, Waiting
    <3>2. QED BY <1>1, <3>1, Moves DEF CallPC
  <2>3. CASE OnJoinError
    <3>1. call' = Move(joining, "failed") /\ joining' = {} /\ joining \subseteq Calls
      BY <1>1, <2>3 DEF OnJoinError, ClientOK, Waiting
    <3>2. QED BY <1>1, <3>1, Moves DEF CallPC
  <2>4. CASE OnChatMessage
    <3>1. Next1.id[1] \in Calls
      BY <1>4, <2>4, Carried, IdParts DEF OnChatMessage, Receive
    <3>2. CASE ~Pending(Next1.id)
      BY <1>1, <2>4, <3>2 DEF OnChatMessage, ClientOK
    <3>3. CASE Pending(Next1.id)
      <4>1. call' = Move({Next1.id[1]}, "ok") /\ joining' = joining /\ call[Next1.id[1]].pc = "sent"
        BY <2>4, <3>3 DEF OnChatMessage, Pending
      <4>2. QED BY <1>1, <3>1, <4>1, MovesOne, Pcs
    <3>4. QED BY <3>2, <3>3
  <2>5. CASE OnChatError
    <3>1. Next1.id[1] \in Calls /\ Next1.reason \in {"not_in_room", "not_stored", "lookup_failed"}
      BY <1>4, <2>5, Carried, IdParts DEF OnChatError, Receive
    <3>2. CASE ~Pending(Next1.id)
      BY <1>1, <2>5, <3>2 DEF OnChatError, ClientOK
    <3>3. CASE Pending(Next1.id)
      <4>1. PICK pc \in {"again", "failed", "outside", "refused"} : call' = Move({Next1.id[1]}, pc)
        BY <2>5, <3>1, <3>3 DEF OnChatError
      <4>2. joining' = joining /\ call[Next1.id[1]].pc = "sent"
        BY <2>5, <3>3 DEF OnChatError, Pending
      <4>3. QED BY <1>1, <3>1, <4>1, <4>2, MovesOne, Pcs
    <3>4. QED BY <3>2, <3>3
  <2>6. QED BY <2>1, <2>2, <2>3, <2>4, <2>5
<1>10. ClientOK'
  BY <1>1, <1>5, <1>8, <1>9 DEF ClientOK, Waiting
<1>11. QED BY <1>1, <1>5, <1>7, <1>10, PartsStay, TypeParts

LEMMA LeaveRoomTypes ==
  ASSUME TypeOK, LeaveRoom
  PROVE  TypeOK'
<1>1. ClientOK /\ WireOK /\ ServerOK /\ crossed \subseteq Gens
  BY TypeParts
<1>2. WireOK'
  BY <1>1, Sends, Envelopes DEF LeaveRoom, WireOK
<1>3. leaves' \in 0..MaxLeaves
  BY <1>1, SessionAssumption DEF LeaveRoom, ClientOK
<1>4. call' \in [Calls -> [pc : CallPC, attempt : {1, 2}]]
  <2>1. call' = Move(joining, "failed") /\ joining \subseteq Calls
    BY <1>1 DEF LeaveRoom, ClientOK, Waiting
  <2>2. QED BY <1>1, <2>1, Moves, Pcs
<1>5. ClientOK'
  BY <1>1, <1>3, <1>4 DEF LeaveRoom, Forget, ClientOK
<1>6. crossed' \subseteq Gens
  BY <1>1 DEF LeaveRoom, ClientOK
<1>7. QED BY <1>1, <1>2, <1>5, <1>6, PartsStay, TypeParts DEF LeaveRoom

LEMMA ConnectionTypes ==
  ASSUME TypeOK, Done \/ Watchdog \/ Open
  PROVE  TypeOK'
<1>1. ClientOK /\ WireOK /\ ServerOK /\ crossed \subseteq Gens
  BY TypeParts
<1>2. CASE GiveUp /\ (UNCHANGED broken \/ broken' = [broken EXCEPT ![gen] = TRUE])
  <2>1. PICK cs \in SUBSET Calls : call' = Move(cs, "failed") /\ \A c \in cs : call[c].pc = "sent"
    BY <1>2 DEF GiveUp, Waiting
  <2>2. /\ call' \in [Calls -> [pc : CallPC, attempt : {1, 2}]]
        /\ \A c \in Calls : call[c].pc = "join" => call'[c].pc = "join"
    BY <1>1, <2>1, Moves, Pcs
  <2>3. ClientOK'
    BY <1>1, <1>2, <2>2 DEF GiveUp, ClientOK, Waiting
  <2>4. WireOK'
    BY <1>1, <1>2 DEF GiveUp, WireOK
  <2>5. QED BY <1>1, <1>2, <2>3, <2>4, PartsStay, TypeParts DEF GiveUp
<1>3. CASE Open
  <2>1. gen' \in Gens
    BY <1>1, <1>3, SessionAssumption DEF Open, ClientOK, Gens
  <2>2. ClientOK'
    BY <1>1, <1>3, <2>1 DEF Open, ClientOK, Waiting
  <2>3. QED BY <1>1, <1>3, <2>2, PartsStay, TypeParts DEF Open
<1>4. QED BY <1>2, <1>3 DEF Done, Watchdog

-----------------------------------------------------------------------------
(* The server's steps keep the types. *)

LEMMA WireStepTypes ==
  ASSUME TypeOK, NEW g \in Gens, Break(g) \/ Register(g) \/ Unregister(g)
  PROVE  TypeOK'
<1>1. ClientOK /\ WireOK /\ ServerOK /\ crossed \subseteq Gens
  BY TypeParts
<1>2. g \in 0..MaxGen
  BY SessionAssumption DEF Gens
<1>3. CASE Break(g)
  <2>1. WireOK'
    BY <1>1, <1>3 DEF Break, WireOK
  <2>2. QED BY <1>1, <1>3, <2>1, PartsStay, TypeParts DEF Break
<1>4. CASE Register(g)
  <2>1. WireOK'
    BY <1>1, <1>4, Replies, Envelopes DEF Register, WireOK
  <2>2. ServerOK'
    BY <1>1, <1>2, <1>4 DEF Register, ServerOK
  <2>3. QED BY <1>1, <1>4, <2>1, <2>2, PartsStay, TypeParts DEF Register
<1>5. CASE Unregister(g)
  <2>1. WireOK'
    BY <1>1, <1>5 DEF Unregister, WireOK
  <2>2. 0 \in 0..MaxGen
    BY SessionAssumption
  <2>3. ServerOK'
    BY <1>1, <1>5, <2>2 DEF Unregister, ServerOK
  <2>4. QED BY <1>1, <1>5, <2>1, <2>3, PartsStay, TypeParts DEF Unregister
<1>6. QED BY <1>3, <1>4, <1>5

\* What a step of HandleMessage leaves is well formed.
LEMMA Steps ==
  ASSUME NEW id \in Ids
  PROVE  /\ Idle \in [step : {"none", "join"}] \cup [step : Step, id : Ids]
         /\ [step |-> "join"] \in [step : {"none", "join"}] \cup [step : Step, id : Ids]
         /\ \A st \in Step : [step |-> st, id |-> id] \in [step : {"none", "join"}] \cup [step : Step, id : Ids]
  BY DEF Idle, Step

LEMMA HandleTypes ==
  ASSUME TypeOK, NEW g \in Gens, HandleRoomJoin(g) \/ HandleRoomLeave(g) \/ HandleChatSend(g)
  PROVE  TypeOK'
<1>1. ClientOK /\ WireOK /\ ServerOK /\ crossed \subseteq Gens
  BY TypeParts
<1>2. PICK ev : Reads(g, ev)
  BY DEF HandleRoomJoin, HandleRoomLeave, HandleChatSend
<1>3. up[g] \in Seq(Envelope) /\ up[g] # <<>>
  BY <1>1, <1>2 DEF Reads, WireOK
<1>4. Head(up[g]) \in Envelope /\ up' \in [Gens -> Seq(Envelope)]
  BY <1>1, <1>2, <1>3, Queues DEF Reads, WireOK
<1>5. UNCHANGED <<client, broken, conn, running, clients, kick, stored, crossed>>
  BY <1>2 DEF Reads
<1>6. CASE HandleRoomJoin(g) \/ HandleRoomLeave(g)
  <2>1. down' \in [Gens -> Seq(Envelope)]
    BY <1>1, <1>6, Replies, Envelopes DEF HandleRoomJoin, HandleRoomLeave, WireOK
  <2>2. WireOK'
    BY <1>1, <1>4, <1>5, <2>1 DEF WireOK
  <2>3. serving' = serving \/ serving' = [serving EXCEPT ![g] = [step |-> "join"]]
    BY <1>6 DEF HandleRoomJoin, HandleRoomLeave
  <2>4. sub' \in [Gens -> BOOLEAN]
    BY <1>1, <1>6 DEF HandleRoomJoin, HandleRoomLeave, ServerOK
  <2>5. ServerOK'
    BY <1>1, <1>5, <2>3, <2>4 DEF ServerOK
  <2>6. QED BY <1>1, <1>5, <2>2, <2>5, PartsStay, TypeParts
<1>7. CASE HandleChatSend(g)
  <2> DEFINE id == Head(up[g]).id
  <2>1. id \in Ids
    BY <1>4, <1>7, Carried DEF HandleChatSend, Reads
  <2>2. sub' = sub /\ (\/ serving' = [serving EXCEPT ![g] = [step |-> "create", id |-> id]] /\ UNCHANGED down
                       \/ \E r \in {"not_in_room", "not_stored"} : Error(g, id, r) /\ UNCHANGED serving)
    BY <1>7 DEF HandleChatSend
  <2> HIDE DEF id
  <2>3. down' \in [Gens -> Seq(Envelope)]
    BY <1>1, <2>1, <2>2, Replies, Envelopes DEF Error, WireOK
  <2>4. WireOK'
    BY <1>1, <1>4, <1>5, <2>3 DEF WireOK
  <2>5. [step |-> "create", id |-> id] \in [step : {"none", "join"}] \cup [step : Step, id : Ids]
    BY <2>1, Steps DEF Step
  <2>6. ServerOK'
    BY <1>1, <1>5, <2>2, <2>5 DEF ServerOK
  <2>7. QED BY <1>1, <1>5, <2>4, <2>6, PartsStay, TypeParts
<1>8. QED BY <1>6, <1>7

LEMMA ServeTypes ==
  ASSUME TypeOK, NEW g \in Gens, Join(g) \/ Create(g) \/ Lookup(g) \/ BroadcastToRoom(g),
         serving[g].step = "create" => stored[serving[g].id[1]] = 0
  PROVE  TypeOK'
<1>1. ClientOK /\ WireOK /\ ServerOK /\ crossed \subseteq Gens
  BY TypeParts
<1>2. PICK st \in {"join", "create", "lookup", "broadcast"} : At(g, st)
  BY DEF Join, Create, Lookup, BroadcastToRoom
<1>3. UNCHANGED <<client, up, broken, conn, clients, kick, crossed>>
  BY <1>2 DEF At
<1>4. CASE Join(g)
  <2>1. WireOK'
    BY <1>1, <1>3, <1>4, Replies, Envelopes DEF Join, WireOK
  <2>2. ServerOK'
    BY <1>1, <1>3, <1>4 DEF Join, ServerOK, Idle
  <2>3. QED BY <1>1, <1>3, <2>1, <2>2, PartsStay, TypeParts
<1>5. ASSUME st # "join" PROVE TypeOK'
  <2> DEFINE id == serving[g].id
  <2>1. id \in Ids /\ serving[g] \in [step : Step, id : Ids] /\ id[1] \in Calls
    BY <1>2, <1>5, Served, IdParts DEF At
  <2>2. /\ sub' = sub
        /\ down' = down \/ \E r \in {"not_stored", "lookup_failed"} : Error(g, id, r)
        /\ running' = running \/ running' = id
        /\ serving' = [serving EXCEPT ![g] = Idle] \/ \E x \in Step : serving' = [serving EXCEPT ![g].step = x]
        /\ \/ stored' = stored
           \/ st = "create" /\ stored' = [stored EXCEPT ![id[1]] = @ + 1]
    BY <1>2, <1>5 DEF At, Join, Create, Lookup, BroadcastToRoom, Step
  <2>3. serving[g].step = st
    BY <1>2 DEF At
  <2> HIDE DEF id
  <2>4. down' \in [Gens -> Seq(Envelope)]
    BY <1>1, <2>1, <2>2, Replies, Envelopes DEF Error, WireOK
  <2>5. WireOK'
    BY <1>1, <1>3, <2>4 DEF WireOK
  <2>6. serving' \in [Gens -> [step : {"none", "join"}] \cup [step : Step, id : Ids]]
    <3>1. Idle \in [step : {"none", "join"}]
      BY DEF Idle
    <3>2. \A x \in Step : [serving[g] EXCEPT !.step = x] \in [step : Step, id : Ids]
      BY <2>1
    <3>3. PICK v \in [step : {"none", "join"}] \cup [step : Step, id : Ids] : serving' = [serving EXCEPT ![g] = v]
      BY <2>2, <3>1, <3>2
    <3>4. QED BY <1>1, <3>3 DEF ServerOK
  <2>7. stored' \in [Calls -> 0..2]
    <3>1. CASE stored' = stored
      BY <1>1, <3>1 DEF ServerOK
    <3>2. CASE st = "create" /\ stored' = [stored EXCEPT ![id[1]] = @ + 1]
      <4>1. stored[id[1]] = 0
        BY <2>3, <3>2 DEF id
      <4>2. QED BY <1>1, <2>1, <3>2, <4>1 DEF ServerOK
    <3>3. QED BY <2>2, <3>1, <3>2
  <2>8. ServerOK'
    BY <1>1, <1>3, <2>1, <2>2, <2>6, <2>7 DEF ServerOK
  <2>9. QED BY <1>1, <1>3, <2>5, <2>8, PartsStay, TypeParts
<1>6. QED BY <1>4, <1>5, <1>2 DEF At, Create, Lookup, BroadcastToRoom

LEMMA RunTypes ==
  ASSUME TypeOK, RunBroadcast \/ KickMember \/ KickUnsub
  PROVE  TypeOK'
<1>1. ClientOK /\ WireOK /\ ServerOK /\ crossed \subseteq Gens
  BY TypeParts
<1>2. clients # 0 => clients \in Gens
  BY <1>1, SessionAssumption DEF ServerOK, Gens
<1>3. CASE RunBroadcast
  <2>1. running \in Ids
    BY <1>1, <1>3 DEF RunBroadcast, ServerOK
  <2>2. down' \in [Gens -> Seq(Envelope)]
    <3>1. CASE UNCHANGED down
      BY <1>1, <3>1 DEF WireOK
    <3>2. CASE clients # 0 /\ Reply(clients, [ev |-> "chat.message", id |-> running])
      BY <1>1, <1>2, <2>1, <3>2, Replies, Envelopes
    <3>3. QED BY <1>3, <3>1, <3>2 DEF RunBroadcast
  <2>3. WireOK'
    BY <1>1, <1>3, <2>2 DEF RunBroadcast, WireOK
  <2>4. ServerOK'
    BY <1>1, <1>3 DEF RunBroadcast, ServerOK
  <2>5. QED BY <1>1, <1>3, <2>3, <2>4, PartsStay, TypeParts DEF RunBroadcast
<1>4. CASE KickMember
  BY <1>1, <1>4, PartsStay, TypeParts DEF KickMember, ServerOK
<1>5. CASE KickUnsub
  <2>1. ServerOK'
    BY <1>1, <1>2, <1>5 DEF KickUnsub, ServerOK
  <2>2. QED BY <1>1, <1>5, <2>1, PartsStay, TypeParts DEF KickUnsub
<1>6. QED BY <1>3, <1>4, <1>5

-----------------------------------------------------------------------------
(* Where a message is, and what has become of it. *)

\* A message under way, with how often it has been stored: it is read from its
\* envelope, as each reply to it is sent by a known outcome.
Chat(e)   == e.ev \in {"chat.send", "chat.message", "chat.error"}
Copies(e) == IF e.ev = "chat.message" \/ (e.ev = "chat.error" /\ e.reason = "lookup_failed") THEN 1 ELSE 0
Token(e)  == IF Chat(e) THEN {<<e.id, Copies(e)>>} ELSE {}
Tokens(s) == {x \in Ids \X {0, 1} : \E i \in DOMAIN s : x \in Token(s[i])}
Served1(v) == IF v.step \in {"create", "lookup", "broadcast"}
              THEN {<<v.id, IF v.step = "create" THEN 0 ELSE 1>>} ELSE {}
Run1(id)   == IF id = NoId THEN {} ELSE {<<id, 1>>}

\* A message is in a queue, with HandleMessage or with Run.
Places == ({"up", "down", "serving"} \X Gens) \cup {<<"running", 0>>}
Load(p) ==
    CASE p[1] = "up"      -> Tokens(up[p[2]])
      [] p[1] = "down"    -> Tokens(down[p[2]])
      [] p[1] = "serving" -> Served1(serving[p[2]])
      [] p[1] = "running" -> Run1(running)

\* The call a message belongs to.
Of(x) == x[1][1]

\* A queue has at most one message of a call.
Single(s) == \A i, j \in DOMAIN s : \A x \in Token(s[i]), y \in Token(s[j]) : Of(x) = Of(y) => i = j

\* What a message under way says of its call: that it waits for the answer, or has
\* failed, in the same attempt; and how often the message has been stored.
Fits(id, n) ==
    /\ stored[id[1]] = n
    /\ call[id[1]].pc \in {"sent", "failed"} /\ call[id[1]].attempt = id[2]

Fit == \A p \in Places : \A x \in Load(p) : Fits(x[1], x[2])

\* A call has at most one message under way, of whatever attempt: the retry starts
\* when the answer to the first has been read.
One ==
    /\ \A p, q \in Places : \A x \in Load(p), y \in Load(q) : Of(x) = Of(y) => p = q
    /\ \A g \in Gens : Single(up[g]) /\ Single(down[g])

\* What has been stored of a call that has got so far.
KeptOf(c) ==
    /\ stored[c] \in {0, 1}
    /\ call[c].pc = "ok" => stored[c] = 1
    /\ call[c].pc \notin {"sent", "failed", "ok"} => stored[c] = 0

Kept == \A c \in Calls : KeptOf(c)

Delivers == Fit /\ One /\ Kept

-----------------------------------------------------------------------------
(* Messages in queues. *)

LEMMA TokenOf ==
  ASSUME NEW e \in Envelope
  PROVE  /\ Token(e) \in SUBSET (Ids \X {0, 1})
         /\ \A x, y \in Token(e) : x = y
         /\ ~Chat(e) => Token(e) = {}
         /\ Chat(e) => Token(e) = {<<e.id, Copies(e)>>}
<1>1. CASE Chat(e)
  <2>1. e.id \in Ids
    BY <1>1, Carried DEF Chat
  <2>2. QED BY <1>1, <2>1 DEF Token, Copies
<1>2. CASE ~Chat(e)
  BY <1>2 DEF Token
<1>3. QED BY <1>1, <1>2

\* What is added to a queue is in it, with what was there.
LEMMA TokensAppend ==
  ASSUME NEW s \in Seq(Envelope), NEW e \in Envelope
  PROVE  /\ Tokens(Append(s, e)) = Tokens(s) \cup Token(e)
         /\ Single(s) /\ (\A x \in Token(e), y \in Tokens(s) : Of(x) # Of(y)) => Single(Append(s, e))
<1> DEFINE t == Append(s, e)
<1>1. /\ t \in Seq(Envelope) /\ Len(t) = Len(s) + 1 /\ Len(s) \in Nat
      /\ DOMAIN s = 1..Len(s) /\ DOMAIN t = 1..(Len(s) + 1)
      /\ t[Len(s) + 1] = e /\ \A i \in DOMAIN s : t[i] = s[i]
  BY AppendProperties, LenProperties
<1> HIDE DEF t
<1>2. \A i \in DOMAIN t : i \in DOMAIN s \/ i = Len(s) + 1
  BY <1>1
<1>3. Token(e) \in SUBSET (Ids \X {0, 1})
  BY TokenOf
<1>4. Tokens(t) = Tokens(s) \cup Token(e)
  <2>1. Len(s) + 1 \in DOMAIN t /\ DOMAIN s \subseteq DOMAIN t
    BY <1>1
  <2>2. QED BY <1>1, <1>2, <1>3, <2>1 DEF Tokens
<1>5. ASSUME Single(s), \A x \in Token(e), y \in Tokens(s) : Of(x) # Of(y)
      PROVE  Single(t)
  <2>1. ASSUME NEW i \in DOMAIN s, NEW y \in Token(s[i]) PROVE y \in Tokens(s)
    <3>1. s[i] \in Envelope
      BY ElementOfSeq, LenProperties
    <3>2. QED BY <2>1, <3>1, TokenOf DEF Tokens
  <2>2. QED BY <1>1, <1>2, <1>5, <2>1 DEF Single
<1>6. QED BY <1>4, <1>5 DEF t

\* What is taken from a queue is no longer in it.
LEMMA TokensTail ==
  ASSUME NEW s \in Seq(Envelope), s # <<>>
  PROVE  /\ Tokens(Tail(s)) \subseteq Tokens(s) /\ Token(Head(s)) \subseteq Tokens(s)
         /\ Single(s) => /\ Single(Tail(s))
                         /\ \A x \in Token(Head(s)), y \in Tokens(Tail(s)) : Of(x) # Of(y)
<1> DEFINE t == Tail(s)
<1>1. /\ Len(s) \in Nat \ {0} /\ DOMAIN s = 1..Len(s) /\ DOMAIN t = 1..(Len(s) - 1)
      /\ Head(s) = s[1] /\ \A i \in DOMAIN t : t[i] = s[i + 1]
  BY HeadTailProperties, LenProperties, EmptySeq
<1>2. \A i \in DOMAIN t : i + 1 \in DOMAIN s /\ i + 1 # 1
  BY <1>1
<1>3. 1 \in DOMAIN s /\ s[1] \in Envelope
  BY <1>1, ElementOfSeq
<1> HIDE DEF t
<1>4. Tokens(t) \subseteq Tokens(s)
  BY <1>1, <1>2 DEF Tokens
<1>5. Token(Head(s)) \subseteq Tokens(s)
  BY <1>1, <1>3, TokenOf DEF Tokens
<1>6. ASSUME Single(s) PROVE Single(t)
  <2>1. ASSUME NEW i \in DOMAIN t, NEW j \in DOMAIN t, NEW x \in Token(t[i]), NEW y \in Token(t[j]), Of(x) = Of(y)
        PROVE  i = j
    <3>1. i + 1 = j + 1
      BY <1>1, <1>2, <1>6, <2>1 DEF Single
    <3>2. QED BY <1>1, <3>1
  <2>2. QED BY <2>1 DEF Single
<1>7. ASSUME Single(s), NEW x \in Token(Head(s)), NEW y \in Tokens(t) PROVE Of(x) # Of(y)
  <2>1. PICK i \in DOMAIN t : y \in Token(t[i])
    BY <1>7 DEF Tokens
  <2>2. QED BY <1>1, <1>2, <1>3, <1>7, <2>1 DEF Single
<1>8. QED BY <1>4, <1>5, <1>6, <1>7 DEF t

LEMMA TokensEmpty == Tokens(<<>>) = {} /\ Single(<<>>)
  BY DEF Tokens, Single

\* What carries no message does not count.
LEMMA TokensNone ==
  ASSUME NEW s \in Seq(Envelope), NEW e \in Envelope, ~Chat(e)
  PROVE  Tokens(Append(s, e)) = Tokens(s) /\ (Single(s) => Single(Append(s, e)))
<1>1. Token(e) = {}
  BY TokenOf
<1>2. Tokens(Append(s, e)) = Tokens(s) \cup Token(e)
  BY TokensAppend
<1>3. Single(s) => Single(Append(s, e))
  BY <1>1, TokensAppend
<1>4. QED BY <1>1, <1>2, <1>3

-----------------------------------------------------------------------------
(* Messages in the system. *)

LEMMA Loads ==
  /\ \A g \in Gens : /\ <<"up", g>> \in Places      /\ Load(<<"up", g>>) = Tokens(up[g])
                     /\ <<"down", g>> \in Places    /\ Load(<<"down", g>>) = Tokens(down[g])
                     /\ <<"serving", g>> \in Places /\ Load(<<"serving", g>>) = Served1(serving[g])
  /\ <<"running", 0>> \in Places /\ Load(<<"running", 0>>) = Run1(running)
  BY DEF Places, Load

LEMMA LoadsNext ==
  /\ \A g \in Gens : /\ Load(<<"up", g>>)' = Tokens(up'[g])
                     /\ Load(<<"down", g>>)' = Tokens(down'[g])
                     /\ Load(<<"serving", g>>)' = Served1(serving'[g])
  /\ Load(<<"running", 0>>)' = Run1(running')
  BY DEF Load

LEMMA PlaceIs ==
  ASSUME NEW p \in Places
  PROVE  \/ p = <<"running", 0>>
         \/ \E g \in Gens : p \in {<<"up", g>>, <<"down", g>>, <<"serving", g>>}
  BY DEF Places

\* What is under way grows nowhere but in one of its parts.
LEMMA LoadsShrink ==
  ASSUME Run1(running') \subseteq Run1(running),
         \A h \in Gens : /\ Tokens(up'[h]) \subseteq Tokens(up[h])
                         /\ Tokens(down'[h]) \subseteq Tokens(down[h])
                         /\ Served1(serving'[h]) \subseteq Served1(serving[h]),
         NEW p \in Places
  PROVE  Load(p)' \subseteq Load(p)
<1>1. CASE p = <<"running", 0>>
  BY <1>1, Loads, LoadsNext
<1>2. ASSUME NEW h \in Gens, p = <<"up", h>> PROVE Load(p)' \subseteq Load(p)
  BY <1>2, Loads, LoadsNext
<1>3. ASSUME NEW h \in Gens, p = <<"down", h>> PROVE Load(p)' \subseteq Load(p)
  BY <1>3, Loads, LoadsNext
<1>4. ASSUME NEW h \in Gens, p = <<"serving", h>> PROVE Load(p)' \subseteq Load(p)
  BY <1>4, Loads, LoadsNext
<1>5. QED BY <1>1, <1>2, <1>3, <1>4, PlaceIs

\* The step does not contradict what a message under way says of its call.
Benign(c) ==
    /\ stored'[c] = stored[c]
    /\ call[c].pc \in {"sent", "failed"} => /\ call'[c].pc \in {"sent", "failed"}
                                           /\ call'[c].attempt = call[c].attempt

\* No message comes up that was not there.
LEMMA NothingNew ==
  ASSUME Fit, One,
         \A p \in Places : Load(p)' \subseteq Load(p),
         \A p \in Places : \A x \in Load(p)' : Benign(Of(x)),
         \A g \in Gens : Single(up'[g]) /\ Single(down'[g])
  PROVE  Fit' /\ One'
  BY DEF Fit, One, Fits, Benign, Of

\* One message comes up, of a call that has no other.
LEMMA OneNew ==
  ASSUME Fit, One, NEW q \in Places, NEW y, Fits(y[1], y[2])',
         \A p \in Places : \A x \in Load(p)' :
            \/ p = q /\ x = y
            \/ x \in Load(p) /\ Of(x) # Of(y) /\ Benign(Of(x)),
         \A g \in Gens : Single(up'[g]) /\ Single(down'[g])
  PROVE  Fit' /\ One'
<1>1. Fit'
  BY DEF Fit, Fits, Benign, Of
<1>2. \A p, r \in Places : \A x \in Load(p)', z \in Load(r)' : Of(x) = Of(z) => p = r
  BY DEF One
<1>3. QED BY <1>1, <1>2 DEF One

\* The same, queue by queue.
LEMMA Fewer ==
  ASSUME Fit, One,
         \A g \in Gens : /\ Tokens(up'[g]) \subseteq Tokens(up[g]) /\ Single(up'[g])
                        /\ Tokens(down'[g]) \subseteq Tokens(down[g]) /\ Single(down'[g])
                        /\ Served1(serving'[g]) \subseteq Served1(serving[g]),
         Run1(running') \subseteq Run1(running),
         \A p \in Places : \A x \in Load(p)' : Benign(Of(x))
  PROVE  Fit' /\ One'
<1>1. ASSUME NEW p \in Places PROVE Load(p)' \subseteq Load(p)
  <2>1. CASE p = <<"running", 0>>
    BY <2>1, Loads, LoadsNext
  <2>2. ASSUME NEW g \in Gens, p = <<"up", g>> PROVE Load(p)' \subseteq Load(p)
    BY <2>2, Loads, LoadsNext
  <2>3. ASSUME NEW g \in Gens, p = <<"down", g>> PROVE Load(p)' \subseteq Load(p)
    BY <2>3, Loads, LoadsNext
  <2>4. ASSUME NEW g \in Gens, p = <<"serving", g>> PROVE Load(p)' \subseteq Load(p)
    BY <2>4, Loads, LoadsNext
  <2>5. QED BY <2>1, <2>2, <2>3, <2>4, PlaceIs
<1>2. QED BY <1>1, NothingNew

-----------------------------------------------------------------------------
(* The abstract steps. *)

results  == [c \in Calls |-> Result(c)]
Abstract == [Delivery!Next]_<<stored, results>>

\* The result of a call by where it is.
Outcome(pc) ==
    CASE pc = "idle"                   -> "none"
      [] pc \in {"ok", "failed"}       -> pc
      [] pc \in {"refused", "outside"} -> "refused"
      [] OTHER                         -> "open"

LEMMA Outcomes == \A c \in Calls : /\ Result(c) = Outcome(call[c].pc)
                                   /\ Result(c)' = Outcome(call'[c].pc)
                                   /\ results[c] = Outcome(call[c].pc)
                                   /\ results'[c] = Outcome(call'[c].pc)
  BY DEF Result, Outcome, results

LEMMA ResultsAre == results' = [c \in Calls |-> Outcome(call'[c].pc)]
  BY DEF results, Result, Outcome

\* Nothing that the caller can tell has happened.
LEMMA Stutters ==
  ASSUME UNCHANGED stored, \A c \in Calls : Outcome(call'[c].pc) = Outcome(call[c].pc)
  PROVE  Abstract
<1>1. results' = results
  BY Outcomes DEF results
<1>2. QED BY <1>1 DEF Abstract

\* Some of the calls that were open have failed.
LEMMA Fails ==
  ASSUME UNCHANGED stored, NEW cs \in SUBSET Calls,
         \A c \in cs : Outcome(call[c].pc) = "open" /\ call'[c].pc = "failed",
         \A c \in Calls \ cs : Outcome(call'[c].pc) = Outcome(call[c].pc)
  PROVE  Abstract
<1>1. cs \in SUBSET {c \in Calls : results[c] = "open"}
  BY Outcomes
<1>2. results' = [c \in Calls |-> IF c \in cs THEN "failed" ELSE results[c]]
  BY Outcomes, ResultsAre DEF Outcome
<1>3. Delivery!FailAll
  BY <1>1, <1>2 DEF Delivery!FailAll, results
<1>4. QED BY <1>3 DEF Abstract, Delivery!Next

-----------------------------------------------------------------------------
(* The client's steps keep the invariant and are abstract steps. *)

LEMMA LoadsTyped ==
  ASSUME TypeOK, NEW p \in Places, NEW x \in Load(p)
  PROVE  x \in Ids \X {0, 1} /\ Of(x) \in Calls
<1>1. x \in Ids \X {0, 1}
  <2>1. CASE p = <<"running", 0>>
    BY <2>1, Loads DEF TypeOK, Run1
  <2>2. ASSUME NEW g \in Gens, p = <<"serving", g>> PROVE x \in Ids \X {0, 1}
    <3>1. x \in Served1(serving[g])
      BY <2>2, Loads
    <3>2. serving[g].step \in {"create", "lookup", "broadcast"} /\ \E n \in {0, 1} : x = <<serving[g].id, n>>
      BY <3>1 DEF Served1
    <3>3. serving[g].id \in Ids
      BY <3>2, Served
    <3>4. QED BY <3>2, <3>3
  <2>3. ASSUME NEW g \in Gens, p = <<"up", g>> PROVE x \in Ids \X {0, 1}
    BY <2>3, Loads DEF Tokens
  <2>4. ASSUME NEW g \in Gens, p = <<"down", g>> PROVE x \in Ids \X {0, 1}
    BY <2>4, Loads DEF Tokens
  <2>5. QED BY <2>1, <2>2, <2>3, <2>4, PlaceIs
<1>2. x[1] \in Ids
  BY <1>1
<1>3. QED BY <1>1, <1>2, IdParts DEF Of

\* A step that at most adds to a queue an envelope without a message.
LEMMA Calm ==
  ASSUME TypeOK, Fit, One, UNCHANGED <<serving, running>>,
         \/ UNCHANGED <<up, down>>
         \/ UNCHANGED down /\ \E g \in Gens, e \in Envelope : ~Chat(e) /\ up' = [up EXCEPT ![g] = Append(@, e)]
         \/ UNCHANGED up /\ \E g \in Gens, e \in Envelope : ~Chat(e) /\ down' = [down EXCEPT ![g] = Append(@, e)],
         \A c \in Calls : Benign(c)
  PROVE  Fit' /\ One'
<1>1. \A g \in Gens : up[g] \in Seq(Envelope) /\ down[g] \in Seq(Envelope) /\ Single(up[g]) /\ Single(down[g])
  BY DEF TypeOK, One
<1>2. ASSUME NEW g \in Gens, NEW e \in Envelope, ~Chat(e)
      PROVE  /\ Tokens(Append(up[g], e)) = Tokens(up[g]) /\ Single(Append(up[g], e))
             /\ Tokens(Append(down[g], e)) = Tokens(down[g]) /\ Single(Append(down[g], e))
  BY <1>1, <1>2, TokensNone
<1>3. /\ \A g \in Gens : up'[g] = up[g] \/ \E e \in Envelope : ~Chat(e) /\ up'[g] = Append(up[g], e)
      /\ \A g \in Gens : down'[g] = down[g] \/ \E e \in Envelope : ~Chat(e) /\ down'[g] = Append(down[g], e)
  <2>1. /\ \A g \in Gens, e \in Envelope : up' = [up EXCEPT ![g] = Append(@, e)] =>
               up'[g] = Append(up[g], e) /\ \A h \in Gens : h # g => up'[h] = up[h]
        /\ \A g \in Gens, e \in Envelope : down' = [down EXCEPT ![g] = Append(@, e)] =>
               down'[g] = Append(down[g], e) /\ \A h \in Gens : h # g => down'[h] = down[h]
    BY DEF TypeOK
  <2>2. CASE UNCHANGED <<up, down>>
    BY <2>2
  <2>3. ASSUME NEW g \in Gens, NEW e \in Envelope, ~Chat(e), UNCHANGED down, up' = [up EXCEPT ![g] = Append(@, e)]
        PROVE  \A h \in Gens : up'[h] = up[h] \/ \E d \in Envelope : ~Chat(d) /\ up'[h] = Append(up[h], d)
    BY <2>1, <2>3
  <2>4. ASSUME NEW g \in Gens, NEW e \in Envelope, ~Chat(e), UNCHANGED up, down' = [down EXCEPT ![g] = Append(@, e)]
        PROVE  \A h \in Gens : down'[h] = down[h] \/ \E d \in Envelope : ~Chat(d) /\ down'[h] = Append(down[h], d)
    BY <2>1, <2>4
  <2>5. QED BY <2>2, <2>3, <2>4
<1>4. ASSUME NEW g \in Gens
      PROVE  /\ Tokens(up'[g]) = Tokens(up[g]) /\ Single(up'[g])
             /\ Tokens(down'[g]) = Tokens(down[g]) /\ Single(down'[g])
             /\ Served1(serving'[g]) = Served1(serving[g])
  BY <1>1, <1>2, <1>3
<1>5. ASSUME NEW p \in Places, NEW x \in Load(p)' PROVE x \in Load(p)
  <2>1. CASE p = <<"running", 0>>
    BY <1>5, <2>1, Loads, LoadsNext
  <2>2. ASSUME NEW g \in Gens, p \in {<<"up", g>>, <<"down", g>>, <<"serving", g>>} PROVE x \in Load(p)
    BY <1>4, <1>5, <2>2, Loads, LoadsNext
  <2>3. QED BY <2>1, <2>2, PlaceIs
<1>6. ASSUME NEW p \in Places, NEW x \in Load(p)' PROVE Benign(Of(x))
  BY <1>5, <1>6, LoadsTyped
<1>7. QED BY <1>4, <1>5, <1>6, NothingNew

\* What a step leaves of a call whose place and messages it leaves.
LEMMA KeptStays ==
  ASSUME Kept, NEW c \in Calls, stored'[c] = stored[c], call'[c].pc = call[c].pc
  PROVE  KeptOf(c)'
  BY DEF Kept, KeptOf

LEMMA SendChatDelivers ==
  ASSUME TypeOK, Delivers, NEW c \in Calls, SendChat(c)
  PROVE  Delivers' /\ Abstract
<1>1. /\ UNCHANGED <<up, down, serving, running, stored>>
      /\ call[c].pc \in {"idle", "again"}
      /\ call'[c].pc \in {"ensure", "wait"} /\ \A d \in Calls : d # c => call'[d] = call[d]
  BY DEF SendChat, wire, server, TypeOK
<1>2. Fit' /\ One'
  BY <1>1, Calm DEF Benign, Delivers
<1>3. Kept'
  BY <1>1, KeptStays DEF Delivers, Kept, KeptOf
<1>4. Abstract
  <2>1. CASE call[c].pc = "again"
    BY <1>1, <2>1, Stutters DEF Outcome
  <2>2. CASE call[c].pc = "idle"
    <3>1. results[c] = "none" /\ results' = [results EXCEPT ![c] = "open"]
      <4>1. results[c] = "none" /\ results'[c] = "open"
        BY <1>1, <2>2, Outcomes DEF Outcome
      <4>2. \A d \in Calls \ {c} : results'[d] = results[d]
        BY <1>1, Outcomes
      <4>3. QED BY <4>1, <4>2 DEF results
    <3>2. Delivery!Start(c)
      BY <1>1, <3>1 DEF Delivery!Start, results
    <3>3. QED BY <3>2 DEF Abstract, Delivery!Next
  <2>3. QED BY <1>1, <2>1, <2>2
<1>5. QED BY <1>2, <1>3, <1>4 DEF Delivers

LEMMA EnsureRoomJoinedDelivers ==
  ASSUME TypeOK, Delivers, NEW c \in Calls, EnsureRoomJoined(c)
  PROVE  Delivers' /\ Abstract
<1>1. PICK pc \in {"send", "join"} : call' = Move({c}, pc)
  BY DEF EnsureRoomJoined
<1>2. /\ UNCHANGED <<down, serving, running, stored>> /\ call[c].pc = "ensure"
      /\ up' = up \/ up' = [up EXCEPT ![gen] = Append(@, [ev |-> "room.join"])]
  BY DEF EnsureRoomJoined, Send, server
<1>3. call'[c].pc = pc /\ \A d \in Calls : d # c => call'[d] = call[d]
  BY <1>1, TypeParts, MovesOne, Pcs
<1>4. Fit' /\ One'
  <2>1. gen \in Gens /\ [ev |-> "room.join"] \in Envelope /\ ~Chat([ev |-> "room.join"])
    BY Envelopes DEF TypeOK, Chat
  <2>2. \A d \in Calls : Benign(d)
    BY <1>2, <1>3 DEF Benign
  <2>3. QED BY <1>2, <2>1, <2>2, Calm DEF Delivers
<1>5. Kept'
  BY <1>2, <1>3, KeptStays DEF Delivers, Kept, KeptOf
<1>6. Abstract
  BY <1>2, <1>3, Stutters DEF Outcome
<1>7. QED BY <1>4, <1>5, <1>6 DEF Delivers

LEMMA TimeoutDelivers ==
  ASSUME TypeOK, Delivers, NEW c \in Calls, Timeout(c)
  PROVE  Delivers' /\ Abstract
<1>1. /\ call' = Move({c}, "failed") /\ call[c].pc \in {"wait", "join", "sent"}
      /\ UNCHANGED <<up, down, serving, running, stored>>
  BY DEF Timeout, wire, server
<1>2. /\ call'[c].pc = "failed" /\ call'[c].attempt = call[c].attempt
      /\ \A d \in Calls : d # c => call'[d] = call[d]
  BY <1>1, TypeParts, MovesOne, Pcs
<1>3. Fit' /\ One'
  BY <1>1, <1>2, Calm DEF Benign, Delivers
<1>4. Kept'
  BY <1>1, <1>2, KeptStays DEF Delivers, Kept, KeptOf
<1>5. Abstract
  <2>1. {c} \in SUBSET Calls
    OBVIOUS
  <2>2. \A d \in {c} : Outcome(call[d].pc) = "open" /\ call'[d].pc = "failed"
    BY <1>1, <1>2 DEF Outcome
  <2>3. QED BY <1>1, <1>2, <2>1, <2>2, Fails
<1>6. QED BY <1>3, <1>4, <1>5 DEF Delivers

\* The only step that brings a message up: the call has none under way.
LEMMA SendChatOnceDelivers ==
  ASSUME TypeOK, Delivers, NEW c \in Calls, SendChatOnce(c)
  PROVE  Delivers' /\ Abstract
<1>0. PICK n \in {1, 2} : n = call[c].attempt
  BY DEF TypeOK
<1> DEFINE id == <<c, n>>
           e  == [ev |-> "chat.send", id |-> id]
<1>1. UNCHANGED <<down, serving, running, stored>> /\ call[c].pc = "send" /\ gen \in Gens /\ gen' = gen
  BY DEF SendChatOnce, server, TypeOK
<1>2. id \in Ids /\ e \in Envelope
  BY Envelopes DEF Ids
<1>3. CASE state = "connected"
  <2>1. call' = Move({c}, "sent") /\ up' = [up EXCEPT ![gen] = Append(@, e)]
    BY <1>0, <1>3 DEF SendChatOnce, Send
  <2>2. /\ call'[c].pc = "sent" /\ call'[c].attempt = call[c].attempt
        /\ \A d \in Calls : d # c => call'[d] = call[d]
    BY <2>1, TypeParts, MovesOne, Pcs
  <2>3. \A p \in Places : \A x \in Load(p) : Of(x) # c
    BY <1>1 DEF Delivers, Fit, Fits, Of
  <2>4. Token(e) = {<<id, 0>>} /\ Of(<<id, 0>>) = c
    BY <1>2, TokenOf DEF Chat, Copies, Of
  <2>5. up[gen] \in Seq(Envelope) /\ <<"up", gen>> \in Places /\ Single(up[gen])
    BY <1>1, Loads DEF TypeOK, Delivers, One
  <2>6. \A x \in Token(e), y \in Tokens(up[gen]) : Of(x) # Of(y)
    BY <1>1, <2>3, <2>4, <2>5, Loads
  <2>7. Tokens(Append(up[gen], e)) = Tokens(up[gen]) \cup {<<id, 0>>} /\ Single(Append(up[gen], e))
    BY <1>2, <2>4, <2>5, <2>6, TokensAppend
  <2> HIDE DEF e, id
  <2>8. /\ up'[gen] = Append(up[gen], e)
        /\ \A g \in Gens : g # gen => up'[g] = up[g]
    BY <2>1 DEF TypeOK
  <2>9. ASSUME NEW p \in Places, NEW x \in Load(p)'
        PROVE  \/ p = <<"up", gen>> /\ x = <<id, 0>>
               \/ x \in Load(p) /\ Of(x) # Of(<<id, 0>>) /\ Benign(Of(x))
    <3>1. x \in Load(p) \/ (p = <<"up", gen>> /\ x = <<id, 0>>)
      <4>1. CASE p = <<"running", 0>>
        BY <1>1, <2>9, <4>1, Loads, LoadsNext
      <4>2. ASSUME NEW g \in Gens, p \in {<<"down", g>>, <<"serving", g>>} PROVE x \in Load(p)
        BY <1>1, <2>9, <4>2, Loads, LoadsNext
      <4>3. ASSUME NEW g \in Gens, g # gen, p = <<"up", g>> PROVE x \in Load(p)
        BY <2>8, <2>9, <4>3, Loads, LoadsNext
      <4>4. CASE p = <<"up", gen>>
        BY <1>1, <2>7, <2>8, <2>9, <4>4, Loads, LoadsNext
      <4>5. QED BY <4>1, <4>2, <4>3, <4>4, PlaceIs
    <3>2. ASSUME x \in Load(p) PROVE Of(x) # c /\ Benign(Of(x))
      BY <1>1, <2>2, <2>3, <3>2, LoadsTyped DEF Benign
    <3>3. QED BY <2>4, <3>1, <3>2
  <2>10. Fits(<<id, 0>>[1], <<id, 0>>[2])'
    BY <1>0, <1>1, <2>2 DEF Fits, Delivers, Kept, KeptOf, id
  <2>11. \A g \in Gens : Single(up'[g]) /\ Single(down'[g])
    BY <1>1, <2>7, <2>8 DEF Delivers, One
  <2>12. Fit' /\ One'
    BY <2>5, <2>9, <2>10, <2>11, OneNew DEF Delivers
  <2>13. Kept'
    BY <1>1, <2>2, KeptStays DEF Delivers, Kept, KeptOf
  <2>14. Abstract
    BY <1>1, <2>2, Stutters DEF Outcome
  <2>15. QED BY <2>12, <2>13, <2>14 DEF Delivers
<1>4. CASE state # "connected"
  <2>1. call' = Move({c}, "failed") /\ up' = up
    BY <1>4 DEF SendChatOnce, Send
  <2>2. /\ call'[c].pc = "failed" /\ call'[c].attempt = call[c].attempt
        /\ \A d \in Calls : d # c => call'[d] = call[d]
    BY <2>1, TypeParts, MovesOne, Pcs
  <2>3. Fit' /\ One'
    BY <1>1, <2>1, <2>2, Calm DEF Benign, Delivers
  <2>4. Kept'
    BY <1>1, <2>2, KeptStays DEF Delivers, Kept, KeptOf
  <2>5. Abstract
    <3>1. {c} \in SUBSET Calls
      OBVIOUS
    <3>2. \A d \in {c} : Outcome(call[d].pc) = "open" /\ call'[d].pc = "failed"
      BY <1>1, <2>2 DEF Outcome
    <3>3. QED BY <1>1, <2>2, <3>1, <3>2, Fails
  <2>6. QED BY <2>3, <2>4, <2>5 DEF Delivers
<1>5. QED BY <1>3, <1>4

\* Calls that have not sent anything fail, or calls that wait for an echo do.
LEMMA FailsKept ==
  ASSUME Delivers, UNCHANGED stored, NEW cs \in SUBSET Calls,
         \A c \in Calls : /\ call'[c].attempt = call[c].attempt
                         /\ call'[c].pc = IF c \in cs THEN "failed" ELSE call[c].pc
  PROVE  Kept' /\ \A c \in Calls : Benign(c)
  BY DEF Delivers, Kept, KeptOf, Benign

LEMMA LeaveRoomDelivers ==
  ASSUME TypeOK, Delivers, LeaveRoom
  PROVE  Delivers' /\ Abstract
<1>1. /\ call' = Move(joining, "failed") /\ joining \in SUBSET Calls
      /\ \A c \in joining : call[c].pc = "join"
      /\ UNCHANGED <<down, serving, running, stored>>
      /\ up' = up \/ up' = [up EXCEPT ![gen] = Append(@, [ev |-> "room.leave"])]
  BY DEF LeaveRoom, Send, server, TypeOK, Waiting
<1>2. \A c \in Calls : /\ call'[c].attempt = call[c].attempt
                      /\ call'[c].pc = IF c \in joining THEN "failed" ELSE call[c].pc
  BY <1>1, TypeParts, Moves, Pcs
<1>3. Kept' /\ \A c \in Calls : Benign(c)
  BY <1>1, <1>2, FailsKept
<1>4. Fit' /\ One'
  <2>1. gen \in Gens /\ [ev |-> "room.leave"] \in Envelope /\ ~Chat([ev |-> "room.leave"])
    BY Envelopes DEF TypeOK, Chat
  <2>2. QED BY <1>1, <1>3, <2>1, Calm DEF Delivers
<1>5. Abstract
  <2>1. \A c \in joining : Outcome(call[c].pc) = "open" /\ call'[c].pc = "failed"
    BY <1>1, <1>2 DEF Outcome
  <2>2. QED BY <1>1, <1>2, <2>1, Fails
<1>6. QED BY <1>3, <1>4, <1>5 DEF Delivers

LEMMA ConnectionDelivers ==
  ASSUME TypeOK, Delivers, Done \/ Watchdog \/ Open
  PROVE  Delivers' /\ Abstract
<1>1. CASE GiveUp
  <2>1. PICK cs \in SUBSET Calls : call' = Move(cs, "failed") /\ \A c \in cs : call[c].pc = "sent"
    BY <1>1 DEF GiveUp, Waiting
  <2>2. UNCHANGED <<up, down, serving, running, stored>>
    BY <1>1 DEF GiveUp, server
  <2>3. \A c \in Calls : /\ call'[c].attempt = call[c].attempt
                        /\ call'[c].pc = IF c \in cs THEN "failed" ELSE call[c].pc
    BY <2>1, TypeParts, Moves, Pcs
  <2>4. Kept' /\ \A c \in Calls : Benign(c)
    BY <2>2, <2>3, FailsKept
  <2>5. Fit' /\ One'
    BY <2>2, <2>4, Calm DEF Delivers
  <2>6. Abstract
    <3>1. \A c \in cs : Outcome(call[c].pc) = "open" /\ call'[c].pc = "failed"
      BY <2>1, <2>3 DEF Outcome
    <3>2. QED BY <2>2, <2>3, <3>1, Fails
  <2>7. QED BY <2>4, <2>5, <2>6 DEF Delivers
<1>2. CASE Open
  <2>1. UNCHANGED <<up, down, serving, running, stored, call>>
    BY <1>2 DEF Open, wire, server
  <2>2. Fit' /\ One'
    BY <2>1, Calm DEF Benign, Delivers
  <2>3. Kept'
    BY <2>1, KeptStays DEF Delivers, Kept
  <2>4. QED BY <2>1, <2>2, <2>3, Stutters DEF Delivers
<1>3. QED BY <1>1, <1>2 DEF Done, Watchdog

\* What the client reads is no longer under way: only for its call may the step
\* change what the message says.
LEMMA Receiving ==
  ASSUME TypeOK, Delivers, NEW ev, Receive(ev),
         up' = up \/ up' = [up EXCEPT ![gen] = Append(@, [ev |-> "room.join"])],
         \A c \in Calls : Benign(c) \/ \E y \in Token(Next1) : Of(y) = c
  PROVE  Fit' /\ One'
<1>1. UNCHANGED <<serving, running>> /\ gen \in Gens
  BY DEF Receive, server, TypeOK
<1>2. down[gen] \in Seq(Envelope) /\ down[gen] # <<>> /\ up[gen] \in Seq(Envelope)
  BY <1>1 DEF Receive, TypeOK
<1>3. down'[gen] = Tail(down[gen]) /\ \A g \in Gens : g # gen => down'[g] = down[g]
  BY <1>1 DEF Receive, TypeOK
<1>4. up'[gen] = up[gen] \/ up'[gen] = Append(up[gen], [ev |-> "room.join"])
  BY <1>1 DEF TypeOK
<1>5. \A g \in Gens : g # gen => up'[g] = up[g]
  BY <1>1 DEF TypeOK
<1>6. \A g \in Gens : Single(up[g]) /\ Single(down[g])
  BY DEF Delivers, One
<1>7. Tokens(up'[gen]) = Tokens(up[gen]) /\ Single(up'[gen])
  <2>1. [ev |-> "room.join"] \in Envelope /\ ~Chat([ev |-> "room.join"])
    BY Envelopes DEF Chat
  <2>2. QED BY <1>1, <1>2, <1>4, <1>6, <2>1, TokensNone
<1>8. /\ Tokens(Tail(down[gen])) \subseteq Tokens(down[gen]) /\ Token(Next1) \subseteq Tokens(down[gen])
      /\ Single(Tail(down[gen]))
      /\ \A x \in Token(Next1), y \in Tokens(Tail(down[gen])) : Of(x) # Of(y)
  BY <1>1, <1>2, <1>6, TokensTail DEF Next1
<1>9. ASSUME NEW p \in Places, NEW x \in Load(p)' PROVE x \in Load(p)
  <2>1. CASE p = <<"running", 0>>
    BY <1>1, <1>9, <2>1, Loads, LoadsNext
  <2>2. ASSUME NEW g \in Gens, p = <<"serving", g>> PROVE x \in Load(p)
    BY <1>1, <1>9, <2>2, Loads, LoadsNext
  <2>3. ASSUME NEW g \in Gens, p = <<"up", g>> PROVE x \in Load(p)
    BY <1>5, <1>7, <1>9, <2>3, Loads, LoadsNext
  <2>4. ASSUME NEW g \in Gens, p = <<"down", g>> PROVE x \in Load(p)
    BY <1>3, <1>8, <1>9, <2>4, Loads, LoadsNext
  <2>5. QED BY <2>1, <2>2, <2>3, <2>4, PlaceIs
<1>10. ASSUME NEW p \in Places, NEW x \in Load(p)' PROVE Benign(Of(x))
  <2>1. x \in Load(p) /\ Of(x) \in Calls
    BY <1>9, <1>10, LoadsTyped
  <2>2. ASSUME NEW y \in Token(Next1), Of(y) = Of(x) PROVE FALSE
    <3>1. y \in Load(<<"down", gen>>) /\ <<"down", gen>> \in Places
      BY <1>1, <1>8, Loads
    <3>2. p = <<"down", gen>>
      BY <2>1, <2>2, <3>1 DEF Delivers, One
    <3>3. x \in Tokens(Tail(down[gen]))
      BY <1>1, <1>3, <1>10, <3>2, LoadsNext
    <3>4. QED BY <1>8, <2>2, <3>3
  <2>3. QED BY <2>1, <2>2
<1>11. \A g \in Gens : Single(up'[g]) /\ Single(down'[g])
  BY <1>3, <1>5, <1>6, <1>7, <1>8
<1>12. QED BY <1>9, <1>10, <1>11, NothingNew DEF Delivers

LEMMA RoomAnswerDelivers ==
  ASSUME TypeOK, Delivers, OnConnected \/ OnRoomJoined \/ OnJoinError
  PROVE  Delivers' /\ Abstract
<1>1. PICK ev : Receive(ev)
  BY DEF OnConnected, OnRoomJoined, OnJoinError
<1>2. UNCHANGED stored
  BY <1>1 DEF Receive, server
<1>3. up' = up \/ up' = [up EXCEPT ![gen] = Append(@, [ev |-> "room.join"])]
  BY DEF OnConnected, OnRoomJoined, OnJoinError
<1>4. PICK cs \in SUBSET Calls, pc \in {"ensure", "send", "failed"} :
         call' = Move(cs, pc) /\ \A c \in cs : call[c].pc \in {"wait", "join"}
  <2>1. /\ Waiting("wait") \in SUBSET Calls /\ \A c \in Waiting("wait") : call[c].pc = "wait"
        /\ joining \in SUBSET Calls /\ \A c \in joining : call[c].pc = "join"
    BY DEF TypeOK, Waiting
  <2>2. \/ call' = Move(Waiting("wait"), "ensure")
        \/ call' = Move(joining, "send")
        \/ call' = Move(joining, "failed")
    BY DEF OnConnected, OnRoomJoined, OnJoinError
  <2>3. QED BY <2>1, <2>2
<1>5. \A c \in Calls : /\ call'[c].attempt = call[c].attempt
                      /\ call'[c].pc = IF c \in cs THEN pc ELSE call[c].pc
  BY <1>4, TypeParts, Moves, Pcs
<1>6. Kept' /\ \A c \in Calls : Benign(c)
  BY <1>2, <1>4, <1>5 DEF Delivers, Kept, KeptOf, Benign
<1>7. Fit' /\ One'
  BY <1>1, <1>3, <1>6, Receiving
<1>8. Abstract
  <2>1. CASE pc = "failed"
    <3>1. \A c \in cs : Outcome(call[c].pc) = "open" /\ call'[c].pc = "failed"
      BY <1>4, <1>5, <2>1 DEF Outcome
    <3>2. QED BY <1>2, <1>5, <3>1, Fails
  <2>2. CASE pc # "failed"
    <3>1. \A c \in Calls : Outcome(call'[c].pc) = Outcome(call[c].pc)
      BY <1>4, <1>5, <2>2 DEF Outcome
    <3>2. QED BY <1>2, <3>1, Stutters
  <2>3. QED BY <2>1, <2>2
<1>9. QED BY <1>6, <1>7, <1>8 DEF Delivers

\* The message that the client reads: what it says of its call.
LEMMA Read ==
  ASSUME TypeOK, Delivers, NEW ev \in {"chat.message", "chat.error"}, Receive(ev)
  PROVE  /\ Next1 \in Envelope /\ Next1.id \in Ids /\ Next1.id[1] \in Calls
         /\ Token(Next1) = {<<Next1.id, Copies(Next1)>>}
         /\ Fits(Next1.id, Copies(Next1))
         /\ UNCHANGED stored
<1>1. gen \in Gens /\ down[gen] \in Seq(Envelope) /\ down[gen] # <<>> /\ Next1.ev = ev /\ UNCHANGED stored
  BY DEF Receive, TypeOK, server
<1>2. Next1 \in Envelope
  BY <1>1, Queues DEF Next1
<1>3. Next1.id \in Ids /\ Next1.id[1] \in Calls
  BY <1>1, <1>2, Carried, IdParts
<1>4. Token(Next1) = {<<Next1.id, Copies(Next1)>>}
  BY <1>1, <1>2, TokenOf DEF Chat
<1>5. Token(Next1) \subseteq Tokens(down[gen])
  BY <1>1, TokensTail DEF Next1
<1>6. <<Next1.id, Copies(Next1)>> \in Load(<<"down", gen>>) /\ <<"down", gen>> \in Places
  BY <1>1, <1>4, <1>5, Loads
<1>7. QED BY <1>1, <1>2, <1>3, <1>4, <1>6 DEF Delivers, Fit

LEMMA OnChatMessageDelivers ==
  ASSUME TypeOK, Delivers, OnChatMessage
  PROVE  Delivers' /\ Abstract
<1>1. Receive("chat.message") /\ UNCHANGED up /\ Next1.ev = "chat.message"
  BY DEF OnChatMessage, Receive
<1>2. PICK c \in Calls : c = Next1.id[1]
  BY <1>1, Read
<1>3. UNCHANGED stored /\ stored[c] = 1 /\ Token(Next1) = {<<Next1.id, 1>>} /\ Of(<<Next1.id, 1>>) = c
  BY <1>1, <1>2, Read DEF Copies, Fits, Of
<1>4. CASE ~Pending(Next1.id)
  <2>1. call' = call
    BY <1>4 DEF OnChatMessage
  <2>2. Fit' /\ One'
    BY <1>1, <1>3, <2>1, Receiving DEF Benign
  <2>3. Kept'
    BY <1>3, <2>1, KeptStays DEF Delivers, Kept
  <2>4. QED BY <1>3, <2>1, <2>2, <2>3, Stutters DEF Delivers
<1>5. CASE Pending(Next1.id)
  <2>1. call' = Move({c}, "ok") /\ call[c].pc = "sent"
    BY <1>2, <1>5 DEF OnChatMessage, Pending
  <2>2. call'[c].pc = "ok" /\ \A d \in Calls : d # c => call'[d] = call[d]
    BY <2>1, TypeParts, MovesOne, Pcs
  <2>3. Fit' /\ One'
    BY <1>1, <1>3, <2>2, Receiving DEF Benign
  <2>4. Kept'
    BY <1>3, <2>2, KeptStays DEF Delivers, Kept, KeptOf
  <2>5. results[c] = "open" /\ results' = [results EXCEPT ![c] = "ok"]
    <3>1. results[c] = "open" /\ results'[c] = "ok"
      BY <2>1, <2>2, Outcomes DEF Outcome
    <3>2. \A d \in Calls \ {c} : results'[d] = results[d]
      BY <2>2, Outcomes
    <3>3. QED BY <3>1, <3>2 DEF results
  <2>6. Delivery!Succeed(c)
    BY <1>3, <2>5 DEF Delivery!Succeed, results
  <2>7. Abstract
    BY <2>6 DEF Abstract, Delivery!Next
  <2>8. QED BY <2>3, <2>4, <2>7 DEF Delivers
<1>6. QED BY <1>4, <1>5

LEMMA OnChatErrorDelivers ==
  ASSUME TypeOK, Delivers, OnChatError
  PROVE  Delivers' /\ Abstract
<1>1. Receive("chat.error") /\ UNCHANGED up /\ Next1.ev = "chat.error"
  BY DEF OnChatError, Receive
<1>2. PICK c \in Calls : c = Next1.id[1]
  BY <1>1, Read
<1>3. PICK n \in {0, 1} : n = Copies(Next1)
  BY DEF Copies
<1>4. /\ UNCHANGED stored /\ stored[c] = n /\ Token(Next1) = {<<Next1.id, n>>} /\ Of(<<Next1.id, n>>) = c
      /\ Next1.reason # "lookup_failed" => n = 0
      /\ Next1.reason \in {"not_in_room", "not_stored", "lookup_failed"}
  BY <1>1, <1>2, <1>3, Read, Carried DEF Copies, Fits, Of
<1>5. CASE ~Pending(Next1.id)
  <2>1. call' = call
    BY <1>5 DEF OnChatError
  <2>2. Fit' /\ One'
    BY <1>1, <1>4, <2>1, Receiving DEF Benign
  <2>3. Kept'
    BY <1>4, <2>1, KeptStays DEF Delivers, Kept
  <2>4. QED BY <1>4, <2>1, <2>2, <2>3, Stutters DEF Delivers
<1>6. CASE Pending(Next1.id)
  <2>1. call[c].pc = "sent"
    BY <1>2, <1>6 DEF Pending
  <2>2. PICK pc \in {"again", "failed", "outside", "refused"} :
           call' = Move({c}, pc) /\ (pc # "failed" => n = 0)
    <3>1. CASE Retries(Next1.id, Next1.reason)
      BY <1>2, <1>4, <1>6, <3>1 DEF OnChatError, Retries
    <3>2. CASE ~Retries(Next1.id, Next1.reason)
      BY <1>2, <1>4, <1>6, <3>2 DEF OnChatError
    <3>3. QED BY <3>1, <3>2
  <2>3. call'[c].pc = pc /\ \A d \in Calls : d # c => call'[d] = call[d]
    BY <2>2, TypeParts, MovesOne, Pcs
  <2>4. Fit' /\ One'
    BY <1>1, <1>4, <2>3, Receiving DEF Benign
  <2>5. Kept'
    BY <1>4, <2>2, <2>3, KeptStays DEF Delivers, Kept, KeptOf
  <2>6. Abstract
    <3>1. CASE pc = "again"
      BY <1>4, <2>1, <2>3, <3>1, Stutters DEF Outcome
    <3>2. CASE pc = "failed"
      <4>1. {c} \in SUBSET Calls
        OBVIOUS
      <4>2. \A d \in {c} : Outcome(call[d].pc) = "open" /\ call'[d].pc = "failed"
        BY <2>1, <2>3, <3>2 DEF Outcome
      <4>3. QED BY <1>4, <2>3, <4>1, <4>2, Fails
    <3>3. CASE pc \in {"outside", "refused"}
      <4>1. results[c] = "open" /\ results'[c] = "refused"
        BY <2>1, <2>3, <3>3, Outcomes DEF Outcome
      <4>2. \A d \in Calls \ {c} : results'[d] = results[d]
        BY <2>3, Outcomes
      <4>3. results' = [results EXCEPT ![c] = "refused"]
        BY <4>1, <4>2 DEF results
      <4>4. Delivery!Refuse(c)
        BY <1>4, <2>2, <3>3, <4>1, <4>3 DEF Delivery!Refuse, results
      <4>5. QED BY <4>4 DEF Abstract, Delivery!Next
    <3>4. QED BY <3>1, <3>2, <3>3
  <2>7. QED BY <2>4, <2>5, <2>6 DEF Delivers
<1>7. QED BY <1>5, <1>6

-----------------------------------------------------------------------------
(* The server's steps keep the invariant and are abstract steps. *)

\* A message moves, and may be stored on the way.
LEMMA Moved ==
  ASSUME TypeOK, Delivers, UNCHANGED call,
         NEW q \in Places, NEW y \in Load(q), NEW r \in Places, NEW z,
         Of(z) = Of(y), Fits(z[1], z[2])',
         \A c \in Calls : c # Of(y) => stored'[c] = stored[c],
         \A p \in Places : \A x \in Load(p)' :
            \/ p = r /\ x = z
            \/ x \in Load(p) /\ (p = q => Of(x) # Of(y)),
         \A g \in Gens : Single(up'[g]) /\ Single(down'[g])
  PROVE  Fit' /\ One'
<1>1. ASSUME NEW p \in Places, NEW x \in Load(p), p = q => Of(x) # Of(y)
      PROVE  Of(x) # Of(z) /\ Benign(Of(x))
  <2>1. Of(x) # Of(y)
    BY <1>1 DEF Delivers, One
  <2>2. Of(x) \in Calls
    BY <1>1, LoadsTyped
  <2>3. QED BY <2>1, <2>2 DEF Benign
<1>2. QED BY <1>1, OneNew DEF Delivers

\* A message is answered.
LEMMA Answered ==
  ASSUME TypeOK, Delivers, UNCHANGED <<call, stored>>,
         NEW g \in Gens, NEW e \in Envelope, Reply(g, e),
         NEW q \in Places, q # <<"down", g>>, NEW y \in Load(q), Token(e) = {y},
         \A h \in Gens : /\ Tokens(up'[h]) \subseteq Tokens(up[h]) /\ Single(up'[h])
                        /\ Served1(serving'[h]) \subseteq Served1(serving[h]),
         Run1(running') \subseteq Run1(running),
         \A x \in Load(q)' : Of(x) # Of(y)
  PROVE  Fit' /\ One'
<1>1. /\ down[g] \in Seq(Envelope) /\ down'[g] = Append(down[g], e)
      /\ \A h \in Gens : h # g => down'[h] = down[h]
      /\ \A h \in Gens : Single(down[h])
  BY DEF TypeOK, Reply, Delivers, One
<1>2. <<"down", g>> \in Places /\ \A x \in Tokens(down[g]) : Of(x) # Of(y)
  <2>1. <<"down", g>> \in Places /\ Load(<<"down", g>>) = Tokens(down[g])
    BY Loads
  <2>2. \A x \in Load(<<"down", g>>) : Of(x) # Of(y)
    BY <2>1 DEF Delivers, One
  <2>3. QED BY <2>1, <2>2
<1>3. Tokens(down'[g]) = Tokens(down[g]) \cup {y} /\ Single(down'[g])
  BY <1>1, <1>2, TokensAppend
<1>4. ASSUME NEW p \in Places, NEW x \in Load(p)'
      PROVE  \/ p = <<"down", g>> /\ x = y
             \/ x \in Load(p) /\ (p = q => Of(x) # Of(y))
  <2>1. CASE p = <<"running", 0>>
    BY <1>4, <2>1, Loads, LoadsNext
  <2>2. ASSUME NEW h \in Gens, p = <<"serving", h>> PROVE x \in Load(p)
    BY <1>4, <2>2, Loads, LoadsNext
  <2>3. ASSUME NEW h \in Gens, p = <<"up", h>> PROVE x \in Load(p)
    BY <1>4, <2>3, Loads, LoadsNext
  <2>4. ASSUME NEW h \in Gens, h # g, p = <<"down", h>> PROVE x \in Load(p)
    BY <1>1, <1>4, <2>4, Loads, LoadsNext
  <2>5. CASE p = <<"down", g>>
    BY <1>3, <1>4, <2>5, Loads, LoadsNext
  <2>6. QED BY <1>4, <2>1, <2>2, <2>3, <2>4, <2>5, PlaceIs
<1>5. Fits(y[1], y[2])'
  BY DEF Delivers, Fit, Fits
<1>6. \A h \in Gens : Single(up'[h]) /\ Single(down'[h])
  BY <1>1, <1>3
<1>7. QED BY <1>2, <1>4, <1>5, <1>6, Moved

LEMMA StoredStays ==
  ASSUME TypeOK, Delivers, UNCHANGED <<call, stored>>
  PROVE  Kept' /\ Abstract /\ \A c \in Calls : Benign(c)
<1>1. Kept' /\ \A c \in Calls : Benign(c)
  BY KeptStays DEF Delivers, Kept, Benign
<1>2. QED BY <1>1, Stutters

LEMMA WireDelivers ==
  ASSUME TypeOK, Delivers, NEW g \in Gens, Break(g) \/ Register(g) \/ Unregister(g)
  PROVE  Delivers' /\ Abstract
<1>1. UNCHANGED <<call, stored, serving, running>>
  BY DEF Break, Register, Unregister, client, server
<1>2. Kept' /\ Abstract /\ \A c \in Calls : Benign(c)
  BY <1>1, StoredStays
<1>3. CASE Break(g) \/ Register(g)
  <2>1. [ev |-> "connected"] \in Envelope /\ ~Chat([ev |-> "connected"])
    BY Envelopes DEF Chat
  <2>2. UNCHANGED up /\ (UNCHANGED down \/ down' = [down EXCEPT ![g] = Append(@, [ev |-> "connected"])])
    BY <1>3 DEF Break, Register, Reply
  <2>3. QED BY <1>1, <1>2, <2>1, <2>2, Calm DEF Delivers
<1>4. CASE Unregister(g)
  <2>1. ASSUME NEW h \in Gens
        PROVE  up'[h] \in {up[h], <<>>} /\ down'[h] \in {down[h], <<>>}
    BY <1>4 DEF Unregister, TypeOK
  <2>2. ASSUME NEW h \in Gens
        PROVE  /\ Tokens(up'[h]) \subseteq Tokens(up[h]) /\ Single(up'[h])
               /\ Tokens(down'[h]) \subseteq Tokens(down[h]) /\ Single(down'[h])
               /\ Served1(serving'[h]) \subseteq Served1(serving[h])
    BY <1>1, <2>1, TokensEmpty DEF Delivers, One
  <2>3. ASSUME NEW p \in Places, NEW x \in Load(p)' PROVE x \in Load(p)
    BY <1>1, <2>2, <2>3, LoadsShrink
  <2>4. ASSUME NEW p \in Places, NEW x \in Load(p)' PROVE Benign(Of(x))
    BY <1>2, <2>3, <2>4, LoadsTyped
  <2>5. QED BY <1>2, <2>2, <2>3, <2>4, NothingNew DEF Delivers
<1>5. QED BY <1>3, <1>4

\* What ReadPump reads is out of the queue.
LEMMA Reading ==
  ASSUME TypeOK, Delivers, NEW g \in Gens, NEW ev, Reads(g, ev)
  PROVE  /\ up[g] \in Seq(Envelope) /\ up[g] # <<>> /\ Head(up[g]) \in Envelope /\ Head(up[g]).ev = ev
         /\ \A h \in Gens : Tokens(up'[h]) \subseteq Tokens(up[h]) /\ Single(up'[h])
         /\ Token(Head(up[g])) \subseteq Load(<<"up", g>>)
         /\ \A x \in Token(Head(up[g])), y \in Load(<<"up", g>>)' : Of(x) # Of(y)
         /\ serving[g] = Idle /\ UNCHANGED <<call, stored, running>>
<1>1. /\ up[g] \in Seq(Envelope) /\ up[g] # <<>> /\ Head(up[g]).ev = ev
      /\ up'[g] = Tail(up[g]) /\ \A h \in Gens : h # g => up'[h] = up[h]
      /\ \A h \in Gens : Single(up[h])
  BY DEF Reads, TypeOK, Delivers, One
<1>2. Head(up[g]) \in Envelope
  BY <1>1, Queues
<1>3. /\ Tokens(Tail(up[g])) \subseteq Tokens(up[g]) /\ Token(Head(up[g])) \subseteq Tokens(up[g])
      /\ Single(Tail(up[g]))
      /\ \A x \in Token(Head(up[g])), y \in Tokens(Tail(up[g])) : Of(x) # Of(y)
  BY <1>1, TokensTail
<1>4. serving[g] = Idle /\ UNCHANGED <<call, stored, running>>
  BY DEF Reads, client
<1>5. Load(<<"up", g>>) = Tokens(up[g]) /\ Load(<<"up", g>>)' = Tokens(Tail(up[g]))
  BY <1>1, Loads, LoadsNext
<1>6. QED BY <1>1, <1>2, <1>3, <1>4, <1>5

LEMMA HandleRoomDelivers ==
  ASSUME TypeOK, Delivers, NEW g \in Gens, HandleRoomJoin(g) \/ HandleRoomLeave(g)
  PROVE  Delivers' /\ Abstract
<1>1. PICK ev : Reads(g, ev)
  BY DEF HandleRoomJoin, HandleRoomLeave
<1>2. /\ \A h \in Gens : Tokens(up'[h]) \subseteq Tokens(up[h]) /\ Single(up'[h])
      /\ serving[g] = Idle /\ UNCHANGED <<call, stored, running>>
  BY <1>1, Reading
<1>3. Kept' /\ Abstract /\ \A c \in Calls : Benign(c)
  BY <1>2, StoredStays
<1>4. ASSUME NEW h \in Gens PROVE Served1(serving'[h]) \subseteq Served1(serving[h])
  <2>1. serving'[h] = serving[h] \/ serving'[h] = [step |-> "join"]
    BY DEF HandleRoomJoin, HandleRoomLeave, TypeOK
  <2>2. QED BY <2>1 DEF Served1
<1>5. ASSUME NEW h \in Gens PROVE Tokens(down'[h]) = Tokens(down[h]) /\ Single(down'[h])
  <2>1. [ev |-> "room.join_error"] \in Envelope /\ ~Chat([ev |-> "room.join_error"])
    BY Envelopes DEF Chat
  <2>2. down[h] \in Seq(Envelope) /\ Single(down[h])
    BY DEF TypeOK, Delivers, One
  <2>3. down'[h] = down[h] \/ down'[h] = Append(down[h], [ev |-> "room.join_error"])
    BY DEF HandleRoomJoin, HandleRoomLeave, Reply, TypeOK
  <2>4. QED BY <2>1, <2>2, <2>3, TokensNone
<1>6. ASSUME NEW p \in Places, NEW x \in Load(p)' PROVE x \in Load(p)
  BY <1>2, <1>4, <1>5, <1>6, LoadsShrink
<1>7. ASSUME NEW p \in Places, NEW x \in Load(p)' PROVE Benign(Of(x))
  BY <1>3, <1>6, <1>7, LoadsTyped
<1>8. QED BY <1>2, <1>3, <1>5, <1>6, <1>7, NothingNew DEF Delivers

LEMMA HandleChatSendDelivers ==
  ASSUME TypeOK, Delivers, NEW g \in Gens, HandleChatSend(g)
  PROVE  Delivers' /\ Abstract
<1>1. Reads(g, "chat.send")
  BY DEF HandleChatSend
<1>2. /\ Head(up[g]) \in Envelope /\ Head(up[g]).ev = "chat.send"
      /\ \A h \in Gens : Tokens(up'[h]) \subseteq Tokens(up[h]) /\ Single(up'[h])
      /\ Token(Head(up[g])) \subseteq Load(<<"up", g>>)
      /\ \A x \in Token(Head(up[g])), y \in Load(<<"up", g>>)' : Of(x) # Of(y)
      /\ serving[g] = Idle /\ UNCHANGED <<call, stored, running>>
  BY <1>1, Reading
<1>3. PICK id \in Ids : id = Head(up[g]).id
  BY <1>2, Carried
<1>0. PICK y : y = <<id, 0>>
  OBVIOUS
<1>4. Token(Head(up[g])) = {y}
  BY <1>0, <1>2, <1>3, TokenOf DEF Chat, Copies
<1>5. <<"up", g>> \in Places /\ y \in Load(<<"up", g>>)
  BY <1>2, <1>4, Loads
<1>6. Kept' /\ Abstract
  BY <1>2, StoredStays
<1>7. CASE serving' = [serving EXCEPT ![g] = [step |-> "create", id |-> id]] /\ UNCHANGED down
  <2>1. /\ serving'[g] = [step |-> "create", id |-> id]
        /\ \A h \in Gens : h # g => serving'[h] = serving[h]
    BY <1>7 DEF TypeOK
  <2>2. Served1(serving'[g]) = {y}
    BY <1>0, <2>1 DEF Served1
  <2>3. <<"serving", g>> \in Places
    BY Loads
  <2>4. ASSUME NEW p \in Places, NEW x \in Load(p)'
        PROVE  \/ p = <<"serving", g>> /\ x = y
               \/ x \in Load(p) /\ (p = <<"up", g>> => Of(x) # Of(y))
    <3>1. CASE p = <<"running", 0>>
      BY <1>2, <2>4, <3>1, Loads, LoadsNext
    <3>2. ASSUME NEW h \in Gens, p = <<"down", h>> PROVE x \in Load(p)
      BY <1>7, <2>4, <3>2, Loads, LoadsNext
    <3>3. ASSUME NEW h \in Gens, h # g, p = <<"serving", h>> PROVE x \in Load(p)
      BY <2>1, <2>4, <3>3, Loads, LoadsNext
    <3>4. CASE p = <<"serving", g>>
      BY <2>2, <2>4, <3>4, LoadsNext
    <3>5. ASSUME NEW h \in Gens, p = <<"up", h>> PROVE x \in Load(p)
      BY <1>2, <2>4, <3>5, Loads, LoadsNext
    <3>6. p = <<"up", g>> => Of(x) # Of(y)
      BY <1>2, <1>4, <2>4
    <3>7. QED BY <2>4, <3>1, <3>2, <3>3, <3>4, <3>5, <3>6, PlaceIs
  <2>5. Fits(y[1], y[2])'
    BY <1>2, <1>5 DEF Delivers, Fit, Fits
  <2>6. \A h \in Gens : Single(up'[h]) /\ Single(down'[h])
    BY <1>2, <1>7 DEF Delivers, One
  <2>7. Fit' /\ One'
    BY <1>2, <1>5, <2>3, <2>4, <2>5, <2>6, Moved
  <2>8. QED BY <1>6, <2>7 DEF Delivers
<1>8. ASSUME NEW r \in {"not_in_room", "not_stored"}, Error(g, id, r), UNCHANGED serving
      PROVE  Delivers'
  <2> DEFINE e == [ev |-> "chat.error", id |-> id, reason |-> r]
  <2>1. e \in Envelope /\ Reply(g, e)
    BY <1>8, Envelopes DEF Error
  <2>2. Token(e) = {y}
    BY <1>0, <2>1, TokenOf DEF Chat, Copies
  <2> HIDE DEF e
  <2>3. \A x \in Load(<<"up", g>>)' : Of(x) # Of(y)
    BY <1>2, <1>4
  <2>4. <<"up", g>> # <<"down", g>>
    OBVIOUS
  <2>5. Fit' /\ One'
    BY <1>2, <1>5, <1>8, <2>1, <2>2, <2>3, <2>4, Answered
  <2>6. QED BY <1>6, <2>5 DEF Delivers
<1>9. QED BY <1>3, <1>6, <1>7, <1>8 DEF HandleChatSend

\* The message that HandleMessage is at.
LEMMA Serving ==
  ASSUME TypeOK, Delivers, NEW g \in Gens, serving[g].step \in {"create", "lookup", "broadcast"},
         NEW n \in {0, 1}, n = IF serving[g].step = "create" THEN 0 ELSE 1
  PROVE  /\ serving[g].id \in Ids /\ serving[g].id[1] \in Calls
         /\ Served1(serving[g]) = {<<serving[g].id, n>>}
         /\ <<"serving", g>> \in Places /\ <<serving[g].id, n>> \in Load(<<"serving", g>>)
         /\ Fits(serving[g].id, n) /\ Of(<<serving[g].id, n>>) = serving[g].id[1]
<1>1. serving[g].id \in Ids /\ serving[g].id[1] \in Calls
  BY Served, IdParts
<1>2. Served1(serving[g]) = {<<serving[g].id, n>>}
  BY DEF Served1
<1>3. <<"serving", g>> \in Places /\ <<serving[g].id, n>> \in Load(<<"serving", g>>)
  BY <1>2, Loads
<1>4. Fits(serving[g].id, n)
  BY <1>3 DEF Delivers, Fit
<1>5. QED BY <1>1, <1>2, <1>3, <1>4 DEF Of

\* HandleMessage answers that something has gone wrong.
LEMMA ServingAnswered ==
  ASSUME TypeOK, Delivers, NEW g \in Gens, serving[g].step \in {"create", "lookup"},
         NEW r \in {"not_stored", "lookup_failed"},
         r = IF serving[g].step = "create" THEN "not_stored" ELSE "lookup_failed",
         Error(g, serving[g].id, r), serving' = [serving EXCEPT ![g] = Idle],
         UNCHANGED <<call, stored, up, running>>
  PROVE  Fit' /\ One'
<1>1. PICK n \in {0, 1} : n = IF serving[g].step = "create" THEN 0 ELSE 1
  OBVIOUS
<1>2. PICK id \in Ids : id = serving[g].id
  BY <1>1, Serving
<1>3. <<"serving", g>> \in Places /\ <<id, n>> \in Load(<<"serving", g>>)
  BY <1>1, <1>2, Serving
<1> DEFINE e == [ev |-> "chat.error", id |-> id, reason |-> r]
<1>4. e \in Envelope /\ Reply(g, e)
  BY <1>2, Envelopes DEF Error
<1>5. Token(e) = {<<id, n>>}
  BY <1>1, <1>4, TokenOf DEF Chat, Copies
<1> HIDE DEF e
<1>6. serving'[g] = Idle /\ \A h \in Gens : h # g => serving'[h] = serving[h]
  BY DEF TypeOK
<1>7. Served1(Idle) = {}
  BY DEF Served1, Idle
<1>8. \A h \in Gens : /\ Tokens(up'[h]) \subseteq Tokens(up[h]) /\ Single(up'[h])
                     /\ Served1(serving'[h]) \subseteq Served1(serving[h])
  BY <1>6, <1>7 DEF Delivers, One
<1>9. Load(<<"serving", g>>)' = {}
  BY <1>6, <1>7, LoadsNext
<1>10. <<"serving", g>> # <<"down", g>>
  OBVIOUS
<1>11. QED BY <1>3, <1>4, <1>5, <1>8, <1>9, <1>10, Answered

LEMMA CreateDelivers ==
  ASSUME TypeOK, Delivers, NEW g \in Gens, Create(g)
  PROVE  Delivers' /\ Abstract
<1>1. serving[g].step = "create" /\ UNCHANGED <<call, up, running>>
  BY DEF Create, At, client
<1>2. PICK id \in Ids : id = serving[g].id
  BY <1>1, Serving
<1>3. PICK c \in Calls : c = id[1]
  BY <1>2, IdParts
<1>4. PICK y : y = <<id, 0>>
  OBVIOUS
<1>5. PICK z : z = <<id, 1>>
  OBVIOUS
<1>6. /\ Served1(serving[g]) = {y} /\ <<"serving", g>> \in Places /\ y \in Load(<<"serving", g>>)
      /\ Fits(id, 0) /\ Of(y) = c /\ Of(z) = c
  BY <1>1, <1>2, <1>3, <1>4, <1>5, Serving DEF Of
<1>7. stored[c] = 0 /\ call[c].pc \in {"sent", "failed"} /\ call[c].attempt = id[2]
  BY <1>3, <1>6 DEF Fits
<1>8. CASE /\ stored' = [stored EXCEPT ![c] = @ + 1]
           /\ serving' = [serving EXCEPT ![g].step = "lookup"] /\ UNCHANGED down
  <2>1. stored'[c] = 1 /\ \A d \in Calls : d # c => stored'[d] = stored[d]
    BY <1>7, <1>8 DEF TypeOK
  <2>2. /\ serving'[g].step = "lookup" /\ serving'[g].id = id
        /\ \A h \in Gens : h # g => serving'[h] = serving[h]
    <3>1. serving[g] \in [step : Step, id : Ids]
      BY <1>1, Served
    <3>2. QED BY <1>2, <1>8, <3>1 DEF TypeOK
  <2>3. Served1(serving'[g]) = {z}
    BY <1>5, <2>2 DEF Served1
  <2>4. ASSUME NEW p \in Places, NEW x \in Load(p)'
        PROVE  \/ p = <<"serving", g>> /\ x = z
               \/ x \in Load(p) /\ (p = <<"serving", g>> => Of(x) # Of(y))
    <3>1. CASE p = <<"running", 0>>
      BY <1>1, <2>4, <3>1, Loads, LoadsNext
    <3>2. ASSUME NEW h \in Gens, p = <<"up", h>>
          PROVE  x \in Load(p) /\ p # <<"serving", g>>
      BY <1>1, <2>4, <3>2, Loads, LoadsNext
    <3>2a. ASSUME NEW h \in Gens, p = <<"down", h>>
          PROVE  x \in Load(p) /\ p # <<"serving", g>>
      BY <1>8, <2>4, <3>2a, Loads, LoadsNext
    <3>3. ASSUME NEW h \in Gens, h # g, p = <<"serving", h>>
          PROVE  x \in Load(p) /\ p # <<"serving", g>>
      BY <2>2, <2>4, <3>3, Loads, LoadsNext
    <3>4. CASE p = <<"serving", g>>
      BY <2>3, <2>4, <3>4, LoadsNext
    <3>5. p = <<"running", 0>> => p # <<"serving", g>>
      OBVIOUS
    <3>6. QED BY <3>1, <3>2, <3>2a, <3>3, <3>4, <3>5, PlaceIs
  <2>5. Fits(z[1], z[2])'
    BY <1>1, <1>3, <1>5, <1>7, <2>1 DEF Fits
  <2>6. \A h \in Gens : Single(up'[h]) /\ Single(down'[h])
    BY <1>1, <1>8 DEF Delivers, One
  <2>7. Fit' /\ One'
    BY <1>1, <1>6, <2>1, <2>4, <2>5, <2>6, Moved
  <2>8. Kept'
    BY <1>1, <1>7, <2>1, KeptStays DEF Delivers, Kept, KeptOf
  <2>9. Abstract
    <3>1. results' = results /\ results[c] \in {"open", "failed"}
      <4>1. results[c] \in {"open", "failed"}
        BY <1>7, Outcomes DEF Outcome
      <4>2. QED BY <1>1, <4>1, Outcomes DEF results
    <3>2. stored' = [stored EXCEPT ![c] = 1]
      BY <1>7, <1>8 DEF TypeOK
    <3>3. Delivery!Store(c)
      BY <1>7, <3>1, <3>2 DEF Delivery!Store, results
    <3>4. QED BY <3>3 DEF Abstract, Delivery!Next
  <2>10. QED BY <2>7, <2>8, <2>9 DEF Delivers
<1>9. CASE /\ Error(g, id, "not_stored") /\ serving' = [serving EXCEPT ![g] = Idle] /\ UNCHANGED stored
  <2>1. Fit' /\ One'
    BY <1>1, <1>2, <1>9, ServingAnswered
  <2>2. QED BY <1>1, <1>9, <2>1, StoredStays DEF Delivers
<1>10. QED BY <1>2, <1>3, <1>8, <1>9 DEF Create

LEMMA JoinDelivers ==
  ASSUME TypeOK, Delivers, NEW g \in Gens, Join(g)
  PROVE  Delivers' /\ Abstract
<1>1. /\ serving[g].step = "join" /\ serving' = [serving EXCEPT ![g] = Idle]
      /\ UNCHANGED <<call, up, running, stored>>
      /\ Reply(g, [ev |-> "room.joined"])
  BY DEF Join, At, client
<1>2. Kept' /\ Abstract /\ \A c \in Calls : Benign(c)
  BY <1>1, StoredStays
<1>3. ASSUME NEW h \in Gens PROVE Served1(serving'[h]) \subseteq Served1(serving[h])
  <2>1. serving'[h] = serving[h] \/ serving'[h] = Idle
    BY <1>1 DEF TypeOK
  <2>2. QED BY <2>1 DEF Served1, Idle
<1>4. ASSUME NEW h \in Gens PROVE Tokens(down'[h]) = Tokens(down[h]) /\ Single(down'[h])
  <2>1. [ev |-> "room.joined"] \in Envelope /\ ~Chat([ev |-> "room.joined"])
    BY Envelopes DEF Chat
  <2>2. down[h] \in Seq(Envelope) /\ Single(down[h])
    BY DEF TypeOK, Delivers, One
  <2>3. down'[h] = down[h] \/ down'[h] = Append(down[h], [ev |-> "room.joined"])
    BY <1>1 DEF Reply, TypeOK
  <2>4. QED BY <2>1, <2>2, <2>3, TokensNone
<1>5. ASSUME NEW p \in Places, NEW x \in Load(p)' PROVE x \in Load(p)
  BY <1>1, <1>3, <1>4, <1>5, LoadsShrink
<1>6. ASSUME NEW p \in Places, NEW x \in Load(p)' PROVE Benign(Of(x))
  BY <1>2, <1>5, <1>6, LoadsTyped
<1>7. \A h \in Gens : Single(up'[h]) /\ Single(down'[h])
  BY <1>1, <1>4 DEF Delivers, One
<1>8. QED BY <1>2, <1>5, <1>6, <1>7, NothingNew DEF Delivers

LEMMA LookupDelivers ==
  ASSUME TypeOK, Delivers, NEW g \in Gens, Lookup(g)
  PROVE  Delivers' /\ Abstract
<1>1. serving[g].step = "lookup" /\ UNCHANGED <<call, up, running, stored>>
  BY DEF Lookup, At, client
<1>2. Kept' /\ Abstract /\ \A c \in Calls : Benign(c)
  BY <1>1, StoredStays
<1>3. CASE serving' = [serving EXCEPT ![g].step = "broadcast"] /\ UNCHANGED down
  <2>1. /\ serving'[g].step = "broadcast" /\ serving'[g].id = serving[g].id
        /\ \A h \in Gens : h # g => serving'[h] = serving[h]
    <3>1. serving[g] \in [step : Step, id : Ids]
      BY <1>1, Served
    <3>2. QED BY <1>3, <3>1 DEF TypeOK
  <2>2. \A h \in Gens : Served1(serving'[h]) = Served1(serving[h])
    BY <1>1, <2>1 DEF Served1
  <2>3. ASSUME NEW p \in Places, NEW x \in Load(p)' PROVE x \in Load(p)
    <3>1. CASE p = <<"running", 0>>
      BY <1>1, <2>3, <3>1, Loads, LoadsNext
    <3>2. ASSUME NEW h \in Gens, p \in {<<"up", h>>, <<"down", h>>, <<"serving", h>>} PROVE x \in Load(p)
      BY <1>1, <1>3, <2>2, <2>3, <3>2, Loads, LoadsNext
    <3>3. QED BY <3>1, <3>2, PlaceIs
  <2>4. ASSUME NEW p \in Places, NEW x \in Load(p)' PROVE Benign(Of(x))
    BY <1>2, <2>3, <2>4, LoadsTyped
  <2>5. \A h \in Gens : Single(up'[h]) /\ Single(down'[h])
    BY <1>1, <1>3 DEF Delivers, One
  <2>6. QED BY <1>2, <2>3, <2>4, <2>5, NothingNew DEF Delivers
<1>4. CASE Error(g, serving[g].id, "lookup_failed") /\ serving' = [serving EXCEPT ![g] = Idle]
  BY <1>1, <1>2, <1>4, ServingAnswered DEF Delivers
<1>5. QED BY <1>3, <1>4 DEF Lookup

LEMMA BroadcastDelivers ==
  ASSUME TypeOK, Delivers, NEW g \in Gens, BroadcastToRoom(g)
  PROVE  Delivers' /\ Abstract
<1>1. /\ serving[g].step = "broadcast" /\ running = NoId /\ running' = serving[g].id
      /\ serving' = [serving EXCEPT ![g] = Idle] /\ UNCHANGED <<call, up, down, stored>>
  BY DEF BroadcastToRoom, At, client
<1>2. Kept' /\ Abstract
  BY <1>1, StoredStays
<1>3. PICK y : y = <<serving[g].id, 1>>
  OBVIOUS
<1>4. <<"serving", g>> \in Places /\ y \in Load(<<"serving", g>>) /\ serving[g].id \in Ids
  BY <1>1, <1>3, Serving
<1>5. Run1(running') = {y}
  BY <1>1, <1>3, <1>4, IdParts DEF Run1
<1>6. /\ Served1(serving'[g]) = {} /\ \A h \in Gens : h # g => serving'[h] = serving[h]
  BY <1>1 DEF TypeOK, Served1, Idle
<1>7. ASSUME NEW p \in Places, NEW x \in Load(p)'
      PROVE  \/ p = <<"running", 0>> /\ x = y
             \/ x \in Load(p) /\ (p = <<"serving", g>> => Of(x) # Of(y))
  <2>1. CASE p = <<"running", 0>>
    BY <1>5, <1>7, <2>1, LoadsNext
  <2>2. ASSUME NEW h \in Gens, p = <<"up", h>>
        PROVE  x \in Load(p)
    BY <1>1, <1>7, <2>2, Loads, LoadsNext
  <2>2a. ASSUME NEW h \in Gens, p = <<"down", h>>
        PROVE  x \in Load(p)
    BY <1>1, <1>7, <2>2a, Loads, LoadsNext
  <2>3. ASSUME NEW h \in Gens, h # g, p = <<"serving", h>>
        PROVE  x \in Load(p) /\ p # <<"serving", g>>
    BY <1>6, <1>7, <2>3, Loads, LoadsNext
  <2>4. p # <<"serving", g>>
    BY <1>6, <1>7, LoadsNext
  <2>5. QED BY <2>1, <2>2, <2>2a, <2>3, <2>4, PlaceIs
<1>8. <<"running", 0>> \in Places
  BY Loads
<1>9. Fits(y[1], y[2])'
  BY <1>1, <1>4 DEF Delivers, Fit, Fits
<1>10. \A h \in Gens : Single(up'[h]) /\ Single(down'[h])
  BY <1>1 DEF Delivers, One
<1>11. Fit' /\ One'
  BY <1>1, <1>4, <1>7, <1>8, <1>9, <1>10, Moved
<1>12. QED BY <1>2, <1>11 DEF Delivers

LEMMA RunDelivers ==
  ASSUME TypeOK, Delivers, RunBroadcast \/ KickMember \/ KickUnsub
  PROVE  Delivers' /\ Abstract
<1>1. UNCHANGED <<call, stored, up, serving>>
  BY DEF RunBroadcast, KickMember, KickUnsub, client, wire
<1>2. Kept' /\ Abstract /\ \A c \in Calls : Benign(c)
  BY <1>1, StoredStays
<1>3. CASE KickMember \/ KickUnsub
  <2>1. UNCHANGED <<down, running>>
    BY <1>3 DEF KickMember, KickUnsub, wire
  <2>2. QED BY <1>1, <1>2, <2>1, Calm DEF Delivers
<1>4. CASE RunBroadcast
  <2>1. running # NoId /\ running \in Ids /\ running' = NoId
    BY <1>4 DEF RunBroadcast, TypeOK
  <2>2. PICK y : y = <<running, 1>>
    OBVIOUS
  <2>3. <<"running", 0>> \in Places /\ y \in Load(<<"running", 0>>) /\ Run1(running') = {}
    BY <2>1, <2>2, Loads DEF Run1
  <2>4. CASE clients # 0 /\ Reply(clients, [ev |-> "chat.message", id |-> running])
    <3> DEFINE e == [ev |-> "chat.message", id |-> running]
    <3>1. clients \in Gens
      BY <2>4, SessionAssumption DEF TypeOK, Gens
    <3>2. e \in Envelope /\ Reply(clients, e)
      BY <2>1, <2>4, Envelopes
    <3>3. Token(e) = {y}
      BY <2>2, <3>2, TokenOf DEF Chat, Copies
    <3> HIDE DEF e
    <3>4. \A h \in Gens : /\ Tokens(up'[h]) \subseteq Tokens(up[h]) /\ Single(up'[h])
                         /\ Served1(serving'[h]) \subseteq Served1(serving[h])
      BY <1>1 DEF Delivers, One
    <3>5. Run1(running') \subseteq Run1(running) /\ Load(<<"running", 0>>)' = {}
      BY <2>3, LoadsNext
    <3>6. <<"running", 0>> # <<"down", clients>>
      OBVIOUS
    <3>7. Fit' /\ One'
      BY <1>1, <2>3, <3>1, <3>2, <3>3, <3>4, <3>5, <3>6, Answered
    <3>8. QED BY <1>2, <3>7 DEF Delivers
  <2>5. CASE UNCHANGED down
    <3>1. ASSUME NEW p \in Places, NEW x \in Load(p)' PROVE x \in Load(p)
      <4>1. CASE p = <<"running", 0>>
        BY <2>3, <3>1, <4>1, LoadsNext
      <4>2. ASSUME NEW h \in Gens, p \in {<<"up", h>>, <<"down", h>>, <<"serving", h>>} PROVE x \in Load(p)
        BY <1>1, <2>5, <3>1, <4>2, Loads, LoadsNext
      <4>3. QED BY <4>1, <4>2, PlaceIs
    <3>2. ASSUME NEW p \in Places, NEW x \in Load(p)' PROVE Benign(Of(x))
      BY <1>2, <3>1, <3>2, LoadsTyped
    <3>3. \A h \in Gens : Single(up'[h]) /\ Single(down'[h])
      BY <1>1, <2>5 DEF Delivers, One
    <3>4. QED BY <1>2, <3>1, <3>2, <3>3, NothingNew DEF Delivers
  <2>6. QED BY <1>4, <2>4, <2>5 DEF RunBroadcast
<1>5. QED BY <1>3, <1>4

-----------------------------------------------------------------------------
(* Every step. *)

IInv == TypeOK /\ Delivers

LEMMA InitDelivers == Init => IInv /\ Delivery!Init
<1> SUFFICES ASSUME Init PROVE IInv /\ Delivery!Init
  OBVIOUS
<1>1. TypeOK
  BY InitTypes
<1>2. \A g \in Gens : up[g] = <<>> /\ down[g] = <<>> /\ serving[g] = Idle
  BY DEF Init
<1>3. \A p \in Places : Load(p) = {}
  <2>1. Tokens(<<>>) = {} /\ Served1(Idle) = {} /\ Run1(running) = {}
    BY TokensEmpty DEF Served1, Idle, Run1, Init
  <2>2. QED BY <1>2, <2>1, Loads, PlaceIs
<1>4. Fit /\ One
  BY <1>2, <1>3, TokensEmpty DEF Fit, One
<1>5. Kept
  BY DEF Init, Kept, KeptOf
<1>6. Delivery!Init
  <2>1. \A c \in Calls : Result(c) = "none"
    BY DEF Init, Result
  <2>2. QED BY <2>1 DEF Init, Delivery!Init
<1>7. QED BY <1>1, <1>4, <1>5, <1>6 DEF IInv, Delivers

\* A message that HandleMessage is about to store has not been stored.
LEMMA CreateFresh ==
  ASSUME IInv, NEW g \in Gens
  PROVE  serving[g].step = "create" => stored[serving[g].id[1]] = 0
  BY Serving DEF IInv, Fits

LEMMA ClientKeeps == IInv /\ Client => IInv' /\ Abstract
<1> SUFFICES ASSUME IInv, Client PROVE IInv' /\ Abstract
  OBVIOUS
<1>1. TypeOK /\ Delivers
  BY DEF IInv
<1>2. CASE \E c \in Calls : SendChat(c) \/ EnsureRoomJoined(c) \/ SendChatOnce(c) \/ Timeout(c)
  BY <1>1, <1>2, CallStepTypes, SendChatDelivers, EnsureRoomJoinedDelivers, SendChatOnceDelivers,
     TimeoutDelivers DEF IInv
<1>3. CASE OnConnected \/ OnRoomJoined \/ OnJoinError \/ OnChatMessage \/ OnChatError
  BY <1>1, <1>3, ReceiveTypes, RoomAnswerDelivers, OnChatMessageDelivers, OnChatErrorDelivers DEF IInv
<1>4. CASE LeaveRoom \/ Done \/ Watchdog \/ Open
  BY <1>1, <1>4, LeaveRoomTypes, ConnectionTypes, LeaveRoomDelivers, ConnectionDelivers DEF IInv
<1>5. QED BY <1>2, <1>3, <1>4 DEF Client

LEMMA ServerKeeps == IInv /\ Server => IInv' /\ Abstract
<1> SUFFICES ASSUME IInv, Server PROVE IInv' /\ Abstract
  OBVIOUS
<1>1. TypeOK /\ Delivers
  BY DEF IInv
<1>2. ASSUME NEW g \in Gens, Break(g) \/ Register(g) \/ Unregister(g) PROVE IInv' /\ Abstract
  BY <1>1, <1>2, WireStepTypes, WireDelivers DEF IInv
<1>3. ASSUME NEW g \in Gens, HandleRoomJoin(g) \/ HandleRoomLeave(g) \/ HandleChatSend(g)
      PROVE  IInv' /\ Abstract
  BY <1>1, <1>3, HandleTypes, HandleRoomDelivers, HandleChatSendDelivers DEF IInv
<1>4. ASSUME NEW g \in Gens, Join(g) \/ Create(g) \/ Lookup(g) \/ BroadcastToRoom(g)
      PROVE  IInv' /\ Abstract
  <2>1. TypeOK'
    BY <1>1, <1>4, CreateFresh, ServeTypes
  <2>2. QED BY <1>1, <1>4, <2>1, JoinDelivers, CreateDelivers, LookupDelivers, BroadcastDelivers DEF IInv
<1>5. CASE RunBroadcast \/ KickMember \/ KickUnsub
  BY <1>1, <1>5, RunTypes, RunDelivers DEF IInv
<1>6. QED BY <1>2, <1>3, <1>4, <1>5 DEF Server

LEMMA StepsDeliver == IInv /\ [Next]_vars => IInv' /\ Abstract
<1> SUFFICES ASSUME IInv, [Next]_vars PROVE IInv' /\ Abstract
  OBVIOUS
<1>1. CASE UNCHANGED vars
  <2>1. UNCHANGED <<client, wire, server, crossed, call, stored, up, down, serving, running>>
    BY <1>1 DEF vars, client, wire, server
  <2>2. TypeOK'
    BY <2>1, PartsStay, TypeParts DEF IInv
  <2>3. Fit' /\ One'
    BY <2>1, Calm DEF IInv, Delivers, Benign
  <2>4. QED BY <2>1, <2>2, <2>3, StoredStays DEF IInv, Delivers
<1>2. QED BY <1>1, ClientKeeps, ServerKeeps DEF Next

-----------------------------------------------------------------------------
(* Theorems *)

\* Every state of every run is well formed: in particular no message is stored a
\* third time, whatever is retried (ws_service.dart, client.go, hub.go).
THEOREM TypeCorrect == Spec => []TypeOK
<1>1. IInv => TypeOK BY DEF IInv
<1>2. QED BY InitDelivers, StepsDeliver, <1>1, PTL DEF Spec

\* A call has one message under way at most, and what is under way says truly how
\* often it has been stored: why the retry and a failure that arrives late are safe
\* (ws_service.dart:340-419, hub.go:248-338).
THEOREM OneUnderWay == Spec => []Delivers
<1>1. IInv => Delivers BY DEF IInv
<1>2. QED BY InitDelivers, StepsDeliver, <1>1, PTL DEF Spec

\* The client and the server together implement what ChatDelivery promises the
\* caller of sendChat (ws_service.dart:340-363).
THEOREM DeliveryImplemented == Spec => DeliveryHolds
<1>1. Init => Delivery!Init
  BY InitDelivers
<1>2. IInv /\ [Next]_vars => [Delivery!Next]_<<stored, [c \in Calls |-> Result(c)]>>
  BY StepsDeliver DEF Abstract, results
<1>3. QED BY InitDelivers, StepsDeliver, <1>1, <1>2, PTL DEF Spec, DeliveryHolds, Delivery!Spec
=============================================================================
