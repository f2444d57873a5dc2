----------------------------- MODULE ChatSession -----------------------------
(***************************************************************************)
(* Sending chat messages to one room, end to end: the client's WsService   *)
(* (ws_service.dart) and, behind every connection it opens, the server's   *)
(* Client and Hub (ws/client.go, ws/hub.go), reduced to room.join,         *)
(* room.leave and chat.send.  ChatDelivery says what this promises.        *)
(*                                                                         *)
(* The client is one event loop: a step is what runs between two awaits.   *)
(* On the server a step ends at a query or a handover.  A connection keeps *)
(* the order of what is sent either way, and loses what is under way when  *)
(* it breaks, which the two ends notice each in its own time.  The bounded *)
(* Send buffers and the other members' events are Hub's subject.           *)
(***************************************************************************)
EXTENDS Naturals, Sequences

CONSTANTS
    Calls,          \* sendChat calls
    MaxGen,         \* bound: connections opened
    MaxLeaves,      \* bound: leaveRoom calls
    Faults          \* bound: what may go wrong

ASSUME SessionAssumption == MaxGen \in Nat \ {0} /\ MaxLeaves \in Nat

Gens == 1..MaxGen       \* the connections, by _connectionGeneration

VARIABLES
    \* the client
    state,          \* _state
    gen,            \* the last connection opened; the open one unless disconnected
    timer,          \* _reconnectTimer is active
    joined,         \* the room is in _joinedRooms
    confirmed,      \* the room is in _confirmedRooms
    joining,        \* calls that wait for the room's completer in _roomJoinCompleters
    call,           \* sendChat calls
    leaves,
    \* a connection
    up, down,       \* what is under way to the server, to the client
    broken,         \* no longer carries anything
    \* the server
    conn,           \* Client of the connection
    sub,            \* Client.Rooms has the room
    serving,        \* what HandleMessage is at
    running,        \* the message that Run delivers, or none
    clients,        \* Hub.Clients of the user: a connection, or 0
    kick,           \* how far the user has been kicked
    stored,         \* messages : how often that of a call has been stored
    crossed         \* history: connections on which a room.leave was sent before the answer to a room.join

client == <<state, gen, timer, joined, confirmed, joining, call, leaves>>
wire   == <<up, down, broken>>
server == <<conn, sub, serving, running, clients, kick, stored>>
vars   == <<client, wire, server, crossed>>

\* A message is known by its call and the attempt, its client_message_id.
Ids      == Calls \X {1, 2}
Envelope == [ev : {"connected", "room.join", "room.leave", "room.joined", "room.join_error"}] \cup
            [ev : {"chat.send", "chat.message"}, id : Ids] \cup
            [ev : {"chat.error"}, id : Ids, reason : {"not_in_room", "not_stored", "lookup_failed"}]

\* Where a call is: waiting for the connection; about to join, waiting for it;
\* about to send, waiting for the echo; about to try again.
\* "outside": refused for not being in the room, both times.
CallPC == {"idle", "wait", "ensure", "join", "send", "sent", "again",
           "ok", "refused", "outside", "failed"}
Step   == {"none", "join", "create", "lookup", "broadcast"}
Idle   == [step |-> "none"]
NoId   == <<>>

-----------------------------------------------------------------------------
Init ==
    /\ state = "connecting" /\ gen = 1 /\ timer = FALSE
    /\ joined = FALSE /\ confirmed = FALSE /\ joining = {} /\ leaves = 0
    /\ call = [c \in Calls |-> [pc |-> "idle", attempt |-> 1]]
    /\ up = [g \in Gens |-> <<>>] /\ down = [g \in Gens |-> <<>>]
    /\ broken = [g \in Gens |-> FALSE]
    /\ conn = [g \in Gens |-> "none"] /\ sub = [g \in Gens |-> FALSE]
    /\ serving = [g \in Gens |-> Idle]
    /\ running = NoId /\ clients = 0 /\ kick = "none"
    /\ stored = [c \in Calls |-> 0]
    /\ crossed = {}

-----------------------------------------------------------------------------
(* The client *)

Waiting(pc) == {c \in Calls : call[c].pc = pc}
Move(cs, pc) == [c \in Calls |-> IF c \in cs THEN [call[c] EXCEPT !.pc = pc] ELSE call[c]]

\* sendEvent drops what is sent while not connected.
Send(e) == up' = IF state = "connected" THEN [up EXCEPT ![gen] = Append(@, e)] ELSE up

\* sendChat, and its second attempt: ensureRoomJoined waits for the connection.
SendChat(c) ==
    /\ call[c].pc \in {"idle", "again"}
    /\ joined' = TRUE
    /\ call' = [call EXCEPT ![c].pc = IF state = "connected" THEN "ensure" ELSE "wait",
                            ![c].attempt = IF call[c].pc = "again" THEN 2 ELSE 1]
    /\ UNCHANGED <<state, gen, timer, confirmed, joining, leaves, wire, server, crossed>>

\* Connected, the call goes on if the room is confirmed, and asks to join if not.
EnsureRoomJoined(c) ==
    /\ call[c].pc = "ensure"
    /\ IF confirmed
       THEN /\ call' = Move({c}, "send")
            /\ UNCHANGED <<joining, up>>
       ELSE /\ call' = Move({c}, "join")
            /\ joining' = joining \cup {c}
            /\ Send([ev |-> "room.join"])
    /\ UNCHANGED <<state, gen, timer, joined, confirmed, leaves, down, broken, server, crossed>>

SendChatOnce(c) ==
    /\ call[c].pc = "send"
    /\ call' = Move({c}, IF state = "connected" THEN "sent" ELSE "failed")
    /\ Send([ev |-> "chat.send", id |-> <<c, call[c].attempt>>])
    /\ UNCHANGED <<state, gen, timer, joined, confirmed, joining, leaves, down, broken, server, crossed>>

\* Variant of StillJoining: the completer stays for whoever waits next.
StillJoiningAll(c) == joining

\* Whose wait for the room times out takes the completer away: others that wait for
\* it will time out as well.
StillJoining(c) == IF c \in joining THEN {} ELSE joining

\* Ten seconds have passed.
Timeout(c) ==
    /\ call[c].pc \in {"wait", "join", "sent"}
    /\ call' = Move({c}, "failed")
    /\ joining' = StillJoining(c)
    /\ UNCHANGED <<state, gen, timer, joined, confirmed, leaves, wire, server, crossed>>

\* A room.join has not been answered, or its answer has not been read.
Unanswered(g) ==
    \/ serving[g].step = "join"
    \/ \E i \in DOMAIN up[g] : up[g][i].ev = "room.join"
    \/ \E i \in DOMAIN down[g] : down[g][i].ev = "room.joined"

\* Variant of Forget: the room stays confirmed.
ForgetJoined == joined' = FALSE /\ UNCHANGED confirmed

Forget == joined' = FALSE /\ confirmed' = FALSE

\* The user leaves the room's page.
LeaveRoom ==
    /\ joined /\ leaves < MaxLeaves
    /\ leaves' = leaves + 1
    /\ Forget /\ joining' = {}
    /\ call' = Move(joining, "failed")
    /\ Send([ev |-> "room.leave"])
    /\ crossed' = IF state = "connected" /\ Unanswered(gen) THEN crossed \cup {gen} ELSE crossed
    /\ UNCHANGED <<state, gen, timer, down, broken, server>>

\* The client does not listen to a connection it has given up.
Listens == state # "disconnected"
Next1   == Head(down[gen])
Receive(ev) ==
    /\ Listens /\ down[gen] # <<>> /\ Next1.ev = ev
    /\ down' = [down EXCEPT ![gen] = Tail(@)]
    /\ UNCHANGED <<gen, timer, broken, server, leaves, crossed>>

\* The calls that wait are woken, and the room is joined again.
OnConnected ==
    /\ Receive("connected")
    /\ state' = "connected" /\ confirmed' = FALSE
    /\ call' = Move(Waiting("wait"), "ensure")
    /\ up' = IF joined THEN [up EXCEPT ![gen] = Append(@, [ev |-> "room.join"])] ELSE up
    /\ UNCHANGED <<joined, joining>>

OnRoomJoined ==
    /\ Receive("room.joined")
    /\ confirmed' = TRUE /\ joining' = {}
    /\ call' = Move(joining, "send")
    /\ UNCHANGED <<state, joined, up>>

OnJoinError ==
    /\ Receive("room.join_error")
    /\ confirmed' = FALSE /\ joining' = {}
    /\ call' = Move(joining, "failed")
    /\ UNCHANGED <<state, joined, up>>

Pending(id) == call[id[1]].pc = "sent" /\ call[id[1]].attempt = id[2]

OnChatMessage ==
    /\ Receive("chat.message")
    /\ call' = IF Pending(Next1.id) THEN Move({Next1.id[1]}, "ok") ELSE call
    /\ UNCHANGED <<state, joined, confirmed, joining, up>>

\* Variant of Retries: whatever the reason, the message is sent again.
RetriesAlways(id, reason) == id[2] = 1

\* Only a message that was refused before it was stored is sent again.
Retries(id, reason) == reason = "not_in_room" /\ id[2] = 1

\* Variant of StillConfirmed: a refusal says nothing of the room.
StillConfirmedAlways(id, reason) == confirmed

\* What a chat.error leaves of the room's confirmation.
StillConfirmed(id, reason) == confirmed /\ ~joined /\ ~(Pending(id) /\ Retries(id, reason))

OnChatError ==
    /\ Receive("chat.error")
    /\ call' = IF ~Pending(Next1.id) THEN call
               ELSE Move({Next1.id[1]},
                         IF Retries(Next1.id, Next1.reason) THEN "again"
                         ELSE CASE Next1.reason = "lookup_failed" -> "failed"
                                [] Next1.reason = "not_in_room"   -> "outside"
                                [] Next1.reason = "not_stored"    -> "refused")
    /\ confirmed' = StillConfirmed(Next1.id, Next1.reason)
    /\ UNCHANGED <<state, joined, joining, up>>

\* _handleDone, _handleError, _cleanupAndReconnect: what waits for an echo fails,
\* what waits for the room goes on waiting.
GiveUp ==
    /\ state' = "disconnected" /\ confirmed' = FALSE /\ timer' = TRUE
    /\ call' = Move(Waiting("sent"), "failed")
    /\ UNCHANGED <<gen, joined, joining, leaves, up, down, server, crossed>>

Done     == Listens /\ broken[gen] /\ GiveUp /\ UNCHANGED broken
Watchdog == state = "connecting" /\ gen < MaxGen /\ GiveUp /\ broken' = [broken EXCEPT ![gen] = TRUE]

\* The reconnect timer: _open.
Open ==
    /\ timer /\ gen < MaxGen
    /\ gen' = gen + 1 /\ state' = "connecting" /\ timer' = FALSE
    /\ UNCHANGED <<joined, confirmed, joining, call, leaves, wire, server, crossed>>

-----------------------------------------------------------------------------
(* The server *)

\* The network fails, but for the last connection.
Break(g) ==
    /\ "break" \in Faults /\ g <= gen /\ g < MaxGen /\ ~broken[g]
    /\ broken' = [broken EXCEPT ![g] = TRUE]
    /\ UNCHANGED <<client, up, down, server, crossed>>

Reply(g, e) == down' = [down EXCEPT ![g] = Append(@, e)]

\* Run, when it does not deliver, takes the next connection: one that was slow to
\* be accepted may take the place of a newer one.
Register(g) ==
    /\ running = NoId /\ g <= gen /\ conn[g] = "none"
    /\ conn' = [conn EXCEPT ![g] = "open"]
    /\ clients' = g
    /\ Reply(g, [ev |-> "connected"])
    /\ UNCHANGED <<client, up, broken, sub, serving, running, kick, stored, crossed>>

\* ReadPump ends, and what has not been read is lost.
Unregister(g) ==
    /\ running = NoId /\ conn[g] = "open" /\ broken[g] /\ serving[g] = Idle
    /\ conn' = [conn EXCEPT ![g] = "closed"]
    /\ sub' = [sub EXCEPT ![g] = FALSE]
    /\ clients' = IF clients = g THEN 0 ELSE clients
    /\ up' = [up EXCEPT ![g] = <<>>] /\ down' = [down EXCEPT ![g] = <<>>]
    /\ UNCHANGED <<client, broken, serving, running, kick, stored, crossed>>

IsMember == kick = "none"

\* ReadPump reads the next message.
Reads(g, ev) ==
    /\ conn[g] = "open" /\ serving[g] = Idle
    /\ up[g] # <<>> /\ Head(up[g]).ev = ev
    /\ up' = [up EXCEPT ![g] = Tail(@)]
    /\ UNCHANGED <<client, broken, conn, running, clients, kick, stored, crossed>>

HandleRoomJoin(g) ==
    /\ Reads(g, "room.join")
    /\ IF IsMember
       THEN /\ serving' = [serving EXCEPT ![g] = [step |-> "join"]]
            /\ UNCHANGED down
       ELSE /\ Reply(g, [ev |-> "room.join_error"])
            /\ UNCHANGED serving
    /\ UNCHANGED sub

HandleRoomLeave(g) ==
    /\ Reads(g, "room.leave")
    /\ sub' = [sub EXCEPT ![g] = FALSE]
    /\ UNCHANGED <<down, serving>>

Error(g, id, reason) == Reply(g, [ev |-> "chat.error", id |-> id, reason |-> reason])

\* The rest of what may be wrong with a message is in its content.
HandleChatSend(g) ==
    LET id == Head(up[g]).id IN
    /\ Reads(g, "chat.send")
    /\ IF sub[g] /\ IsMember
       THEN /\ serving' = [serving EXCEPT ![g] = [step |-> "create", id |-> id]]
            /\ UNCHANGED down
       ELSE /\ Error(g, id, IF sub[g] THEN "not_stored" ELSE "not_in_room")
            /\ UNCHANGED serving
    /\ UNCHANGED sub

At(g, step) ==
    /\ serving[g].step = step
    /\ UNCHANGED <<client, up, broken, conn, clients, kick, crossed>>

\* JoinRoom, whatever has become of the membership since.
Join(g) ==
    /\ At(g, "join")
    /\ serving' = [serving EXCEPT ![g] = Idle]
    /\ sub' = [sub EXCEPT ![g] = TRUE]
    /\ Reply(g, [ev |-> "room.joined"])
    /\ UNCHANGED <<running, stored>>

\* Variant of Create: a failure is answered with the message's echo.
CreateUnchecked(g) ==
    LET id == serving[g].id IN
    /\ At(g, "create")
    /\ \/ stored' = [stored EXCEPT ![id[1]] = @ + 1]
       \/ "create" \in Faults /\ UNCHANGED stored
    /\ serving' = [serving EXCEPT ![g].step = "lookup"]
    /\ UNCHANGED <<down, sub, running>>

Create(g) ==
    LET id == serving[g].id IN
    /\ At(g, "create")
    /\ \/ /\ stored' = [stored EXCEPT ![id[1]] = @ + 1]
          /\ serving' = [serving EXCEPT ![g].step = "lookup"]
          /\ UNCHANGED down
       \/ /\ "create" \in Faults
          /\ Error(g, id, "not_stored")
          /\ serving' = [serving EXCEPT ![g] = Idle]
          /\ UNCHANGED stored
    /\ UNCHANGED <<sub, running>>

\* The message has been stored when the client is told of the failure.
Lookup(g) ==
    /\ At(g, "lookup")
    /\ \/ /\ serving' = [serving EXCEPT ![g].step = "broadcast"]
          /\ UNCHANGED down
       \/ /\ "lookup" \in Faults
          /\ Error(g, serving[g].id, "lookup_failed")
          /\ serving' = [serving EXCEPT ![g] = Idle]
    /\ UNCHANGED <<sub, running, stored>>

\* Run takes the message, and ReadPump goes on while it is delivered.
BroadcastToRoom(g) ==
    /\ At(g, "broadcast") /\ running = NoId
    /\ running' = serving[g].id
    /\ serving' = [serving EXCEPT ![g] = Idle]
    /\ UNCHANGED <<down, sub, stored>>

\* The echo goes to the connection that is registered, which need not be the one
\* the message came over.
RunBroadcast ==
    /\ running # NoId
    /\ running' = NoId
    /\ IF clients # 0 /\ sub[clients]
       THEN Reply(clients, [ev |-> "chat.message", id |-> running])
       ELSE UNCHANGED down
    /\ UNCHANGED <<client, up, broken, conn, sub, serving, clients, kick, stored, crossed>>

\* The owner kicks the user: first from the database, then from the connection.
KickMember ==
    /\ "kick" \in Faults /\ kick = "none"
    /\ kick' = "removed"
    /\ UNCHANGED <<client, wire, conn, sub, serving, running, clients, stored, crossed>>

KickUnsub ==
    /\ kick = "removed"
    /\ kick' = "done"
    /\ sub' = IF clients = 0 THEN sub ELSE [sub EXCEPT ![clients] = FALSE]
    /\ UNCHANGED <<client, wire, conn, serving, running, clients, stored, crossed>>

-----------------------------------------------------------------------------
Client ==
    \/ \E c \in Calls : SendChat(c) \/ EnsureRoomJoined(c) \/ SendChatOnce(c) \/ Timeout(c)
    \/ OnConnected \/ OnRoomJoined \/ OnJoinError \/ OnChatMessage \/ OnChatError
    \/ LeaveRoom \/ Done \/ Watchdog \/ Open

Server ==
    \/ \E g \in Gens :
          \/ Break(g) \/ Register(g) \/ Unregister(g)
          \/ HandleRoomJoin(g) \/ HandleRoomLeave(g) \/ HandleChatSend(g)
          \/ Join(g) \/ Create(g) \/ Lookup(g) \/ BroadcastToRoom(g)
    \/ RunBroadcast \/ KickMember \/ KickUnsub

Next == Client \/ Server

Spec == Init /\ [][Next]_vars

-----------------------------------------------------------------------------
(* Properties *)

TypeOK ==
    /\ state \in {"disconnected", "connecting", "connected"} /\ gen \in Gens
    /\ timer \in BOOLEAN /\ joined \in BOOLEAN /\ confirmed \in BOOLEAN
    /\ joining \subseteq Waiting("join")
    /\ call \in [Calls -> [pc : CallPC, attempt : {1, 2}]] /\ leaves \in 0..MaxLeaves
    /\ up \in [Gens -> Seq(Envelope)] /\ down \in [Gens -> Seq(Envelope)] /\ broken \in [Gens -> BOOLEAN]
    /\ conn \in [Gens -> {"none", "open", "closed"}] /\ sub \in [Gens -> BOOLEAN]
    /\ serving \in [Gens -> [step : {"none", "join"}] \cup [step : Step, id : Ids]]
    /\ running \in Ids \cup {NoId}
    /\ clients \in 0..MaxGen /\ kick \in {"none", "removed", "done"}
    /\ stored \in [Calls -> 0..2] /\ crossed \subseteq Gens

\* The abstract result of a call.
Result(c) ==
    CASE call[c].pc = "idle"                   -> "none"
      [] call[c].pc \in {"ok", "failed"}       -> call[c].pc
      [] call[c].pc \in {"refused", "outside"} -> "refused"
      [] OTHER                                 -> "open"

Delivery == INSTANCE ChatDelivery WITH copies <- stored, result <- [c \in Calls |-> Result(c)]

\* The client and the server together keep what ChatDelivery promises, through
\* retries, timeouts, failures of the database and lost connections
\* (ws_service.dart:340-419, hub.go:248-338).
DeliveryHolds == Delivery!Spec

\* One leaveRoom in the middle of a call does not cost the message: the retry joins
\* again before it sends, so that a call whose both attempts find the user outside
\* the room means a kick or a second leaveRoom (ws_service.dart:348-362).
RetrySuffices ==
    \A c \in Calls : call[c].pc = "outside" => ~IsMember \/ leaves > 1

\* Nothing is under way on the connection.
Quiet(g) == up[g] = <<>> /\ down[g] = <<>> /\ serving[g] = Idle

\* A member's client that takes the room for joined is in the room for the server,
\* across reconnects, kicks and lost connections, once both ends have read what the
\* other sent: else the echoes of other members' messages silently stay away
\* (ws_service.dart:315, 528-541).  The exception is a connection on which
\* leaveRoom overtook the answer to a room.join: that answer confirms the room again.
ConfirmedIsSubscribed ==
    confirmed /\ IsMember /\ Quiet(gen) /\ ~broken[gen] /\ gen \notin crossed => sub[gen]
=============================================================================
