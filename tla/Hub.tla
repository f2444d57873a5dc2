-------------------------------- MODULE Hub --------------------------------
(***************************************************************************)
(* The WebSocket hub of the NexusRoom server (internal/ws) together with   *)
(* the HTTP handlers that change what it distributes (internal/api).       *)
(*                                                                         *)
(* Goroutines: Hub.Run (one); per connection the HTTP handler of /ws that  *)
(* becomes ReadPump, and WritePump; the HTTP request handlers (Handlers);  *)
(* the media goroutines of the voice engine (Media); and one delayed       *)
(* WireGuard clean-up per room of a closed connection.                     *)
(*                                                                         *)
(* Granularity.  A step is what a goroutine does between two points where  *)
(* another one can interfere: a database access, an access to Clients or   *)
(* to a client's rooms, a channel operation.  A broadcast is one step:     *)
(* Run is the only writer of Clients, and what the loop does to one client *)
(* commutes with every step of the pumps of the others.                    *)
(***************************************************************************)
EXTENDS Naturals, Sequences, FiniteSets

CONSTANTS
    Users,          \* user ids
    Conns,          \* *Client pointers: every connection is a new one
    UserOf,         \* Client.UserID
    Rooms,          \* room ids
    OwnerOf,        \* Room.OwnerID
    Handlers,       \* concurrent HTTP request goroutines
    Media,          \* the goroutine of the voice engine's callbacks
    None,           \* nil, and "exclude nobody"
    SendCap,        \* capacity of Client.Send (256 in the code)
    MaxSends,       \* bound: number of chat.send messages
    Inputs,         \* bound: the events clients send
    Requests,       \* bound: the HTTP requests that are made
    VoiceEnabled,   \* hub.voiceEngine != nil
    WGEnabled       \* hub.wgCoordinator != nil

ASSUME HubAssumption ==
    /\ UserOf \in [Conns -> Users]
    /\ OwnerOf \in [Rooms -> Users]
    /\ None \notin Users \cup Conns \cup Rooms
    /\ Conns \cap Handlers = {}
    /\ Media \notin Conns
    /\ SendCap \in Nat \ {0}
    /\ MaxSends \in Nat
    /\ VoiceEnabled \in BOOLEAN
    /\ WGEnabled \in BOOLEAN

VARIABLES
    \* --- in memory
    clients,    \* hub.Clients : user -> current connection
    subs,       \* client.rooms of every connection
    send,       \* contents of client.Send
    chan,       \* client.Send: open, or closed and by whom
    socket,     \* the network connection
    writer,     \* WritePump
    pc,         \* /ws handler and ReadPump
    req,        \* arguments of the handler ReadPump is executing
    bcast,      \* the message a goroutine is blocked on sending to h.Broadcast
    signals,    \* users a goroutine has still to call SendMediaSignal for
    target,     \* the client SendMediaSignal has looked up and will send to
    run,        \* Hub.Run
    http,       \* the HTTP request handlers
    voice,      \* voice.Engine.rooms : <<connection that made the offer, room>>
    cleanups,   \* sleeping goroutines of scheduleWGPeerCleanup
    panic,      \* an unrecovered panic: the process is gone
    \* --- in the database
    alive,      \* rooms
    members,    \* room_members
    messages,   \* messages, by client_message_id
    sends       \* number of chat.send messages so far

hub  == <<clients, run>>
out  == <<send, chan, panic>>
net  == <<socket, writer>>
task == <<pc, req>>
sig  == <<signals, target>>
side == <<http, voice, cleanups>>
db   == <<alive, members, messages, sends>>
mem  == <<hub, subs, out, net, task, bcast, sig, side>>
vars == <<mem, db>>

-----------------------------------------------------------------------------
(* What travels. *)

\* An Envelope, reduced to what the properties tell apart: the chat events
\* carry their client_message_id, every other event is "control".
Event == [ev : {"control", "chat.message", "chat.error"}, id : 0..MaxSends]

Control      == [ev |-> "control", id |-> 0]
ChatMsg(n)   == [ev |-> "chat.message", id |-> n]
ChatError(n) == [ev |-> "chat.error", id |-> n]

\* BroadcastMessage: room, event and ExcludeUserID.
BroadcastMessage == [room : Rooms, event : Event, exclude : Users \cup {None}]

\* No BroadcastMessage is waiting.
NoMsg == [room |-> None, event |-> Control, exclude |-> None]

Msg(r, e, u) == [room |-> r, event |-> e, exclude |-> u]

ConnPC == {"idle", "register", "read", "pong", "join", "chatMember",
           "chatCreate", "chatLookup", "offer", "unregister", "done"}

RunPC  == {"select", "register", "leaveUser", "remove", "notify"}

HttpPC == {"idle", "kickNotify", "kickUnsub", "deleteRoom"}

Request    == [room : Rooms \cup {None}, id : 0..MaxSends]
NoRequest  == [room |-> None, id |-> 0]
IdleHttp   == [pc |-> "idle", room |-> None, user |-> None]
IdleRun    == [pc |-> "select", conn |-> None, rooms |-> {}]
NoPanic    == [by |-> "none", on |-> {}]

Signallers == Conns \cup {Media}
Senders    == Conns \cup Handlers

\* The process is running: no goroutine has panicked.
Up == panic = NoPanic

-----------------------------------------------------------------------------
(* SendEventToRoom and closeSend. *)

\* A non-blocking send of e to every connection of S: a full buffer makes
\* the default branch close the channel.
Deliver(S, e) ==
    /\ send' = [c \in Conns |->
                    IF c \in S /\ chan[c] = "open" /\ Len(send[c]) < SendCap
                    THEN Append(send[c], e) ELSE send[c]]
    /\ chan' = [c \in Conns |->
                    IF c \in S /\ chan[c] = "open" /\ Len(send[c]) >= SendCap
                    THEN "overflow" ELSE chan[c]]

\* The connections of S a send would panic on: their channel is closed.
Dead(S) == {c \in Conns : c \in S /\ chan[c] # "open"}

\* The same in a goroutine nobody recovers: the panic ends the process.
SendEvent(S, e, who) ==
    /\ Deliver(S, e)
    /\ panic' = IF Dead(S) = {} THEN panic ELSE [by |-> who, on |-> Dead(S)]

\* The connections broadcastToRoom reaches.
Subscribers(r, u) ==
    {c \in Conns : /\ clients[UserOf[c]] = c
                   /\ UserOf[c] # u
                   /\ r \in subs[c]}

-----------------------------------------------------------------------------
(* The voice engine, as far as the hub sees it: who has a peer in which    *)
(* room.                                                                   *)

Peers(v, r)   == {UserOf[p[1]] : p \in {q \in v : q[2] = r}}
Drop(v, u, r) == {p \in v : ~(UserOf[p[1]] = u /\ p[2] = r)}

\* Leave signals the remaining peers of the room, if the user had a peer.
LeaveSignals(u, r) == IF u \in Peers(voice, r) THEN Peers(voice, r) \ {u} ELSE {}

\* broadcastParticipants, called only when the user has a peer.
StateSignals(u, r) == IF u \in Peers(voice, r) THEN Peers(voice, r) ELSE {}

-----------------------------------------------------------------------------
Init ==
    /\ clients  = [u \in Users |-> None]
    /\ subs     = [c \in Conns |-> {}]
    /\ send     = [c \in Conns |-> <<>>]
    /\ chan     = [c \in Conns |-> "open"]
    /\ socket   = [c \in Conns |-> "closed"]
    /\ writer   = [c \in Conns |-> "off"]
    /\ pc       = [c \in Conns |-> "idle"]
    /\ req      = [c \in Conns |-> NoRequest]
    /\ bcast    = [g \in Senders |-> NoMsg]
    /\ signals  = [g \in Signallers |-> {}]
    /\ target   = [g \in Signallers |-> None]
    /\ run      = IdleRun
    /\ http     = [h \in Handlers |-> IdleHttp]
    /\ voice    = {}
    /\ cleanups = {}
    /\ panic    = NoPanic
    /\ alive    = Rooms
    /\ members  \in SUBSET (Rooms \X Users)
    /\ \A r \in Rooms : <<r, OwnerOf[r]>> \in members
    /\ messages = [r \in Rooms |-> {}]
    /\ sends    = 0

-----------------------------------------------------------------------------
(* Connecting and the network. *)

\* GET /ws: the upgrade succeeded, the handler blocks on hub.Register.
Dial(c) ==
    /\ Up /\ pc[c] = "idle"
    /\ pc' = [pc EXCEPT ![c] = "register"]
    /\ socket' = [socket EXCEPT ![c] = "open"]
    /\ UNCHANGED <<hub, subs, out, writer, req, bcast, sig, side, db>>

\* The peer goes away, or 60 seconds pass without a pong.
Disconnect(c) ==
    /\ Up /\ socket[c] = "open"
    /\ socket' = [socket EXCEPT ![c] = "closed"]
    /\ UNCHANGED <<hub, subs, out, writer, task, bcast, sig, side, db>>

-----------------------------------------------------------------------------
(* Hub.Run *)

\* case client := <-h.Register: the /ws handler is released and starts the
\* two pumps while Run goes on.
RunRegister(c) ==
    /\ Up /\ run.pc = "select"
    /\ pc[c] = "register"
    /\ run' = [pc |-> "register", conn |-> c, rooms |-> {}]
    /\ pc' = [pc EXCEPT ![c] = "read"]
    /\ writer' = [writer EXCEPT ![c] = "on"]
    /\ UNCHANGED <<clients, subs, out, socket, req, bcast, sig, side, db>>

\* The new connection replaces the user's previous one; "connected".
RunAddClient ==
    /\ Up /\ run.pc = "register"
    /\ clients' = [clients EXCEPT ![UserOf[run.conn]] = run.conn]
    /\ SendEvent({run.conn}, Control, "hub")
    /\ run' = IdleRun
    /\ UNCHANGED <<subs, net, task, bcast, sig, side, db>>

\* case client := <-h.Unregister: ReadPump is released and ends.
RunUnregister(c) ==
    /\ Up /\ run.pc = "select"
    /\ pc[c] = "unregister"
    /\ run' = [pc |-> "leaveUser", conn |-> c, rooms |-> {}]
    /\ pc' = [pc EXCEPT ![c] = "done"]
    /\ socket' = [socket EXCEPT ![c] = "closed"]
    /\ UNCHANGED <<clients, subs, out, writer, req, bcast, sig, side, db>>

\* h.voiceEngine.LeaveUser(client.UserID), in every room, whichever of the
\* user's connections made the offer.
RunLeaveUser ==
    /\ Up /\ run.pc = "leaveUser"
    /\ LET u    == UserOf[run.conn]
           left == {r \in Rooms : u \in Peers(voice, r)}
           told == {clients[w] : w \in UNION {Peers(voice, r) \ {u} : r \in left}}
       IN  /\ voice' = {p \in voice : UserOf[p[1]] # u}
           /\ SendEvent(told \ {None}, Control, "hub")
    /\ run' = [run EXCEPT !.pc = "remove"]
    /\ UNCHANGED <<clients, subs, net, task, bcast, sig, http, cleanups, db>>

\* Clients[client.UserID] == client: the connection was not replaced.
IsCurrent(c) == clients[UserOf[c]] = c

\* Variants of ClientsWithout: the entry is kept; it is kept when there are no
\* rooms to notify; it is deleted without asking whose it is.
ClientsKept(c)      == clients
ClientsIfInRooms(c) == IF IsCurrent(c) /\ subs[c] # {}
                       THEN [clients EXCEPT ![UserOf[c]] = None] ELSE clients
ClientsUnchecked(c) == [clients EXCEPT ![UserOf[c]] = None]

ClientsWithout(c) == IF IsCurrent(c) THEN [clients EXCEPT ![UserOf[c]] = None]
                                     ELSE clients

\* Variant: the rooms of a replaced connection are notified too.
RoomsOfAny(c) == subs[c]

RoomsToNotify(c) == IF IsCurrent(c) THEN subs[c] ELSE {}

\* The critical section: delete the entry if it is still this connection's,
\* and close its Send channel in any case (once).
RunRemove ==
    /\ Up /\ run.pc = "remove"
    /\ LET c == run.conn
       IN  /\ clients' = ClientsWithout(c)
           /\ run' = [run EXCEPT !.pc = "notify", !.rooms = RoomsToNotify(c)]
           /\ chan' = [chan EXCEPT ![c] = IF @ = "open" THEN "unregistered" ELSE @]
    /\ UNCHANGED <<subs, send, panic, net, task, bcast, sig, side, db>>

\* Variant: scheduleWGPeerCleanup(userID, roomID), the arguments swapped.
CleanupSwapped(c, r) == <<r, c>>

CleanupOf(c, r) == <<c, r>>

\* Variant: BroadcastToRoom, whose send on h.Broadcast completes when Run is
\* back in its select, instead of broadcastToRoom.
CanNotifyByChannel == run.pc = "notify" /\ run.pc = "select"

CanNotify == run.pc = "notify"

\* room.member_leave for the next of roomsToNotify, and the delayed clean-up.
RunNotify(r) ==
    /\ Up /\ CanNotify
    /\ r \in run.rooms
    /\ SendEvent(Subscribers(r, UserOf[run.conn]), Control, "hub")
    /\ cleanups' = IF WGEnabled THEN cleanups \cup {CleanupOf(run.conn, r)} ELSE cleanups
    /\ run' = [run EXCEPT !.rooms = @ \ {r}]
    /\ UNCHANGED <<clients, subs, net, task, bcast, sig, http, voice, db>>

RunNotifyDone ==
    /\ Up /\ run.pc = "notify"
    /\ run.rooms = {}
    /\ run' = IdleRun
    /\ UNCHANGED <<clients, subs, out, net, task, bcast, sig, side, db>>

\* case msg := <-h.Broadcast: the sender is released.
RunBroadcast(g) ==
    /\ Up /\ run.pc = "select"
    /\ bcast[g] # NoMsg
    /\ g \in Signallers => signals[g] = {} /\ target[g] = None
    /\ SendEvent(Subscribers(bcast[g].room, bcast[g].exclude), bcast[g].event, "hub")
    /\ bcast' = [bcast EXCEPT ![g] = NoMsg]
    /\ UNCHANGED <<hub, subs, net, task, sig, side, db>>

-----------------------------------------------------------------------------
(* ReadPump and the event handlers it calls *)

\* The handlers are synchronous: the next message is read when the previous
\* one has been broadcast and signalled.
Idle(c) == bcast[c] = NoMsg /\ signals[c] = {} /\ target[c] = None

Reading(c) == pc[c] = "read" /\ Idle(c)

\* A message arrives.
Receives(c) == Reading(c) /\ socket[c] = "open"

ReadError(c) ==
    /\ Up /\ Reading(c)
    /\ socket[c] = "closed"
    /\ pc' = [pc EXCEPT ![c] = "unregister"]
    /\ UNCHANGED <<hub, subs, out, net, req, bcast, sig, side, db>>

\* heartbeat: unlike every other send, c.Send <- pong blocks.
HandleHeartbeat(c) ==
    /\ Up /\ Receives(c)
    /\ pc' = [pc EXCEPT ![c] = "pong"]
    /\ UNCHANGED <<hub, subs, out, net, req, bcast, sig, side, db>>

SendPong(c) ==
    /\ Up /\ pc[c] = "pong"
    /\ chan[c] = "open" => Len(send[c]) < SendCap
    /\ SendEvent({c}, Control, "owner")
    /\ pc' = [pc EXCEPT ![c] = "read"]
    /\ UNCHANGED <<hub, subs, net, req, bcast, sig, side, db>>

\* room.join: IsMember is read here, the subscription is made in JoinRoom.
HandleRoomJoin(c, r) ==
    /\ Up /\ Receives(c)
    /\ \/ /\ <<r, UserOf[c]>> \notin members
          /\ SendEvent({c}, Control, "owner")
          /\ UNCHANGED task
       \/ /\ <<r, UserOf[c]>> \in members
          /\ pc' = [pc EXCEPT ![c] = "join"]
          /\ req' = [req EXCEPT ![c] = [room |-> r, id |-> 0]]
          /\ UNCHANGED out
    /\ UNCHANGED <<hub, subs, net, bcast, sig, side, db>>

\* Variant of JoinRoom: room.joined is sent as the pong is, waiting for room.
JoinRoomBlocking(c) ==
    /\ Up /\ pc[c] = "join"
    /\ chan[c] = "open" => Len(send[c]) < SendCap
    /\ subs' = [subs EXCEPT ![c] = @ \cup {req[c].room}]
    /\ SendEvent({c}, Control, "owner")
    /\ bcast' = [bcast EXCEPT ![c] = Msg(req[c].room, Control, UserOf[c])]
    /\ pc' = [pc EXCEPT ![c] = "read"]
    /\ req' = [req EXCEPT ![c] = NoRequest]
    /\ UNCHANGED <<hub, net, sig, side, db>>

JoinRoom(c) ==
    /\ Up /\ pc[c] = "join"
    /\ subs' = [subs EXCEPT ![c] = @ \cup {req[c].room}]
    /\ SendEvent({c}, Control, "owner")
    /\ bcast' = [bcast EXCEPT ![c] = Msg(req[c].room, Control, UserOf[c])]
    /\ pc' = [pc EXCEPT ![c] = "read"]
    /\ req' = [req EXCEPT ![c] = NoRequest]
    /\ UNCHANGED <<hub, net, sig, side, db>>

\* room.leave: unsubscribe, leave the voice room, tell the others.
HandleRoomLeave(c, r) ==
    /\ Up /\ Receives(c)
    /\ subs' = [subs EXCEPT ![c] = @ \ {r}]
    /\ voice' = Drop(voice, UserOf[c], r)
    /\ signals' = [signals EXCEPT ![c] = LeaveSignals(UserOf[c], r)]
    /\ bcast' = [bcast EXCEPT ![c] = Msg(r, Control, UserOf[c])]
    /\ UNCHANGED <<hub, out, net, task, target, http, cleanups, db>>

\* chat.send: a new client_message_id; IsInRoom.
HandleChatSend(c, r) ==
    /\ Up /\ Receives(c)
    /\ sends < MaxSends
    /\ sends' = sends + 1
    /\ \/ /\ r \notin subs[c]
          /\ SendEvent({c}, ChatError(sends + 1), "owner")
          /\ UNCHANGED task
       \/ /\ r \in subs[c]
          /\ pc' = [pc EXCEPT ![c] = "chatMember"]
          /\ req' = [req EXCEPT ![c] = [room |-> r, id |-> sends + 1]]
          /\ UNCHANGED out
    /\ UNCHANGED <<hub, subs, net, bcast, sig, side, alive, members, messages>>

\* A chat handler gives up: chat.error to its own connection.
Refuse(c) ==
    /\ SendEvent({c}, ChatError(req[c].id), "owner")
    /\ pc' = [pc EXCEPT ![c] = "read"]
    /\ req' = [req EXCEPT ![c] = NoRequest]

\* IsMember, then the checks of type, emptiness and length.
ChatMember(c) ==
    /\ Up /\ pc[c] = "chatMember"
    /\ \/ Refuse(c)
       \/ /\ <<req[c].room, UserOf[c]>> \in members
          /\ pc' = [pc EXCEPT ![c] = "chatCreate"]
          /\ UNCHANGED <<out, req>>
    /\ UNCHANGED <<hub, subs, net, bcast, sig, side, db>>

\* Variant: the error of msgRepo.Create is only logged.
CreateIgnored(c) == pc' = [pc EXCEPT ![c] = "chatLookup"] /\ UNCHANGED <<out, req>>

CreateFailed(c) == Refuse(c)

\* msgRepo.Create, which may fail; nothing ties a message row to its room.
ChatCreate(c) ==
    /\ Up /\ pc[c] = "chatCreate"
    /\ \/ /\ CreateFailed(c)
          /\ UNCHANGED messages
       \/ /\ messages' = [messages EXCEPT ![req[c].room] = @ \cup {req[c].id}]
          /\ pc' = [pc EXCEPT ![c] = "chatLookup"]
          /\ UNCHANGED <<out, req>>
    /\ UNCHANGED <<hub, subs, net, bcast, sig, side, alive, members, sends>>

\* userRepo.FindByID, which may fail; then BroadcastToRoom to everyone.
ChatLookup(c) ==
    /\ Up /\ pc[c] = "chatLookup"
    /\ \/ /\ Refuse(c)
          /\ UNCHANGED bcast
       \/ /\ bcast' = [bcast EXCEPT ![c] = Msg(req[c].room, ChatMsg(req[c].id), None)]
          /\ pc' = [pc EXCEPT ![c] = "read"]
          /\ req' = [req EXCEPT ![c] = NoRequest]
          /\ UNCHANGED out
    /\ UNCHANGED <<hub, subs, net, sig, side, db>>

\* voice.mute: refused silently outside the room.
HandleVoiceMute(c, r) ==
    /\ Up /\ Receives(c)
    /\ r \in subs[c]
    /\ signals' = [signals EXCEPT ![c] = StateSignals(UserOf[c], r)]
    /\ bcast' = [bcast EXCEPT ![c] = Msg(r, Control, None)]
    /\ UNCHANGED <<hub, subs, out, net, task, target, side, db>>

\* rtc.offer: refused when it does not decode; else in the room and a member,
\* and there is a voice engine.
HandleRTCOffer(c, r) ==
    /\ Up /\ Receives(c)
    /\ \/ /\ SendEvent({c}, Control, "owner")
          /\ UNCHANGED task
       \/ /\ r \in subs[c] /\ <<r, UserOf[c]>> \in members /\ VoiceEnabled
          /\ pc' = [pc EXCEPT ![c] = "offer"]
          /\ req' = [req EXCEPT ![c] = [room |-> r, id |-> 0]]
          /\ UNCHANGED out
    /\ UNCHANGED <<hub, subs, net, bcast, sig, side, db>>

\* voiceEngine.HandleOffer: the peer is created or renegotiated and all the
\* room's peers are signalled; or it fails, which leaves the peers as they were.
HandleOffer(c) ==
    /\ Up /\ pc[c] = "offer"
    /\ LET u == UserOf[c]
           r == req[c].room
       IN  \/ /\ voice' = Drop(voice, u, r) \cup {<<c, r>>}
              /\ signals' = [signals EXCEPT ![c] = Peers(voice, r) \cup {u}]
              /\ UNCHANGED out
           \/ /\ SendEvent({c}, Control, "owner")
              /\ signals' = [signals EXCEPT ![c] =
                                 IF u \in Peers(voice, r) THEN {} ELSE Peers(voice, r)]
              /\ UNCHANGED voice
    /\ pc' = [pc EXCEPT ![c] = "read"]
    /\ req' = [req EXCEPT ![c] = NoRequest]
    /\ UNCHANGED <<hub, subs, net, bcast, target, http, cleanups, db>>

\* rtc.leave: no check at all.
HandleRTCLeave(c, r) ==
    /\ Up /\ Receives(c)
    /\ VoiceEnabled
    /\ voice' = Drop(voice, UserOf[c], r)
    /\ signals' = [signals EXCEPT ![c] = LeaveSignals(UserOf[c], r)]
    /\ UNCHANGED <<hub, subs, out, net, task, bcast, target, http, cleanups, db>>

\* rtc.speaking: the room's peers learn the new state.
HandleRTCSpeaking(c, r) ==
    /\ Up /\ Receives(c)
    /\ VoiceEnabled
    /\ signals' = [signals EXCEPT ![c] = StateSignals(UserOf[c], r)]
    /\ UNCHANGED <<hub, subs, out, net, task, bcast, target, side, db>>

-----------------------------------------------------------------------------
(* SendMediaSignal and the media goroutines *)

\* client := h.Clients[userID], under the read lock ...
SignalLookup(g, u) ==
    /\ Up /\ u \in signals[g]
    /\ target[g] = None
    /\ signals' = [signals EXCEPT ![g] = @ \ {u}]
    /\ target' = [target EXCEPT ![g] = clients[u]]
    /\ UNCHANGED <<hub, subs, out, net, task, bcast, side, db>>

\* ... and the send, after the lock is released.
SignalSend(g) ==
    /\ Up /\ target[g] # None
    /\ SendEvent({target[g]}, Control, "signal")
    /\ target' = [target EXCEPT ![g] = None]
    /\ UNCHANGED <<hub, subs, net, task, bcast, signals, side, db>>

MediaIdle == signals[Media] = {} /\ target[Media] = None

\* An ICE candidate or a renegotiation offer for the peer of u.
MediaSignal(u, r) ==
    /\ Up /\ MediaIdle
    /\ u \in Peers(voice, r)
    /\ signals' = [signals EXCEPT ![Media] = {u}]
    /\ UNCHANGED <<hub, subs, out, net, task, bcast, target, side, db>>

\* The peer connection of u failed or closed: go e.Leave(roomID, userID).
MediaPeerFailed(u, r) ==
    /\ Up /\ MediaIdle
    /\ u \in Peers(voice, r)
    /\ voice' = Drop(voice, u, r)
    /\ signals' = [signals EXCEPT ![Media] = LeaveSignals(u, r)]
    /\ UNCHANGED <<hub, subs, out, net, task, bcast, target, http, cleanups, db>>

-----------------------------------------------------------------------------
(* WritePump.  The error of a text write is ignored, that of a ping is not. *)

WriteMessage(c) ==
    /\ Up /\ writer[c] = "on"
    /\ send[c] # <<>>
    /\ send' = [send EXCEPT ![c] = Tail(@)]
    /\ UNCHANGED <<hub, subs, chan, panic, net, task, bcast, sig, side, db>>

\* The pump ends and closes the connection: the channel is closed and drained,
\* or a ping could not be written.
WriteEnd(c) ==
    /\ Up /\ writer[c] = "on"
    /\ \/ chan[c] # "open" /\ send[c] = <<>>
       \/ socket[c] = "closed"
    /\ writer' = [writer EXCEPT ![c] = "ended"]
    /\ socket' = [socket EXCEPT ![c] = "closed"]
    /\ UNCHANGED <<hub, subs, out, task, bcast, sig, side, db>>

-----------------------------------------------------------------------------
(* HTTP handlers.  gin recovers a panic of theirs: the request ends there. *)

Free(h) == http[h].pc = "idle" /\ bcast[h] = NoMsg

\* POST /rooms/join
JoinMember(u, r) ==
    /\ Up /\ r \in alive
    /\ <<r, u>> \notin members
    /\ members' = members \cup {<<r, u>>}
    /\ UNCHANGED <<mem, alive, messages, sends>>

\* DELETE /rooms/:roomId/members/:userId, by the owner or a super admin.
KickMember(h, u, r) ==
    /\ Up /\ Free(h)
    /\ r \in alive
    /\ u # OwnerOf[r]
    /\ members' = members \ {<<r, u>>}
    /\ http' = [http EXCEPT ![h] = [pc |-> "kickNotify", room |-> r, user |-> u]]
    /\ UNCHANGED <<hub, subs, out, net, task, bcast, sig, voice, cleanups,
                   alive, messages, sends>>

\* Variant: SendToUser blocks on a full buffer, as the heartbeat does.
KickNotifyBlocking(h) ==
    /\ Up /\ http[h].pc = "kickNotify"
    /\ LET u == http[h].user
           S == {clients[u]} \ {None}
       IN  /\ \A c \in S : Len(send[c]) < SendCap
           /\ Deliver(S, Control)
           /\ http' = [http EXCEPT ![h].pc = "kickUnsub"]
           /\ bcast' = [bcast EXCEPT ![h] = Msg(http[h].room, Control, u)]
    /\ UNCHANGED <<hub, subs, panic, net, task, sig, voice, cleanups, db>>

\* KickUserFromRoom: room.kicked to the user, then member_leave to the room.
KickNotify(h) ==
    /\ Up /\ http[h].pc = "kickNotify"
    /\ LET u == http[h].user
           S == {clients[u]} \ {None}
       IN  /\ Deliver(S, Control)
           /\ \/ /\ Dead(S) # {}
                 /\ http' = [http EXCEPT ![h] = IdleHttp]
                 /\ UNCHANGED bcast
              \/ /\ Dead(S) = {}
                 /\ http' = [http EXCEPT ![h].pc = "kickUnsub"]
                 /\ bcast' = [bcast EXCEPT ![h] = Msg(http[h].room, Control, u)]
    /\ UNCHANGED <<hub, subs, panic, net, task, sig, voice, cleanups, db>>

\* ... and, once the broadcast was taken, the user's current connection is
\* unsubscribed.
KickUnsub(h) ==
    /\ Up /\ http[h].pc = "kickUnsub"
    /\ bcast[h] = NoMsg
    /\ subs' = [c \in Conns |-> IF clients[http[h].user] = c
                                THEN subs[c] \ {http[h].room} ELSE subs[c]]
    /\ http' = [http EXCEPT ![h] = IdleHttp]
    /\ UNCHANGED <<hub, out, net, task, bcast, sig, voice, cleanups, db>>

\* DELETE /rooms/:roomId/leave: the row goes, the others are told.
LeaveMember(h, u, r) ==
    /\ Up /\ Free(h)
    /\ r \in alive
    /\ <<r, u>> \in members
    /\ u # OwnerOf[r]
    /\ members' = members \ {<<r, u>>}
    /\ bcast' = [bcast EXCEPT ![h] = Msg(r, Control, u)]
    /\ UNCHANGED <<hub, subs, out, net, task, sig, side, alive, messages, sends>>

\* DELETE /rooms/:roomId: room.disbanded first, the transaction afterwards.
DeleteRoom(h, r) ==
    /\ Up /\ Free(h)
    /\ r \in alive
    /\ bcast' = [bcast EXCEPT ![h] = Msg(r, Control, None)]
    /\ http' = [http EXCEPT ![h] = [pc |-> "deleteRoom", room |-> r, user |-> None]]
    /\ UNCHANGED <<hub, subs, out, net, task, sig, voice, cleanups, db>>

\* RoomRepository.Delete: members, messages and the room in one transaction.
DeleteRows(r) ==
    /\ members' = {m \in members : m[1] # r}
    /\ messages' = [messages EXCEPT ![r] = {}]
    /\ alive' = alive \ {r}
    /\ UNCHANGED sends

DeleteRoomRows(h) ==
    /\ Up /\ http[h].pc = "deleteRoom"
    /\ bcast[h] = NoMsg
    /\ DeleteRows(http[h].room)
    /\ http' = [http EXCEPT ![h] = IdleHttp]
    /\ UNCHANGED <<hub, subs, out, net, task, bcast, sig, voice, cleanups>>

\* DELETE /admin/rooms/:roomId: the same transaction, nobody is told.
AdminDeleteRoom(r) ==
    /\ Up /\ r \in alive
    /\ DeleteRows(r)
    /\ UNCHANGED mem

\* SendToUser from a handler (friend.request, friend.accepted).
NotifyUser(u) ==
    /\ Up /\ clients[u] # None
    /\ Deliver({clients[u]}, Control)
    /\ UNCHANGED <<hub, subs, panic, net, task, bcast, sig, side, db>>

-----------------------------------------------------------------------------
\* scheduleWGPeerCleanup, 20 seconds later: skipped when the user is back in
\* the room; else UnregisterPeer, and vlan.peer_update if that succeeded.
WGPeerCleanup(c, r) ==
    /\ Up /\ <<c, r>> \in cleanups
    /\ cleanups' = cleanups \ {<<c, r>>}
    /\ LET now == clients[UserOf[c]]
       IN  \/ /\ now # None => r \notin subs[now]
              /\ SendEvent(Subscribers(r, UserOf[c]), Control, "cleanup")
           \/ UNCHANGED out
    /\ UNCHANGED <<hub, subs, net, task, bcast, sig, http, voice, db>>

-----------------------------------------------------------------------------
RunStep == \/ \E c \in Conns : RunRegister(c) \/ RunUnregister(c)
           \/ RunAddClient \/ RunLeaveUser \/ RunRemove \/ RunNotifyDone
           \/ \E r \in Rooms : RunNotify(r)
           \/ \E g \in Senders : RunBroadcast(g)

\* A message the client sends.
ClientEvent(c) ==
    \/ "heartbeat" \in Inputs /\ HandleHeartbeat(c)
    \/ \E r \in Rooms :
          \/ "room.join" \in Inputs /\ HandleRoomJoin(c, r)
          \/ "room.leave" \in Inputs /\ HandleRoomLeave(c, r)
          \/ "chat.send" \in Inputs /\ HandleChatSend(c, r)
          \/ "voice.mute" \in Inputs /\ HandleVoiceMute(c, r)
          \/ "rtc.offer" \in Inputs /\ HandleRTCOffer(c, r)
          \/ "rtc.leave" \in Inputs /\ HandleRTCLeave(c, r)
          \/ "rtc.speaking" \in Inputs /\ HandleRTCSpeaking(c, r)

\* What the connection's goroutines do on their own.
ConnStep(c) == \/ ReadError(c) \/ SendPong(c) \/ JoinRoom(c) \/ ChatMember(c)
               \/ ChatCreate(c) \/ ChatLookup(c) \/ HandleOffer(c)
               \/ WriteMessage(c) \/ WriteEnd(c)

SignalStep == \E g \in Signallers : SignalSend(g) \/ \E u \in Users : SignalLookup(g, u)

MediaStep == \E u \in Users, r \in Rooms : MediaSignal(u, r) \/ MediaPeerFailed(u, r)

HttpRequest ==
    \/ \E u \in Users, r \in Rooms : "join" \in Requests /\ JoinMember(u, r)
    \/ \E h \in Handlers, u \in Users, r \in Rooms :
          \/ "kick" \in Requests /\ KickMember(h, u, r)
          \/ "leave" \in Requests /\ LeaveMember(h, u, r)
    \/ \E h \in Handlers, r \in Rooms : "delete" \in Requests /\ DeleteRoom(h, r)
    \/ \E r \in Rooms : "adminDelete" \in Requests /\ AdminDeleteRoom(r)
    \/ \E u \in Users : "notify" \in Requests /\ NotifyUser(u)

HttpStep == \E h \in Handlers : KickNotify(h) \/ KickUnsub(h) \/ DeleteRoomRows(h)

CleanupStep == \E c \in Conns, r \in Rooms : WGPeerCleanup(c, r)

\* The process is gone: nothing happens any more.
Crashed == ~Up /\ UNCHANGED vars

\* Every connection came and went, and no goroutine is left but Run.
Finished ==
    /\ Up
    /\ \A c \in Conns : pc[c] = "done" /\ writer[c] = "ended" /\ Idle(c)
    /\ \A h \in Handlers : Free(h)
    /\ run = IdleRun
    /\ MediaIdle
    /\ cleanups = {}
    /\ UNCHANGED vars

Next ==
    \/ RunStep \/ SignalStep \/ MediaStep \/ CleanupStep \/ HttpRequest \/ HttpStep
    \/ \E c \in Conns : Dial(c) \/ Disconnect(c) \/ ClientEvent(c) \/ ConnStep(c)
    \/ Crashed \/ Finished

Spec == Init /\ [][Next]_vars

\* Run and the goroutines of a connection are scheduled; clients and users
\* need not do anything.  A goroutine blocked on one of Run's unbuffered
\* channels is served in FIFO order among the senders of that channel, and
\* select picks at random among the ready channels: strong fairness.
Fairness ==
    /\ WF_vars(RunAddClient) /\ WF_vars(RunLeaveUser)
    /\ WF_vars(RunRemove) /\ WF_vars(RunNotifyDone)
    /\ \A r \in Rooms : WF_vars(RunNotify(r))
    /\ \A g \in Senders : SF_vars(RunBroadcast(g))
    /\ \A c \in Conns :
          /\ SF_vars(RunRegister(c)) /\ SF_vars(RunUnregister(c))
          /\ WF_vars(ReadError(c)) /\ WF_vars(SendPong(c)) /\ WF_vars(JoinRoom(c))
          /\ WF_vars(ChatMember(c) \/ ChatCreate(c) \/ ChatLookup(c) \/ HandleOffer(c))
          /\ WF_vars(WriteMessage(c)) /\ WF_vars(WriteEnd(c))
    /\ \A g \in Signallers : WF_vars(SignalSend(g) \/ \E u \in Users : SignalLookup(g, u))
    /\ \A h \in Handlers :
          WF_vars(KickNotify(h)) /\ WF_vars(KickUnsub(h)) /\ WF_vars(DeleteRoomRows(h))

FairSpec == Spec /\ Fairness
-----------------------------------------------------------------------------
(* Properties *)

TypeOK ==
    /\ clients \in [Users -> Conns \cup {None}]
    /\ subs \in [Conns -> SUBSET Rooms]
    /\ send \in [Conns -> Seq(Event)]
    /\ chan \in [Conns -> {"open", "overflow", "unregistered"}]
    /\ socket \in [Conns -> {"open", "closed"}]
    /\ writer \in [Conns -> {"off", "on", "ended"}]
    /\ pc \in [Conns -> ConnPC]
    /\ req \in [Conns -> Request]
    /\ bcast \in [Senders -> BroadcastMessage \cup {NoMsg}]
    /\ signals \in [Signallers -> SUBSET Users]
    /\ target \in [Signallers -> Conns \cup {None}]
    /\ run \in [pc : RunPC, conn : Conns \cup {None}, rooms : SUBSET Rooms]
    /\ http \in [Handlers -> [pc : HttpPC, room : Rooms \cup {None},
                              user : Users \cup {None}]]
    /\ voice \in SUBSET (Conns \X Rooms)
    /\ cleanups \in SUBSET (Conns \X Rooms)
    /\ panic \in [by : {"none", "hub", "owner", "signal", "cleanup"},
                  on : SUBSET Conns]
    /\ alive \in SUBSET Rooms
    /\ members \in SUBSET (Rooms \X Users)
    /\ messages \in [Rooms -> SUBSET (1..MaxSends)]
    /\ sends \in 0..MaxSends

\* A connection the hub still hands out through Clients has a usable Send
\* channel, unless its own buffer overflowed: Unregister removes the entry
\* and closes the channel in one critical section (hub.go:116-125).
RegisteredIsUsable ==
    \A u \in Users : clients[u] # None => chan[clients[u]] # "unregistered"

\* Whoever sends on a channel that Unregister has closed got the client from
\* SendMediaSignal, which uses it after releasing the lock (hub.go:82-87).
\* Run, the delayed clean-ups and the connection's own handlers panic only on
\* a channel that overflowed.
PanicCause ==
    panic.by \in {"hub", "owner", "cleanup"} =>
        \A c \in panic.on : chan[c] = "overflow"

\* Once Unregister of a connection has been processed it is not in Clients,
\* and no late Register brings it back (router.go:205-208 starts ReadPump only
\* after Register was taken).
UnregisteredIsGone ==
    \A c \in Conns :
        pc[c] = "done" /\ run.conn # c => ~IsCurrent(c)

\* The hub announces that a user left the rooms of a closed connection only
\* while that user has no connection registered: the Unregister of a replaced
\* connection is silent (hub.go:119-137).
LeaveNoticeTrue ==
    run.pc = "notify" /\ run.rooms # {} => clients[UserOf[run.conn]] = None

\* Fast reconnect: the entry of a user is emptied only by the Unregister of
\* the very connection it holds (hub.go:117-122).
OnlyOwnUnregisterRemoves ==
    [][\A u \in Users : clients[u] # None /\ clients'[u] = None
            => pc[clients[u]] = "done" /\ run.conn = clients[u]]_vars

\* A chat.message, whether still blocked before h.Broadcast or queued for a
\* client, is in the database, unless its room was deleted (hub.go:303-336):
\* nobody is shown a message that a later reload would not return.
ChatDurable ==
    LET Stored(n) == \E r \in Rooms : n \in messages[r] \/ r \notin alive
    IN  /\ \A c \in Conns : \A i \in 1..Len(send[c]) :
              send[c][i].ev = "chat.message" => Stored(send[c][i].id)
        /\ \A g \in Senders :
              bcast[g].event.ev = "chat.message" =>
                 \/ bcast[g].event.id \in messages[bcast[g].room]
                 \/ bcast[g].room \notin alive

\* Whatever is handed to h.Broadcast is taken: Run never waits for itself, for
\* a client, or for a handler (hub.go:111-113 and 127-129).
BroadcastsAreTaken ==
    \A g \in Senders : bcast[g] # NoMsg ~> bcast[g] = NoMsg \/ ~Up

\* A closed connection is unregistered, so that its entry in Clients goes and
\* the rooms are told, unless ReadPump is stuck in the one blocking send.
DisconnectIsNoticed ==
    \A c \in Conns : pc[c] \notin {"idle", "pong"} /\ socket[c] = "closed"
        ~> pc[c] \in {"done", "pong"} \/ ~Up

\* An HTTP request that notifies clients finishes: neither a client that does
\* not drain its buffer nor Run can hold it up (client.go:383-388).
RequestsFinish ==
    \A h \in Handlers : http[h].pc # "idle" ~> Free(h) \/ ~Up

\* client.go:386: a full buffer closes the connection "safely".
OverflowIsSafe == panic.on \cap {c \in Conns : chan[c] = "overflow"} = {}
=============================================================================
