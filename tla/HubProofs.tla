----------------------------- MODULE HubProofs -----------------------------
(***************************************************************************)
(* Proofs about Hub: its type invariant, the invariants of the registry of *)
(* connections, and that what is broadcast as a chat message was stored.   *)
(*                                                                         *)
(* RegisteredIsUsable is not inductive: Run closes a Send channel two      *)
(* steps after it took the connection from Unregister, and SendMediaSignal *)
(* and the handlers run in between.  The strengthening ties the channel    *)
(* and the entry in Clients to where Run and the connection's ReadPump     *)
(* stand.                                                                  *)
(***************************************************************************)
EXTENDS Hub, TLAPS

\* Run is busy with the Unregister of c and has not yet closed its channel.
Removing(c) == run.conn = c /\ run.pc \in {"leaveUser", "remove"}

\* An entry is filed under its own user; the entry of an unregistered
\* connection is one Run is about to remove.
EntryOK ==
    /\ \A u \in Users : clients[u] # None => UserOf[clients[u]] = u
    /\ \A c \in Conns : pc[c] = "done" /\ IsCurrent(c) => Removing(c)

\* Only Run closes a channel as "unregistered", after ReadPump has ended.
ChanOK ==
    \A c \in Conns : chan[c] = "unregistered" => pc[c] = "done" /\ ~Removing(c)

\* The connection Run is busy with is where Run needs it to be.
RunOK ==
    /\ run.pc = "select" <=> run.conn = None
    /\ run.pc = "register" => pc[run.conn] \notin {"idle", "register", "done"}
    /\ run.pc \in {"leaveUser", "remove", "notify"} => pc[run.conn] = "done"

\* The inductive invariant of the registry.
RegistryInv == EntryOK /\ ChanOK /\ RunOK /\ LeaveNoticeTrue /\ PanicCause

\* A chat handler that has stored its message will broadcast a stored one.
LookupStored ==
    \A c \in Conns : pc[c] = "chatLookup" =>
        \/ req[c].id \in messages[req[c].room]
        \/ req[c].room \notin alive

-----------------------------------------------------------------------------
(* The type invariant, one part per group of variables that change together. *)

OutType ==
    /\ send \in [Conns -> Seq(Event)]
    /\ chan \in [Conns -> {"open", "overflow", "unregistered"}]
    /\ panic \in [by : {"none", "hub", "owner", "signal", "cleanup"},
                  on : SUBSET Conns]

ConnType ==
    /\ subs \in [Conns -> SUBSET Rooms]
    /\ socket \in [Conns -> {"open", "closed"}]
    /\ writer \in [Conns -> {"off", "on", "ended"}]
    /\ voice \in SUBSET (Conns \X Rooms)
    /\ cleanups \in SUBSET (Conns \X Rooms)

BcastType == bcast \in [Senders -> BroadcastMessage \cup {NoMsg}]

SignalType ==
    /\ signals \in [Signallers -> SUBSET Users]
    /\ target \in [Signallers -> Conns \cup {None}]

HubType ==
    /\ clients \in [Users -> Conns \cup {None}]
    /\ run \in [pc : RunPC, conn : Conns \cup {None}, rooms : SUBSET Rooms]
    /\ run.pc # "select" => run.conn \in Conns

\* A handler in progress has the arguments it needs.
ChatPC == {"chatMember", "chatCreate", "chatLookup"}

TaskType ==
    /\ pc \in [Conns -> ConnPC]
    /\ req \in [Conns -> Request]
    /\ \A c \in Conns :
          /\ pc[c] \in ChatPC \cup {"join", "offer"} => req[c].room \in Rooms
          /\ pc[c] \in ChatPC => req[c].id \in 1..MaxSends

HttpType ==
    /\ http \in [Handlers -> [pc : HttpPC, room : Rooms \cup {None},
                              user : Users \cup {None}]]
    /\ \A h \in Handlers :
          /\ http[h].pc # "idle" => http[h].room \in Rooms
          /\ http[h].pc \in {"kickNotify", "kickUnsub"} => http[h].user \in Users

DbType ==
    /\ alive \in SUBSET Rooms
    /\ members \in SUBSET (Rooms \X Users)
    /\ messages \in [Rooms -> SUBSET (1..MaxSends)]
    /\ sends \in 0..MaxSends

TypeInv == /\ OutType /\ ConnType /\ BcastType /\ SignalType
           /\ HubType /\ TaskType /\ HttpType /\ DbType

LEMMA TypeInvImpliesTypeOK == TypeInv => TypeOK
BY DEF TypeInv, TypeOK, OutType, ConnType, BcastType, SignalType, HubType, TaskType, HttpType,
       DbType

LEMMA TypeInit == Init => TypeInv
<1>. SUFFICES ASSUME Init PROVE TypeInv
  OBVIOUS
<1>. USE HubAssumption DEF Init
<1>1. OutType BY DEF OutType, NoPanic
<1>2. ConnType BY DEF ConnType
<1>3. BcastType BY DEF BcastType
<1>4. SignalType BY DEF SignalType
<1>5. HubType BY DEF HubType, IdleRun, RunPC
<1>6. TaskType BY DEF TaskType, ChatPC, ConnPC, Request, NoRequest
<1>7. HttpType BY DEF HttpType, HttpPC, IdleHttp
<1>8. DbType BY DEF DbType
<1>. QED BY <1>1, <1>2, <1>3, <1>4, <1>5, <1>6, <1>7, <1>8 DEF TypeInv

LEMMA EventTypes ==
  Control \in Event /\ \A n \in 1..MaxSends : ChatMsg(n) \in Event /\ ChatError(n) \in Event
BY HubAssumption DEF Control, Event, ChatMsg, ChatError

\* SendEventToRoom keeps the types of what it writes to.
LEMMA DeliverType ==
  ASSUME OutType, NEW S, NEW e \in Event, Deliver(S, e)
  PROVE  /\ send' \in [Conns -> Seq(Event)]
         /\ chan' \in [Conns -> {"open", "overflow", "unregistered"}]
BY DEF OutType, Deliver

LEMMA SendType ==
  ASSUME OutType, NEW S, NEW e \in Event,
         NEW who \in {"hub", "owner", "signal", "cleanup"},
         SendEvent(S, e, who)
  PROVE  OutType'
<1>1. Dead(S) \in SUBSET Conns
  BY DEF Dead
<1>2. panic' \in {panic, [by |-> who, on |-> Dead(S)]}
  BY DEF SendEvent
<1>. QED
  BY <1>1, <1>2, DeliverType DEF OutType, SendEvent

LEMMA OutTypeStep ==
  ASSUME TypeInv, [Next]_vars PROVE OutType'
<1>. USE HubAssumption DEF TypeInv
<1>1. CASE RunStep
  BY <1>1, SendType, DeliverType, EventTypes, SMTT(20) DEF OutType, TaskType, ChatPC, DbType, BcastType,
         BroadcastMessage, NoMsg, Senders, RunStep, RunRegister, RunUnregister, RunAddClient,
         RunLeaveUser, RunRemove, RunNotifyDone, RunNotify, RunBroadcast, hub, out
<1>2. CASE SignalStep
  BY <1>2, SendType, DeliverType, EventTypes DEF OutType, SignalStep, SignalSend, SignalLookup,
         hub, out
<1>3. CASE MediaStep
  BY <1>3, SendType, DeliverType, EventTypes DEF OutType, MediaStep, MediaSignal,
         MediaPeerFailed, hub, out
<1>4. CASE CleanupStep
  BY <1>4, SendType, DeliverType, EventTypes DEF OutType, CleanupStep, WGPeerCleanup, hub, out
<1>5. CASE HttpRequest
  BY <1>5, SendType, DeliverType, EventTypes DEF OutType, TaskType, HttpRequest, JoinMember,
         KickMember, LeaveMember, DeleteRoom, AdminDeleteRoom, NotifyUser, hub, out, mem
<1>6. CASE HttpStep
  BY <1>6, SendType, DeliverType, EventTypes DEF OutType, HttpStep, KickNotify, KickUnsub,
         DeleteRoomRows, hub, out
<1>7. ASSUME NEW c \in Conns, ClientEvent(c) PROVE OutType'
  <2>1. CASE HandleHeartbeat(c)
    BY <2>1, SendType, DeliverType, EventTypes DEF OutType, HandleHeartbeat, hub, out
  <2>2. ASSUME NEW r \in Rooms, HandleRoomJoin(c, r) PROVE OutType'
    BY <2>2, SendType, DeliverType, EventTypes DEF OutType, HandleRoomJoin, hub, out
  <2>3. ASSUME NEW r \in Rooms, HandleRoomLeave(c, r) PROVE OutType'
    BY <2>3, SendType, DeliverType, EventTypes DEF OutType, HandleRoomLeave, hub, out
  <2>4. ASSUME NEW r \in Rooms, HandleChatSend(c, r) PROVE OutType'
    BY <2>4, SendType, DeliverType, EventTypes DEF OutType, DbType, BroadcastMessage, NoMsg,
           Senders, HandleChatSend, hub, out
  <2>5. ASSUME NEW r \in Rooms, HandleVoiceMute(c, r) PROVE OutType'
    BY <2>5, SendType, DeliverType, EventTypes DEF OutType, HandleVoiceMute, hub, out
  <2>6. ASSUME NEW r \in Rooms, HandleRTCOffer(c, r) PROVE OutType'
    BY <2>6, SendType, DeliverType, EventTypes DEF OutType, HandleRTCOffer, hub, out
  <2>7. ASSUME NEW r \in Rooms, HandleRTCLeave(c, r) PROVE OutType'
    BY <2>7, SendType, DeliverType, EventTypes DEF OutType, HandleRTCLeave, hub, out
  <2>8. ASSUME NEW r \in Rooms, HandleRTCSpeaking(c, r) PROVE OutType'
    BY <2>8, SendType, DeliverType, EventTypes DEF OutType, HandleRTCSpeaking, hub, out
  <2>. QED BY <1>7, <2>1, <2>2, <2>3, <2>4, <2>5, <2>6, <2>7, <2>8 DEF ClientEvent
<1>8. ASSUME NEW c \in Conns, ConnStep(c) PROVE OutType'
  <2>1. CASE ReadError(c)
    BY <2>1, SendType, DeliverType, EventTypes DEF OutType, ReadError, hub, out
  <2>2. CASE SendPong(c)
    BY <2>2, SendType, DeliverType, EventTypes DEF SendPong
  <2>3. CASE JoinRoom(c)
    BY <2>3, SendType, DeliverType, EventTypes DEF JoinRoom
  <2>4. CASE ChatMember(c)
    BY <2>4, SendType, DeliverType, EventTypes DEF OutType, Refuse, TaskType, ChatPC, ChatMember,
           hub, out
  <2>5. CASE ChatCreate(c)
    BY <2>5, SendType, DeliverType, EventTypes DEF OutType, Refuse, CreateFailed, TaskType,
           ChatPC, DbType, Senders, ChatCreate, hub, out
  <2>6. CASE ChatLookup(c)
    BY <2>6, SendType, DeliverType, EventTypes DEF OutType, Refuse, TaskType, ChatPC, ChatLookup,
           hub, out
  <2>7. CASE HandleOffer(c)
    BY <2>7, SendType, DeliverType, EventTypes DEF OutType, HandleOffer, hub, out
  <2>8. CASE WriteMessage(c)
    BY <2>8, SendType, DeliverType, EventTypes DEF OutType, WriteMessage
  <2>9. CASE WriteEnd(c)
    BY <2>9, SendType, DeliverType, EventTypes DEF OutType, WriteEnd, hub, out
  <2>. QED BY <1>8, <2>1, <2>2, <2>3, <2>4, <2>5, <2>6, <2>7, <2>8, <2>9 DEF ConnStep
<1>9. ASSUME NEW c \in Conns, Dial(c) PROVE OutType'
  BY <1>9, SendType, DeliverType, EventTypes DEF OutType, Dial, hub, out
<1>10. ASSUME NEW c \in Conns, Disconnect(c) PROVE OutType'
  BY <1>10, SendType, DeliverType, EventTypes DEF OutType, Disconnect, hub, out
<1>. QED
  BY <1>1, <1>2, <1>3, <1>4, <1>5, <1>6, <1>7, <1>8, <1>9, <1>10 DEF Next, Crashed, Finished,
         OutType, out, side, db, mem, vars

LEMMA ConnTypeStep ==
  ASSUME TypeInv, [Next]_vars PROVE ConnType'
<1>. USE HubAssumption DEF TypeInv
<1>1. CASE RunStep
  <2>1. ASSUME NEW c \in Conns, RunRegister(c) PROVE ConnType'
    BY <2>1 DEF ConnType, RunRegister, side
  <2>2. ASSUME NEW c \in Conns, RunUnregister(c) PROVE ConnType'
    BY <2>2 DEF ConnType, RunUnregister, side
  <2>3. CASE RunAddClient
    BY <2>3 DEF ConnType, RunAddClient, net, side
  <2>4. CASE RunLeaveUser
    BY <2>4 DEF ConnType, RunLeaveUser, net
  <2>5. CASE RunRemove
    BY <2>5 DEF ConnType, RunRemove, net, side
  <2>6. CASE RunNotifyDone
    BY <2>6 DEF ConnType, RunNotifyDone, net, side
  <2>7. ASSUME NEW r \in Rooms, RunNotify(r) PROVE ConnType'
    BY <2>7 DEF ConnType, HubType, CleanupOf, ChatPC, RunNotify, CanNotify, net
  <2>8. ASSUME NEW g \in Senders, RunBroadcast(g) PROVE ConnType'
    BY <2>8 DEF ConnType, RunBroadcast, net, side
  <2>. QED BY <1>1, <2>1, <2>2, <2>3, <2>4, <2>5, <2>6, <2>7, <2>8 DEF RunStep
<1>2. CASE SignalStep
  BY <1>2 DEF ConnType, SignalStep, SignalSend, SignalLookup, net, side
<1>3. CASE MediaStep
  BY <1>3 DEF ConnType, Drop, ChatPC, MediaStep, MediaSignal, MediaPeerFailed, net, side
<1>4. CASE CleanupStep
  BY <1>4 DEF ConnType, CleanupStep, WGPeerCleanup, net
<1>5. CASE HttpRequest
  BY <1>5 DEF ConnType, TaskType, ChatPC, HttpRequest, JoinMember, KickMember, LeaveMember,
         DeleteRoom, AdminDeleteRoom, NotifyUser, net, side, mem
<1>6. CASE HttpStep
  BY <1>6 DEF ConnType, HttpStep, KickNotify, KickUnsub, DeleteRoomRows, net
<1>7. ASSUME NEW c \in Conns, ClientEvent(c) PROVE ConnType'
  <2>1. CASE HandleHeartbeat(c)
    BY <2>1 DEF ConnType, HandleHeartbeat, net, side
  <2>2. ASSUME NEW r \in Rooms, HandleRoomJoin(c, r) PROVE ConnType'
    BY <2>2 DEF ConnType, HandleRoomJoin, net, side
  <2>3. ASSUME NEW r \in Rooms, HandleRoomLeave(c, r) PROVE ConnType'
    BY <2>3 DEF ConnType, Drop, HandleRoomLeave, net
  <2>4. ASSUME NEW r \in Rooms, HandleChatSend(c, r) PROVE ConnType'
    BY <2>4 DEF ConnType, HandleChatSend, net, side
  <2>5. ASSUME NEW r \in Rooms, HandleVoiceMute(c, r) PROVE ConnType'
    BY <2>5 DEF ConnType, HandleVoiceMute, net, side
  <2>6. ASSUME NEW r \in Rooms, HandleRTCOffer(c, r) PROVE ConnType'
    BY <2>6 DEF ConnType, HandleRTCOffer, net, side
  <2>7. ASSUME NEW r \in Rooms, HandleRTCLeave(c, r) PROVE ConnType'
    BY <2>7 DEF ConnType, Drop, HandleRTCLeave, net
  <2>8. ASSUME NEW r \in Rooms, HandleRTCSpeaking(c, r) PROVE ConnType'
    BY <2>8 DEF ConnType, HandleRTCSpeaking, net, side
  <2>. QED BY <1>7, <2>1, <2>2, <2>3, <2>4, <2>5, <2>6, <2>7, <2>8 DEF ClientEvent
<1>8. ASSUME NEW c \in Conns, ConnStep(c) PROVE ConnType'
  BY <1>8 DEF ConnType, TaskType, Drop, Peers, ChatPC, ConnStep, ReadError, SendPong, JoinRoom,
         ChatMember, ChatCreate, ChatLookup, HandleOffer, WriteMessage, WriteEnd, net, side
<1>9. ASSUME NEW c \in Conns, Dial(c) PROVE ConnType'
  BY <1>9 DEF ConnType, Dial, side
<1>10. ASSUME NEW c \in Conns, Disconnect(c) PROVE ConnType'
  BY <1>10 DEF ConnType, Disconnect, side
<1>. QED
  BY <1>1, <1>2, <1>3, <1>4, <1>5, <1>6, <1>7, <1>8, <1>9, <1>10 DEF Next, Crashed, Finished,
         ConnType, out, net, task, sig, side, db, mem, vars

LEMMA BcastTypeStep ==
  ASSUME TypeInv, [Next]_vars PROVE BcastType'
<1>. USE HubAssumption DEF TypeInv
<1>1. CASE RunStep
  BY <1>1, EventTypes DEF BcastType, TaskType, ChatPC, RunStep, RunRegister, RunUnregister,
         RunAddClient, RunLeaveUser, RunRemove, RunNotifyDone, RunNotify, RunBroadcast
<1>2. CASE SignalStep
  BY <1>2, EventTypes DEF BcastType, SignalStep, SignalSend, SignalLookup
<1>3. CASE MediaStep
  BY <1>3, EventTypes DEF BcastType, MediaStep, MediaSignal, MediaPeerFailed
<1>4. CASE CleanupStep
  BY <1>4, EventTypes DEF BcastType, CleanupStep, WGPeerCleanup
<1>5. CASE HttpRequest
  <2>1. ASSUME NEW u \in Users, NEW r \in Rooms, JoinMember(u, r) PROVE BcastType'
    BY <2>1, EventTypes DEF BcastType, JoinMember, mem
  <2>2. ASSUME NEW h \in Handlers, NEW u \in Users, NEW r \in Rooms, KickMember(h, u, r)
        PROVE  BcastType'
    BY <2>2, EventTypes DEF BcastType, KickMember
  <2>3. ASSUME NEW h \in Handlers, NEW u \in Users, NEW r \in Rooms, LeaveMember(h, u, r)
        PROVE  BcastType'
    BY <2>3, EventTypes DEF BcastType, Msg, BroadcastMessage, LeaveMember
  <2>4. ASSUME NEW h \in Handlers, NEW r \in Rooms, DeleteRoom(h, r) PROVE BcastType'
    BY <2>4, EventTypes DEF BcastType, Msg, BroadcastMessage, DeleteRoom
  <2>5. ASSUME NEW r \in Rooms, AdminDeleteRoom(r) PROVE BcastType'
    BY <2>5, EventTypes DEF BcastType, AdminDeleteRoom, mem
  <2>6. ASSUME NEW u \in Users, NotifyUser(u) PROVE BcastType'
    BY <2>6, EventTypes DEF BcastType, NotifyUser
  <2>. QED BY <1>5, <2>1, <2>2, <2>3, <2>4, <2>5, <2>6 DEF HttpRequest
<1>6. CASE HttpStep
  BY <1>6, EventTypes DEF BcastType, TaskType, HttpType, Msg, BroadcastMessage, Senders, ChatPC,
         HttpStep, KickNotify, KickUnsub, DeleteRoomRows
<1>7. ASSUME NEW c \in Conns, ClientEvent(c) PROVE BcastType'
  <2>1. CASE HandleHeartbeat(c)
    BY <2>1, EventTypes DEF BcastType, HandleHeartbeat
  <2>2. ASSUME NEW r \in Rooms, HandleRoomJoin(c, r) PROVE BcastType'
    BY <2>2, EventTypes DEF BcastType, HandleRoomJoin
  <2>3. ASSUME NEW r \in Rooms, HandleRoomLeave(c, r) PROVE BcastType'
    BY <2>3, EventTypes DEF BcastType, Msg, BroadcastMessage, HandleRoomLeave
  <2>4. ASSUME NEW r \in Rooms, HandleChatSend(c, r) PROVE BcastType'
    BY <2>4, EventTypes DEF BcastType, HandleChatSend
  <2>5. ASSUME NEW r \in Rooms, HandleVoiceMute(c, r) PROVE BcastType'
    BY <2>5, EventTypes DEF BcastType, Msg, BroadcastMessage, HandleVoiceMute
  <2>6. ASSUME NEW r \in Rooms, HandleRTCOffer(c, r) PROVE BcastType'
    BY <2>6, EventTypes DEF BcastType, HandleRTCOffer
  <2>7. ASSUME NEW r \in Rooms, HandleRTCLeave(c, r) PROVE BcastType'
    BY <2>7, EventTypes DEF BcastType, HandleRTCLeave
  <2>8. ASSUME NEW r \in Rooms, HandleRTCSpeaking(c, r) PROVE BcastType'
    BY <2>8, EventTypes DEF BcastType, HandleRTCSpeaking
  <2>. QED BY <1>7, <2>1, <2>2, <2>3, <2>4, <2>5, <2>6, <2>7, <2>8 DEF ClientEvent
<1>8. ASSUME NEW c \in Conns, ConnStep(c) PROVE BcastType'
  BY <1>8, EventTypes DEF BcastType, TaskType, HttpType, Msg, NoMsg, BroadcastMessage, Senders,
         ChatPC, ConnStep, ReadError, SendPong, JoinRoom, ChatMember, ChatCreate, ChatLookup,
         HandleOffer, WriteMessage, WriteEnd
<1>9. ASSUME NEW c \in Conns, Dial(c) PROVE BcastType'
  BY <1>9, EventTypes DEF BcastType, Dial
<1>10. ASSUME NEW c \in Conns, Disconnect(c) PROVE BcastType'
  BY <1>10, EventTypes DEF BcastType, Disconnect
<1>. QED
  BY <1>1, <1>2, <1>3, <1>4, <1>5, <1>6, <1>7, <1>8, <1>9, <1>10 DEF Next, Crashed, Finished,
         BcastType, out, side, db, mem, vars

LEMMA SignalTypeStep ==
  ASSUME TypeInv, [Next]_vars PROVE SignalType'
<1>. USE HubAssumption DEF TypeInv
<1>1. CASE RunStep
  BY <1>1 DEF SignalType, ConnType, Signallers, RunStep, RunRegister, RunUnregister,
         RunAddClient, RunLeaveUser, RunRemove, RunNotifyDone, RunNotify, RunBroadcast, sig
<1>2. CASE SignalStep
  BY <1>2 DEF SignalType, HubType, SignalStep, SignalSend, SignalLookup
<1>3. CASE MediaStep
  BY <1>3 DEF SignalType, ConnType, Peers, LeaveSignals, Signallers, MediaStep, MediaSignal,
         MediaPeerFailed
<1>4. CASE CleanupStep
  BY <1>4 DEF SignalType, CleanupStep, WGPeerCleanup, sig
<1>5. CASE HttpRequest
  BY <1>5 DEF SignalType, HttpRequest, JoinMember, KickMember, LeaveMember, DeleteRoom,
         AdminDeleteRoom, NotifyUser, sig, mem
<1>6. CASE HttpStep
  BY <1>6 DEF SignalType, HttpStep, KickNotify, KickUnsub, DeleteRoomRows, sig
<1>7. ASSUME NEW c \in Conns, ClientEvent(c) PROVE SignalType'
  <2>1. CASE HandleHeartbeat(c)
    BY <2>1 DEF SignalType, HandleHeartbeat, sig
  <2>2. ASSUME NEW r \in Rooms, HandleRoomJoin(c, r) PROVE SignalType'
    BY <2>2 DEF SignalType, HandleRoomJoin, sig
  <2>3. ASSUME NEW r \in Rooms, HandleRoomLeave(c, r) PROVE SignalType'
    BY <2>3 DEF SignalType, ConnType, Peers, LeaveSignals, Signallers, HandleRoomLeave
  <2>4. ASSUME NEW r \in Rooms, HandleChatSend(c, r) PROVE SignalType'
    BY <2>4 DEF SignalType, HandleChatSend, sig
  <2>5. ASSUME NEW r \in Rooms, HandleVoiceMute(c, r) PROVE SignalType'
    BY <2>5 DEF SignalType, ConnType, Peers, StateSignals, Signallers, HandleVoiceMute
  <2>6. ASSUME NEW r \in Rooms, HandleRTCOffer(c, r) PROVE SignalType'
    BY <2>6 DEF SignalType, HandleRTCOffer, sig
  <2>7. ASSUME NEW r \in Rooms, HandleRTCLeave(c, r) PROVE SignalType'
    BY <2>7 DEF SignalType, ConnType, Peers, LeaveSignals, Signallers, HandleRTCLeave
  <2>8. ASSUME NEW r \in Rooms, HandleRTCSpeaking(c, r) PROVE SignalType'
    BY <2>8 DEF SignalType, ConnType, Peers, StateSignals, Signallers, HandleRTCSpeaking
  <2>. QED BY <1>7, <2>1, <2>2, <2>3, <2>4, <2>5, <2>6, <2>7, <2>8 DEF ClientEvent
<1>8. ASSUME NEW c \in Conns, ConnStep(c) PROVE SignalType'
  BY <1>8 DEF SignalType, ConnType, HubType, Peers, Signallers, ConnStep, ReadError, SendPong,
         JoinRoom, ChatMember, ChatCreate, ChatLookup, HandleOffer, WriteMessage, WriteEnd, sig
<1>9. ASSUME NEW c \in Conns, Dial(c) PROVE SignalType'
  BY <1>9 DEF SignalType, Dial, sig
<1>10. ASSUME NEW c \in Conns, Disconnect(c) PROVE SignalType'
  BY <1>10 DEF SignalType, Disconnect, sig
<1>. QED
  BY <1>1, <1>2, <1>3, <1>4, <1>5, <1>6, <1>7, <1>8, <1>9, <1>10 DEF Next, Crashed, Finished,
         SignalType, out, net, task, sig, side, db, mem, vars

LEMMA HubTypeStep ==
  ASSUME TypeInv, [Next]_vars PROVE HubType'
<1>. USE HubAssumption DEF TypeInv
<1>1. CASE RunStep
  <2>1. ASSUME NEW c \in Conns, RunRegister(c) PROVE HubType'
    BY <2>1 DEF HubType, RunPC, RunRegister
  <2>2. ASSUME NEW c \in Conns, RunUnregister(c) PROVE HubType'
    BY <2>2 DEF HubType, RunPC, RunUnregister
  <2>3. CASE RunAddClient
    BY <2>3 DEF HubType, RunPC, IdleRun, RunAddClient
  <2>4. CASE RunLeaveUser
    BY <2>4 DEF HubType, RunPC, RunLeaveUser
  <2>5. CASE RunRemove
    <3>1. run.conn \in Conns /\ RoomsToNotify(run.conn) \in SUBSET Rooms
      BY <2>5 DEF HubType, ConnType, RoomsToNotify, RunRemove
    <3>. QED BY <2>5, <3>1 DEF HubType, RunPC, ClientsWithout, RunRemove
  <2>6. CASE RunNotifyDone
    BY <2>6 DEF HubType, RunPC, IdleRun, RunNotifyDone
  <2>7. ASSUME NEW r \in Rooms, RunNotify(r) PROVE HubType'
    BY <2>7 DEF HubType, RunNotify
  <2>8. ASSUME NEW g \in Senders, RunBroadcast(g) PROVE HubType'
    BY <2>8 DEF HubType, RunBroadcast, hub
  <2>. QED BY <1>1, <2>1, <2>2, <2>3, <2>4, <2>5, <2>6, <2>7, <2>8 DEF RunStep
<1>2. CASE SignalStep
  BY <1>2 DEF HubType, SignalStep, SignalSend, SignalLookup, hub, task
<1>3. CASE MediaStep
  BY <1>3 DEF HubType, MediaStep, MediaSignal, MediaPeerFailed, hub, task
<1>4. CASE CleanupStep
  BY <1>4 DEF HubType, CleanupStep, WGPeerCleanup, hub
<1>5. CASE HttpRequest
  BY <1>5 DEF HubType, HttpRequest, JoinMember, KickMember, LeaveMember, DeleteRoom,
         AdminDeleteRoom, NotifyUser, hub, task, mem
<1>6. CASE HttpStep
  BY <1>6 DEF HubType, HttpStep, KickNotify, KickUnsub, DeleteRoomRows, hub
<1>7. ASSUME NEW c \in Conns, ClientEvent(c) PROVE HubType'
  BY <1>7 DEF HubType, ClientEvent, HandleHeartbeat, HandleRoomJoin, HandleRoomLeave,
         HandleChatSend, HandleVoiceMute, HandleRTCOffer, HandleRTCLeave, HandleRTCSpeaking, hub,
         task
<1>8. ASSUME NEW c \in Conns, ConnStep(c) PROVE HubType'
  BY <1>8 DEF HubType, ConnType, RunPC, ConnStep, ReadError, SendPong, JoinRoom, ChatMember,
         ChatCreate, ChatLookup, HandleOffer, WriteMessage, WriteEnd, hub, task
<1>9. ASSUME NEW c \in Conns, Dial(c) PROVE HubType'
  BY <1>9 DEF HubType, Dial, hub
<1>10. ASSUME NEW c \in Conns, Disconnect(c) PROVE HubType'
  BY <1>10 DEF HubType, Disconnect, hub
<1>. QED
  BY <1>1, <1>2, <1>3, <1>4, <1>5, <1>6, <1>7, <1>8, <1>9, <1>10 DEF Next, Crashed, Finished,
         HubType, hub, out, side, db, mem, vars

LEMMA TaskTypeStep ==
  ASSUME TypeInv, [Next]_vars PROVE TaskType'
<1>. USE HubAssumption DEF TypeInv
<1>1. CASE RunStep
  BY <1>1 DEF TaskType, DbType, ConnPC, ChatPC, Request, RunStep, RunRegister, RunUnregister,
         RunAddClient, RunLeaveUser, RunRemove, RunNotifyDone, RunNotify, RunBroadcast, task
<1>2. CASE SignalStep
  BY <1>2 DEF TaskType, SignalStep, SignalSend, SignalLookup, task
<1>3. CASE MediaStep
  BY <1>3 DEF TaskType, MediaStep, MediaSignal, MediaPeerFailed, task
<1>4. CASE CleanupStep
  BY <1>4 DEF TaskType, CleanupStep, WGPeerCleanup, task
<1>5. CASE HttpRequest
  BY <1>5 DEF TaskType, HttpRequest, JoinMember, KickMember, LeaveMember, DeleteRoom,
         AdminDeleteRoom, NotifyUser, task, mem
<1>6. CASE HttpStep
  BY <1>6 DEF TaskType, HttpStep, KickNotify, KickUnsub, DeleteRoomRows, task
<1>7. ASSUME NEW c \in Conns, ClientEvent(c) PROVE TaskType'
  <2>1. CASE HandleHeartbeat(c)
    BY <2>1 DEF TaskType, ConnPC, ChatPC, HandleHeartbeat
  <2>2. ASSUME NEW r \in Rooms, HandleRoomJoin(c, r) PROVE TaskType'
    <3>1. pc' \in [Conns -> ConnPC]
      BY <2>2 DEF TaskType, ConnPC, HandleRoomJoin, task
    <3>2. req' \in [Conns -> Request]
      BY <2>2 DEF TaskType, Request, HandleRoomJoin, task
    <3>3. ASSUME NEW d \in Conns
          PROVE  /\ pc'[d] \in ChatPC \cup {"join", "offer"} => req'[d].room \in Rooms
                 /\ pc'[d] \in ChatPC => req'[d].id \in 1..MaxSends
      BY <2>2 DEF TaskType, ChatPC, HandleRoomJoin, task
    <3>. QED BY <3>1, <3>2, <3>3 DEF TaskType
  <2>3. ASSUME NEW r \in Rooms, HandleRoomLeave(c, r) PROVE TaskType'
    BY <2>3 DEF TaskType, HandleRoomLeave, task
  <2>4. ASSUME NEW r \in Rooms, HandleChatSend(c, r) PROVE TaskType'
    <3>1. pc' \in [Conns -> ConnPC]
      BY <2>4 DEF TaskType, ConnPC, HandleChatSend, Up, task
    <3>2. req' \in [Conns -> Request]
      BY <2>4 DEF TaskType, DbType, Request, HandleChatSend, task
    <3>3. ASSUME NEW d \in Conns
          PROVE  /\ pc'[d] \in ChatPC \cup {"join", "offer"} => req'[d].room \in Rooms
                 /\ pc'[d] \in ChatPC => req'[d].id \in 1..MaxSends
      BY <2>4 DEF TaskType, DbType, HandleChatSend, task
    <3>. QED BY <3>1, <3>2, <3>3 DEF TaskType
  <2>5. ASSUME NEW r \in Rooms, HandleVoiceMute(c, r) PROVE TaskType'
    BY <2>5 DEF TaskType, HandleVoiceMute, task
  <2>6. ASSUME NEW r \in Rooms, HandleRTCOffer(c, r) PROVE TaskType'
    BY <2>6 DEF TaskType, DbType, ConnPC, ChatPC, Request, HandleRTCOffer, task
  <2>7. ASSUME NEW r \in Rooms, HandleRTCLeave(c, r) PROVE TaskType'
    BY <2>7 DEF TaskType, HandleRTCLeave, task
  <2>8. ASSUME NEW r \in Rooms, HandleRTCSpeaking(c, r) PROVE TaskType'
    BY <2>8 DEF TaskType, HandleRTCSpeaking, task
  <2>. QED BY <1>7, <2>1, <2>2, <2>3, <2>4, <2>5, <2>6, <2>7, <2>8 DEF ClientEvent
<1>8. ASSUME NEW c \in Conns, ConnStep(c) PROVE TaskType'
  <2>1. CASE ReadError(c)
    BY <2>1 DEF TaskType, ConnPC, ChatPC, ReadError
  <2>2. CASE SendPong(c)
    BY <2>2 DEF TaskType, ConnPC, ChatPC, SendPong
  <2>3. CASE JoinRoom(c)
    BY <2>3 DEF TaskType, ConnPC, ChatPC, Request, NoRequest, JoinRoom
  <2>4. CASE ChatMember(c)
    <3>1. pc' \in [Conns -> ConnPC]
      BY <2>4 DEF TaskType, ConnPC, Refuse, ChatMember
    <3>2. req' \in [Conns -> Request]
      BY <2>4 DEF TaskType, Request, NoRequest, Refuse, ChatMember
    <3>3. ASSUME NEW d \in Conns
          PROVE  /\ pc'[d] \in ChatPC \cup {"join", "offer"} => req'[d].room \in Rooms
                 /\ pc'[d] \in ChatPC => req'[d].id \in 1..MaxSends
      BY <2>4 DEF TaskType, ChatPC, Refuse, ChatMember
    <3>. QED BY <3>1, <3>2, <3>3 DEF TaskType
  <2>5. CASE ChatCreate(c)
    <3>1. pc' \in [Conns -> ConnPC]
      BY <2>5 DEF TaskType, ConnPC, Refuse, CreateFailed, ChatCreate
    <3>2. req' \in [Conns -> Request]
      <4>1. NoRequest \in Request
        BY DEF NoRequest, Request
      <4>. QED BY <2>5, <4>1 DEF TaskType, Refuse, CreateFailed, ChatCreate
    <3>3. ASSUME NEW d \in Conns
          PROVE  /\ pc'[d] \in ChatPC \cup {"join", "offer"} => req'[d].room \in Rooms
                 /\ pc'[d] \in ChatPC => req'[d].id \in 1..MaxSends
      BY <2>5 DEF TaskType, ChatPC, Refuse, CreateFailed, ChatCreate
    <3>. QED BY <3>1, <3>2, <3>3 DEF TaskType
  <2>6. CASE ChatLookup(c)
    <3>1. pc' \in [Conns -> ConnPC]
      BY <2>6 DEF TaskType, ConnPC, Refuse, ChatLookup
    <3>2. req' \in [Conns -> Request]
      <4>1. NoRequest \in Request
        BY DEF NoRequest, Request
      <4>. QED BY <2>6, <4>1 DEF TaskType, Refuse, ChatLookup
    <3>3. ASSUME NEW d \in Conns
          PROVE  /\ pc'[d] \in ChatPC \cup {"join", "offer"} => req'[d].room \in Rooms
                 /\ pc'[d] \in ChatPC => req'[d].id \in 1..MaxSends
      BY <2>6 DEF TaskType, ChatPC, Refuse, ChatLookup
    <3>. QED BY <3>1, <3>2, <3>3 DEF TaskType
  <2>7. CASE HandleOffer(c)
    BY <2>7 DEF TaskType, ConnPC, ChatPC, Request, NoRequest, HandleOffer
  <2>8. CASE WriteMessage(c)
    BY <2>8 DEF TaskType, WriteMessage, task
  <2>9. CASE WriteEnd(c)
    BY <2>9 DEF TaskType, WriteEnd, task
  <2>. QED BY <1>8, <2>1, <2>2, <2>3, <2>4, <2>5, <2>6, <2>7, <2>8, <2>9 DEF ConnStep
<1>9. ASSUME NEW c \in Conns, Dial(c) PROVE TaskType'
  BY <1>9 DEF TaskType, ConnPC, ChatPC, Dial
<1>10. ASSUME NEW c \in Conns, Disconnect(c) PROVE TaskType'
  BY <1>10 DEF TaskType, Disconnect, task
<1>. QED
  BY <1>1, <1>2, <1>3, <1>4, <1>5, <1>6, <1>7, <1>8, <1>9, <1>10 DEF Next, Crashed, Finished,
         TaskType, out, net, task, sig, side, db, mem, vars

LEMMA HttpTypeStep ==
  ASSUME TypeInv, [Next]_vars PROVE HttpType'
<1>. USE HubAssumption DEF TypeInv
<1>1. CASE RunStep
  BY <1>1 DEF HttpType, RunStep, RunRegister, RunUnregister, RunAddClient, RunLeaveUser,
         RunRemove, RunNotifyDone, RunNotify, RunBroadcast, task, side
<1>2. CASE SignalStep
  BY <1>2 DEF HttpType, SignalStep, SignalSend, SignalLookup, side
<1>3. CASE MediaStep
  BY <1>3 DEF HttpType, MediaStep, MediaSignal, MediaPeerFailed, side
<1>4. CASE CleanupStep
  BY <1>4 DEF HttpType, CleanupStep, WGPeerCleanup
<1>5. CASE HttpRequest
  <2>1. ASSUME NEW u \in Users, NEW r \in Rooms, JoinMember(u, r) PROVE HttpType'
    BY <2>1 DEF HttpType, JoinMember, side, mem
  <2>2. ASSUME NEW h \in Handlers, NEW u \in Users, NEW r \in Rooms, KickMember(h, u, r)
        PROVE  HttpType'
    BY <2>2 DEF HttpType, HttpPC, KickMember
  <2>3. ASSUME NEW h \in Handlers, NEW u \in Users, NEW r \in Rooms, LeaveMember(h, u, r)
        PROVE  HttpType'
    BY <2>3 DEF HttpType, LeaveMember, side
  <2>4. ASSUME NEW h \in Handlers, NEW r \in Rooms, DeleteRoom(h, r) PROVE HttpType'
    BY <2>4 DEF HttpType, HttpPC, DeleteRoom
  <2>5. ASSUME NEW r \in Rooms, AdminDeleteRoom(r) PROVE HttpType'
    BY <2>5 DEF HttpType, AdminDeleteRoom, side, mem
  <2>6. ASSUME NEW u \in Users, NotifyUser(u) PROVE HttpType'
    BY <2>6 DEF HttpType, NotifyUser, side
  <2>. QED BY <1>5, <2>1, <2>2, <2>3, <2>4, <2>5, <2>6 DEF HttpRequest
<1>6. CASE HttpStep
  BY <1>6 DEF HttpType, HttpPC, IdleHttp, HttpStep, KickNotify, KickUnsub, DeleteRoomRows, task
<1>7. ASSUME NEW c \in Conns, ClientEvent(c) PROVE HttpType'
  BY <1>7 DEF HttpType, ClientEvent, HandleHeartbeat, HandleRoomJoin, HandleRoomLeave,
         HandleChatSend, HandleVoiceMute, HandleRTCOffer, HandleRTCLeave, HandleRTCSpeaking,
         task, side
<1>8. ASSUME NEW c \in Conns, ConnStep(c) PROVE HttpType'
  BY <1>8 DEF HttpType, ConnStep, ReadError, SendPong, JoinRoom, ChatMember, ChatCreate,
         ChatLookup, HandleOffer, WriteMessage, WriteEnd, task, side
<1>9. ASSUME NEW c \in Conns, Dial(c) PROVE HttpType'
  BY <1>9 DEF HttpType, Dial, side
<1>10. ASSUME NEW c \in Conns, Disconnect(c) PROVE HttpType'
  BY <1>10 DEF HttpType, Disconnect, side
<1>. QED
  BY <1>1, <1>2, <1>3, <1>4, <1>5, <1>6, <1>7, <1>8, <1>9, <1>10 DEF Next, Crashed, Finished,
         HttpType, out, side, db, mem, vars

LEMMA DbTypeStep ==
  ASSUME TypeInv, [Next]_vars PROVE DbType'
<1>. USE HubAssumption DEF TypeInv
<1>1. CASE RunStep
  BY <1>1 DEF DbType, RunStep, RunRegister, RunUnregister, RunAddClient, RunLeaveUser, RunRemove,
         RunNotifyDone, RunNotify, RunBroadcast, db
<1>2. CASE SignalStep
  BY <1>2 DEF DbType, SignalStep, SignalSend, SignalLookup, db
<1>3. CASE MediaStep
  BY <1>3 DEF DbType, MediaStep, MediaSignal, MediaPeerFailed, db
<1>4. CASE CleanupStep
  BY <1>4 DEF DbType, CleanupStep, WGPeerCleanup, db
<1>5. CASE HttpRequest
  <2>1. ASSUME NEW u \in Users, NEW r \in Rooms, JoinMember(u, r) PROVE DbType'
    BY <2>1 DEF DbType, JoinMember
  <2>2. ASSUME NEW h \in Handlers, NEW u \in Users, NEW r \in Rooms, KickMember(h, u, r)
        PROVE  DbType'
    BY <2>2 DEF DbType, KickMember
  <2>3. ASSUME NEW h \in Handlers, NEW u \in Users, NEW r \in Rooms, LeaveMember(h, u, r)
        PROVE  DbType'
    BY <2>3 DEF DbType, LeaveMember
  <2>4. ASSUME NEW h \in Handlers, NEW r \in Rooms, DeleteRoom(h, r) PROVE DbType'
    BY <2>4 DEF DbType, DeleteRoom, db
  <2>5. ASSUME NEW r \in Rooms, AdminDeleteRoom(r) PROVE DbType'
    BY <2>5 DEF DbType, DeleteRows, AdminDeleteRoom
  <2>6. ASSUME NEW u \in Users, NotifyUser(u) PROVE DbType'
    BY <2>6 DEF DbType, NotifyUser, db
  <2>. QED BY <1>5, <2>1, <2>2, <2>3, <2>4, <2>5, <2>6 DEF HttpRequest
<1>6. CASE HttpStep
  BY <1>6 DEF DbType, DeleteRows, HttpStep, KickNotify, KickUnsub, DeleteRoomRows, db
<1>7. ASSUME NEW c \in Conns, ClientEvent(c) PROVE DbType'
  <2>1. CASE HandleHeartbeat(c)
    BY <2>1 DEF DbType, HandleHeartbeat, db
  <2>2. ASSUME NEW r \in Rooms, HandleRoomJoin(c, r) PROVE DbType'
    BY <2>2 DEF DbType, HandleRoomJoin, db
  <2>3. ASSUME NEW r \in Rooms, HandleRoomLeave(c, r) PROVE DbType'
    BY <2>3 DEF DbType, HandleRoomLeave, db
  <2>4. ASSUME NEW r \in Rooms, HandleChatSend(c, r) PROVE DbType'
    BY <2>4 DEF DbType, HandleChatSend
  <2>5. ASSUME NEW r \in Rooms, HandleVoiceMute(c, r) PROVE DbType'
    BY <2>5 DEF DbType, HandleVoiceMute, db
  <2>6. ASSUME NEW r \in Rooms, HandleRTCOffer(c, r) PROVE DbType'
    BY <2>6 DEF DbType, HandleRTCOffer, db
  <2>7. ASSUME NEW r \in Rooms, HandleRTCLeave(c, r) PROVE DbType'
    BY <2>7 DEF DbType, HandleRTCLeave, db
  <2>8. ASSUME NEW r \in Rooms, HandleRTCSpeaking(c, r) PROVE DbType'
    BY <2>8 DEF DbType, HandleRTCSpeaking, db
  <2>. QED BY <1>7, <2>1, <2>2, <2>3, <2>4, <2>5, <2>6, <2>7, <2>8 DEF ClientEvent
<1>8. ASSUME NEW c \in Conns, ConnStep(c) PROVE DbType'
  BY <1>8 DEF DbType, TaskType, HttpType, ChatPC, ConnStep, ReadError, SendPong, JoinRoom,
         ChatMember, ChatCreate, ChatLookup, HandleOffer, WriteMessage, WriteEnd, db
<1>9. ASSUME NEW c \in Conns, Dial(c) PROVE DbType'
  BY <1>9 DEF DbType, Dial, db
<1>10. ASSUME NEW c \in Conns, Disconnect(c) PROVE DbType'
  BY <1>10 DEF DbType, Disconnect, db
<1>. QED
  BY <1>1, <1>2, <1>3, <1>4, <1>5, <1>6, <1>7, <1>8, <1>9, <1>10 DEF Next, Crashed, Finished,
         DbType, out, side, db, mem, vars

LEMMA TypeStep == TypeInv /\ [Next]_vars => TypeInv'
BY OutTypeStep, ConnTypeStep, BcastTypeStep, SignalTypeStep, HubTypeStep, TaskTypeStep,
   HttpTypeStep, DbTypeStep DEF TypeInv

\* The variables have the types the code declares: TypeOK, for every number of
\* users, connections, rooms, handlers and buffer slots.
THEOREM TypeCorrect == Spec => []TypeOK
<1>1. Init => TypeInv BY TypeInit
<1>2. TypeInv /\ [Next]_vars => TypeInv' BY TypeStep
<1>3. TypeInv => TypeOK BY TypeInvImpliesTypeOK
<1>. QED BY <1>1, <1>2, <1>3, PTL DEF Spec

-----------------------------------------------------------------------------
(* The registry of connections. *)

\* Only RunUnregister ends a ReadPump, an ended one stays so, and a connection
\* once registered is not registered again.
LEMMA PcStep ==
  ASSUME TypeInv, [Next]_vars, NEW c \in Conns
  PROVE  /\ pc[c] = "done" => pc'[c] = "done"
         /\ pc'[c] = "done" => pc[c] = "done" \/ RunUnregister(c)
         /\ pc'[c] \in {"idle", "register"} => pc[c] \in {"idle", "register"}
<1>. USE DEF TypeInv, TaskType
<1>1. CASE RunStep
  BY <1>1 DEF RunStep, RunRegister, RunUnregister, RunAddClient, RunLeaveUser, RunRemove,
         RunNotifyDone, RunNotify, RunBroadcast, net, task
<1>2. CASE SignalStep
  BY <1>2 DEF SignalStep, SignalSend, SignalLookup, task
<1>3. CASE MediaStep
  BY <1>3 DEF MediaStep, MediaSignal, MediaPeerFailed, task
<1>4. CASE CleanupStep
  BY <1>4 DEF CleanupStep, WGPeerCleanup, task
<1>5. CASE HttpRequest
  BY <1>5 DEF HttpRequest, JoinMember, KickMember, LeaveMember, DeleteRoom, AdminDeleteRoom,
         NotifyUser, mem, task
<1>6. CASE HttpStep
  BY <1>6 DEF HttpStep, KickNotify, KickUnsub, DeleteRoomRows, task
<1>7. ASSUME NEW d \in Conns, ClientEvent(d)
      PROVE  pc' = pc \/ (pc[d] = "read" /\ \E p \in {"pong", "join", "chatMember", "offer"} : pc' = [pc EXCEPT ![d] = p])
  BY <1>7 DEF ClientEvent, HandleHeartbeat, HandleRoomJoin, HandleRoomLeave, HandleChatSend,
         HandleVoiceMute, HandleRTCOffer, HandleRTCLeave, HandleRTCSpeaking, Receives, Reading,
         task
<1>8. ASSUME NEW d \in Conns, ConnStep(d)
      PROVE  pc' = pc \/ (pc[d] # "done" /\ \E p \in {"read", "unregister", "chatCreate", "chatLookup"} : pc' = [pc EXCEPT ![d] = p])
  BY <1>8 DEF ConnStep, ReadError, SendPong, JoinRoom, ChatMember, ChatCreate, ChatLookup,
         HandleOffer, WriteMessage, WriteEnd, Refuse, CreateFailed, Reading, task
<1>9. ASSUME NEW d \in Conns, Dial(d) \/ Disconnect(d)
      PROVE  pc' = pc \/ (pc[d] = "idle" /\ pc' = [pc EXCEPT ![d] = "register"])
  BY <1>9 DEF Dial, Disconnect, task
<1>. QED
  BY <1>1, <1>2, <1>3, <1>4, <1>5, <1>6, <1>7, <1>8, <1>9 DEF Next, Crashed, Finished, mem, task,
         vars

\* A send leaves a channel open, or closes it because the buffer is full.
LEMMA DeliverChan ==
  ASSUME OutType, NEW S, NEW e, Deliver(S, e), NEW c \in Conns
  PROVE  /\ chan'[c] = "unregistered" <=> chan[c] = "unregistered"
         /\ chan[c] = "overflow" => chan'[c] = "overflow"
BY DEF Deliver

\* Only RunRemove closes a channel as "unregistered".
LEMMA ChanStep ==
  ASSUME TypeInv, [Next]_vars, NEW c \in Conns, chan'[c] = "unregistered"
  PROVE  chan[c] = "unregistered" \/ (RunRemove /\ c = run.conn)
<1>. USE DeliverChan DEF TypeInv, SendEvent
<1>1. CASE RunStep
  <2>1. CASE RunRemove
    BY <2>1 DEF RunRemove
  <2>. QED BY <1>1, <2>1 DEF RunStep, RunRegister, RunUnregister, RunAddClient, RunLeaveUser,
                  RunNotifyDone, RunNotify, RunBroadcast, out
<1>2. CASE SignalStep
  BY <1>2 DEF SignalStep, SignalSend, SignalLookup, out
<1>3. CASE MediaStep
  BY <1>3 DEF MediaStep, MediaSignal, MediaPeerFailed, out
<1>4. CASE CleanupStep
  BY <1>4 DEF CleanupStep, WGPeerCleanup, out
<1>5. CASE HttpRequest
  BY <1>5 DEF HttpRequest, JoinMember, KickMember, LeaveMember, DeleteRoom, AdminDeleteRoom,
         NotifyUser, mem, out
<1>6. CASE HttpStep
  BY <1>6 DEF HttpStep, KickNotify, KickUnsub, DeleteRoomRows, out
<1>7. ASSUME NEW d \in Conns, ClientEvent(d) PROVE chan[c] = "unregistered"
  BY <1>7 DEF ClientEvent, HandleHeartbeat, HandleRoomJoin, HandleRoomLeave, HandleChatSend,
         HandleVoiceMute, HandleRTCOffer, HandleRTCLeave, HandleRTCSpeaking, out
<1>8. ASSUME NEW d \in Conns, ConnStep(d) PROVE chan[c] = "unregistered"
  BY <1>8 DEF ConnStep, ReadError, SendPong, JoinRoom, ChatMember, ChatCreate, ChatLookup,
         HandleOffer, WriteMessage, WriteEnd, Refuse, CreateFailed, out
<1>9. ASSUME NEW d \in Conns, Dial(d) \/ Disconnect(d) PROVE chan[c] = "unregistered"
  BY <1>9 DEF Dial, Disconnect, out
<1>. QED
  BY <1>1, <1>2, <1>3, <1>4, <1>5, <1>6, <1>7, <1>8, <1>9 DEF Next, Crashed, Finished, mem, out,
         vars

\* Only Run writes Clients and its own state.
LEMMA HubStep == [Next]_vars => RunStep \/ UNCHANGED hub
<1>. SUFFICES ASSUME [Next]_vars PROVE RunStep \/ UNCHANGED hub
  OBVIOUS
<1>1. CASE SignalStep \/ MediaStep \/ CleanupStep \/ HttpRequest \/ HttpStep
  BY <1>1 DEF SignalStep, SignalSend, SignalLookup, MediaStep, MediaSignal, MediaPeerFailed,
         CleanupStep, WGPeerCleanup, HttpRequest, JoinMember, KickMember, LeaveMember,
         DeleteRoom, AdminDeleteRoom, NotifyUser, HttpStep, KickNotify, KickUnsub,
         DeleteRoomRows, mem
<1>2. ASSUME NEW c \in Conns, Dial(c) \/ Disconnect(c) \/ ClientEvent(c) PROVE UNCHANGED hub
  BY <1>2 DEF Dial, Disconnect, ClientEvent, HandleHeartbeat, HandleRoomJoin, HandleRoomLeave,
         HandleChatSend, HandleVoiceMute, HandleRTCOffer, HandleRTCLeave, HandleRTCSpeaking
<1>3. ASSUME NEW c \in Conns, ConnStep(c) PROVE UNCHANGED hub
  BY <1>3 DEF ConnStep, ReadError, SendPong, JoinRoom, ChatMember, ChatCreate, ChatLookup,
         HandleOffer, WriteMessage, WriteEnd
<1>. QED BY <1>1, <1>2, <1>3 DEF Next, Crashed, Finished, mem, vars

\* What RegistryInv says of a connection the hub hands out.
LEMMA CurrentIsUsable ==
  ASSUME TypeInv, EntryOK, ChanOK, NEW c \in Conns, IsCurrent(c)
  PROVE  chan[c] # "unregistered"
BY DEF EntryOK, ChanOK

LEMMA EntryIsCurrent ==
  ASSUME TypeInv, EntryOK, NEW u \in Users, clients[u] # None
  PROVE  clients[u] \in Conns /\ IsCurrent(clients[u])
BY DEF TypeInv, HubType, EntryOK, IsCurrent

LEMMA EntryStep == TypeInv /\ RegistryInv /\ [Next]_vars => EntryOK'
<1>. SUFFICES ASSUME TypeInv, RegistryInv, [Next]_vars PROVE EntryOK'
  OBVIOUS
<1>. USE HubAssumption DEF TypeInv, HubType, RegistryInv, EntryOK, Removing, IsCurrent
<1>1. CASE RunStep
  <2>1. ASSUME NEW c \in Conns, RunRegister(c) PROVE EntryOK'
    BY <2>1 DEF RunRegister
  <2>2. ASSUME NEW c \in Conns, RunUnregister(c) PROVE EntryOK'
    BY <2>2 DEF RunUnregister
  <2>3. CASE RunAddClient
    BY <2>3 DEF RunAddClient, RunOK, task
  <2>4. CASE RunLeaveUser
    BY <2>4 DEF RunLeaveUser, task
  <2>5. CASE RunRemove
    BY <2>5 DEF RunRemove, ClientsWithout, task
  <2>6. CASE RunNotifyDone
    BY <2>6 DEF RunNotifyDone, task
  <2>7. ASSUME NEW r \in Rooms, RunNotify(r) PROVE EntryOK'
    BY <2>7 DEF RunNotify, task
  <2>8. ASSUME NEW g \in Senders, RunBroadcast(g) PROVE EntryOK'
    BY <2>8 DEF RunBroadcast, hub, task
  <2>. QED BY <1>1, <2>1, <2>2, <2>3, <2>4, <2>5, <2>6, <2>7, <2>8 DEF RunStep
<1>2. CASE ~RunStep
  <2>1. UNCHANGED <<clients, run>>
    BY <1>2, HubStep DEF hub
  <2>2. \A c \in Conns : pc'[c] = "done" => pc[c] = "done"
    BY <1>2, PcStep DEF RunStep
  <2>. QED BY <2>1, <2>2
<1>. QED BY <1>1, <1>2

LEMMA RunOKStep == TypeInv /\ RegistryInv /\ [Next]_vars => RunOK'
<1>. SUFFICES ASSUME TypeInv, RegistryInv, [Next]_vars PROVE RunOK'
  OBVIOUS
<1>. USE HubAssumption DEF TypeInv, HubType, RegistryInv, RunOK
<1>1. CASE RunStep
  <2>1. ASSUME NEW c \in Conns, RunRegister(c) PROVE RunOK'
    BY <2>1 DEF RunRegister, TaskType
  <2>2. ASSUME NEW c \in Conns, RunUnregister(c) PROVE RunOK'
    BY <2>2 DEF RunUnregister, TaskType
  <2>3. CASE RunAddClient \/ RunNotifyDone
    BY <2>3 DEF RunAddClient, RunNotifyDone, IdleRun
  <2>4. CASE RunLeaveUser
    BY <2>4 DEF RunLeaveUser, task
  <2>5. CASE RunRemove
    BY <2>5 DEF RunRemove, task
  <2>6. ASSUME NEW r \in Rooms, RunNotify(r) PROVE RunOK'
    BY <2>6 DEF RunNotify, task
  <2>7. ASSUME NEW g \in Senders, RunBroadcast(g) PROVE RunOK'
    BY <2>7 DEF RunBroadcast, hub
  <2>. QED BY <1>1, <2>1, <2>2, <2>3, <2>4, <2>5, <2>6, <2>7 DEF RunStep
<1>2. CASE ~RunStep
  <2>1. run' = run
    BY <1>2, HubStep DEF hub
  <2>2. \A c \in Conns : /\ pc[c] = "done" <=> pc'[c] = "done"
                         /\ pc'[c] \in {"idle", "register"} => pc[c] \in {"idle", "register"}
    BY <1>2, PcStep DEF RunStep
  <2>. QED BY <2>1, <2>2
<1>. QED BY <1>1, <1>2

LEMMA ChanOKStep == TypeInv /\ RegistryInv /\ [Next]_vars => ChanOK'
<1>. SUFFICES ASSUME TypeInv, RegistryInv, [Next]_vars, NEW c \in Conns, chan'[c] = "unregistered"
              PROVE  pc'[c] = "done" /\ ~Removing(c)'
  BY DEF ChanOK
<1>. USE DEF TypeInv, HubType, RegistryInv, Removing
<1>1. CASE RunRemove /\ c = run.conn
  BY <1>1, PcStep DEF RunRemove, RunOK
<1>2. CASE chan[c] = "unregistered"
  <2>1. pc[c] = "done" /\ ~Removing(c) /\ pc'[c] = "done"
    BY <1>2, PcStep DEF ChanOK
  <2>2. CASE UNCHANGED hub
    BY <2>1, <2>2 DEF hub
  <2>3. ASSUME NEW d \in Conns, RunRegister(d) \/ RunUnregister(d) PROVE ~Removing(c)'
    BY <2>1, <2>3 DEF RunRegister, RunUnregister
  <2>4. CASE RunAddClient \/ RunNotifyDone
    BY <2>1, <2>4 DEF RunAddClient, RunNotifyDone, IdleRun
  <2>5. CASE RunLeaveUser \/ RunRemove
    BY <2>1, <2>5 DEF RunLeaveUser, RunRemove
  <2>6. ASSUME NEW r \in Rooms, RunNotify(r) PROVE ~Removing(c)'
    BY <2>6 DEF RunNotify, CanNotify
  <2>7. ASSUME NEW g \in Senders, RunBroadcast(g) PROVE ~Removing(c)'
    BY <2>1, <2>7 DEF RunBroadcast, hub
  <2>. QED BY <2>1, <2>2, <2>3, <2>4, <2>5, <2>6, <2>7, HubStep DEF RunStep
<1>. QED BY <1>1, <1>2, ChanStep

LEMMA LeaveNoticeStep == TypeInv /\ RegistryInv /\ [Next]_vars => LeaveNoticeTrue'
<1>. SUFFICES ASSUME TypeInv, RegistryInv, [Next]_vars PROVE LeaveNoticeTrue'
  OBVIOUS
<1>. USE HubAssumption DEF TypeInv, HubType, RegistryInv, LeaveNoticeTrue
<1>1. CASE UNCHANGED hub
  BY <1>1 DEF hub
<1>2. CASE RunRemove
  BY <1>2 DEF RunRemove, ClientsWithout, RoomsToNotify
<1>3. ASSUME NEW r \in Rooms, RunNotify(r) PROVE LeaveNoticeTrue'
  BY <1>3 DEF RunNotify
<1>4. CASE RunStep /\ ~RunRemove /\ ~\E r \in Rooms : RunNotify(r)
  BY <1>4 DEF RunStep, RunRegister, RunUnregister, RunAddClient, RunLeaveUser, RunNotifyDone,
         RunBroadcast, IdleRun, hub
<1>. QED BY <1>1, <1>2, <1>3, <1>4, HubStep

\* A send can panic only on a channel that is closed.
LEMMA SendPanic ==
  ASSUME OutType, Up, NEW S, NEW e, NEW who, SendEvent(S, e, who),
         \/ who = "signal"
         \/ \A c \in S \cap Conns : chan[c] # "unregistered"
  PROVE  PanicCause'
<1>1. CASE Dead(S) = {}
  BY <1>1 DEF SendEvent, Up, NoPanic, PanicCause
<1>2. CASE Dead(S) # {}
  <2>1. panic' = [by |-> who, on |-> Dead(S)]
    BY <1>2 DEF SendEvent
  <2>2. ASSUME NEW c \in Dead(S), who # "signal" PROVE chan'[c] = "overflow"
    BY <2>2, DeliverChan DEF Dead, OutType, SendEvent
  <2>. QED BY <2>1, <2>2 DEF PanicCause
<1>. QED BY <1>1, <1>2

LEMMA NoNewPanic == Up /\ panic' = panic => PanicCause'
BY DEF Up, NoPanic, PanicCause

LEMMA PanicStep == TypeInv /\ RegistryInv /\ [Next]_vars => PanicCause'
<1>. SUFFICES ASSUME TypeInv, RegistryInv, [Next]_vars PROVE PanicCause'
  OBVIOUS
<1>. USE HubAssumption, NoNewPanic DEF TypeInv, RegistryInv
<1>0. \A c \in Conns : pc[c] # "done" => chan[c] # "unregistered"
  BY DEF ChanOK
<1>1. \A r, u : \A c \in Subscribers(r, u) : chan[c] # "unregistered"
  BY CurrentIsUsable DEF Subscribers, IsCurrent
<1>2. CASE RunStep
  <2>1. CASE RunAddClient
    BY <2>1, <1>0, SendPanic DEF RunAddClient, RunOK
  <2>2. CASE RunLeaveUser
    <3>1. \A u \in Users : clients[u] # None => chan[clients[u]] # "unregistered"
      BY EntryIsCurrent, CurrentIsUsable
    <3>2. \A r \in Rooms : Peers(voice, r) \in SUBSET Users
      BY DEF Peers, ConnType
    <3>. QED BY <2>2, <3>1, <3>2, SendPanic DEF RunLeaveUser
  <2>3. ASSUME NEW r \in Rooms, RunNotify(r) PROVE PanicCause'
    BY <2>3, <1>1, SendPanic DEF RunNotify
  <2>4. ASSUME NEW g \in Senders, RunBroadcast(g) PROVE PanicCause'
    BY <2>4, <1>1, SendPanic DEF RunBroadcast
  <2>. QED BY <1>2, <2>1, <2>2, <2>3, <2>4 DEF RunStep, RunRegister, RunUnregister, RunRemove,
                  RunNotifyDone, out
<1>3. CASE SignalStep \/ MediaStep
  BY <1>3, SendPanic DEF SignalStep, SignalSend, SignalLookup, MediaStep, MediaSignal,
         MediaPeerFailed, out
<1>4. CASE CleanupStep
  BY <1>4, <1>1, SendPanic DEF CleanupStep, WGPeerCleanup, out
<1>5. CASE HttpRequest \/ HttpStep
  BY <1>5 DEF HttpRequest, JoinMember, KickMember, LeaveMember, DeleteRoom, AdminDeleteRoom,
         NotifyUser, HttpStep, KickNotify, KickUnsub, DeleteRoomRows, mem, out
<1>6. ASSUME NEW c \in Conns, ClientEvent(c) PROVE PanicCause'
  <2>1. Up /\ pc[c] = "read"
    BY <1>6 DEF ClientEvent, HandleHeartbeat, HandleRoomJoin, HandleRoomLeave, HandleChatSend,
           HandleVoiceMute, HandleRTCOffer, HandleRTCLeave, HandleRTCSpeaking, Receives, Reading
  <2>. QED BY <1>6, <1>0, <2>1, SendPanic DEF ClientEvent, HandleHeartbeat, HandleRoomJoin,
                  HandleRoomLeave, HandleChatSend, HandleVoiceMute, HandleRTCOffer,
                  HandleRTCLeave, HandleRTCSpeaking, out
<1>7. ASSUME NEW c \in Conns, ConnStep(c) PROVE PanicCause'
  BY <1>7, <1>0, SendPanic DEF ConnStep, ReadError, SendPong, JoinRoom, ChatMember, ChatCreate,
         ChatLookup, HandleOffer, WriteMessage, WriteEnd, Refuse, CreateFailed, out
<1>8. ASSUME NEW c \in Conns, Dial(c) \/ Disconnect(c) PROVE PanicCause'
  BY <1>8 DEF Dial, Disconnect, out
<1>9. CASE UNCHANGED vars
  BY <1>9 DEF PanicCause, vars, mem, out
<1>. QED BY <1>2, <1>3, <1>4, <1>5, <1>6, <1>7, <1>8, <1>9 DEF Next, Crashed, Finished

LEMMA RegistryStep == TypeInv /\ RegistryInv /\ [Next]_vars => RegistryInv'
BY EntryStep, ChanOKStep, RunOKStep, LeaveNoticeStep, PanicStep DEF RegistryInv

LEMMA RegistryInit == Init => RegistryInv
BY HubAssumption DEF Init, RegistryInv, EntryOK, ChanOK, RunOK, LeaveNoticeTrue, PanicCause,
       IdleRun, NoPanic, IsCurrent

LEMMA RegistryInductive == Spec => [](TypeInv /\ RegistryInv)
<1>1. Init => TypeInv /\ RegistryInv BY TypeInit, RegistryInit
<1>2. TypeInv /\ RegistryInv /\ [Next]_vars => (TypeInv /\ RegistryInv)' BY TypeStep,
                                                                            RegistryStep
<1>. QED BY <1>1, <1>2, PTL DEF Spec

\* Whatever connection the hub hands out through Clients can be sent to, or
\* overflowed: Unregister removes the entry before it is seen with a closed
\* channel (hub.go:116-125).
THEOREM RegistrySafe == Spec => []RegisteredIsUsable
<1>1. TypeInv /\ RegistryInv => RegisteredIsUsable
  BY EntryIsCurrent, CurrentIsUsable DEF RegistryInv, RegisteredIsUsable
<1>. QED BY <1>1, RegistryInductive, PTL

\* No connection comes back into Clients after its Unregister (hub.go:107-137).
THEOREM UnregisterFinal == Spec => []UnregisteredIsGone
<1>1. TypeInv /\ RegistryInv => UnregisteredIsGone
  BY DEF RegistryInv, EntryOK, Removing, UnregisteredIsGone
<1>. QED BY <1>1, RegistryInductive, PTL

\* room.member_leave is announced only for a user who is gone (hub.go:127-131).
THEOREM LeaveNoticesTrue == Spec => []LeaveNoticeTrue
<1>1. TypeInv /\ RegistryInv => LeaveNoticeTrue
  BY DEF RegistryInv
<1>. QED BY <1>1, RegistryInductive, PTL

\* The only sends that can hit a channel Unregister closed are those of
\* SendMediaSignal (hub.go:81-88): Run, the handlers of a connection and the
\* delayed clean-ups meet a closed channel only after an overflow.
THEOREM PanicsExplained == Spec => []PanicCause
<1>1. TypeInv /\ RegistryInv => PanicCause
  BY DEF RegistryInv
<1>. QED BY <1>1, RegistryInductive, PTL

\* The entry of a user is emptied only by the Unregister of the connection it
\* holds (hub.go:117-122): a reconnect survives the end of its predecessor.
THEOREM ReplacementSurvives == Spec => OnlyOwnUnregisterRemoves
<1>. DEFINE Own == \A u \in Users : clients[u] # None /\ clients'[u] = None
                       => pc[clients[u]] = "done" /\ run.conn = clients[u]
<1>1. ASSUME TypeInv, RegistryInv, [Next]_vars PROVE Own
  <2>. SUFFICES ASSUME NEW u \in Users, clients[u] # None, clients'[u] = None
                PROVE  pc[clients[u]] = "done" /\ run.conn = clients[u]
    OBVIOUS
  <2>1. RunStep
    BY <1>1, HubStep DEF hub
  <2>2. RunRemove
    BY <1>1, <2>1, HubAssumption DEF RunStep, RunRegister, RunUnregister, RunAddClient,
           RunLeaveUser, RunNotifyDone, RunNotify, RunBroadcast, hub, TypeInv, HubType
  <2>. QED BY <1>1, <2>2, HubAssumption DEF RunRemove, ClientsWithout, IsCurrent, RegistryInv,
                  RunOK
<1>. QED BY <1>1, RegistryInductive, PTL DEF Spec, OnlyOwnUnregisterRemoves

-----------------------------------------------------------------------------
(* Chat: what is broadcast has been stored. *)

Kept(r, n)      == n \in messages[r] \/ r \notin alive
KeptAfter(r, n) == n \in messages'[r] \/ r \notin alive'

\* A message row goes only with its room.
LEMMA KeptStep ==
  ASSUME TypeInv, [Next]_vars, NEW r \in Rooms, NEW n, Kept(r, n)
  PROVE  KeptAfter(r, n)
<1>. USE DEF TypeInv, DbType, Kept, KeptAfter
<1>1. CASE HttpRequest
  BY <1>1 DEF HttpRequest, JoinMember, KickMember, LeaveMember, DeleteRoom, AdminDeleteRoom,
         DeleteRows, NotifyUser, db
<1>2. CASE HttpStep
  BY <1>2, HubAssumption DEF HttpStep, KickNotify, KickUnsub, DeleteRoomRows, DeleteRows, db
<1>3. CASE RunStep \/ SignalStep \/ MediaStep \/ CleanupStep
  BY <1>3 DEF RunStep, RunRegister, RunUnregister, RunAddClient, RunLeaveUser, RunRemove,
         RunNotifyDone, RunNotify, RunBroadcast, SignalStep, SignalSend, SignalLookup, MediaStep,
         MediaSignal, MediaPeerFailed, CleanupStep, WGPeerCleanup, db
<1>4. ASSUME NEW c \in Conns, ClientEvent(c) PROVE KeptAfter(r, n)
  BY <1>4 DEF ClientEvent, HandleHeartbeat, HandleRoomJoin, HandleRoomLeave, HandleChatSend,
         HandleVoiceMute, HandleRTCOffer, HandleRTCLeave, HandleRTCSpeaking, db
<1>5. ASSUME NEW c \in Conns, ConnStep(c) PROVE KeptAfter(r, n)
  <2>1. CASE ChatCreate(c)
    BY <2>1 DEF ChatCreate
  <2>. QED BY <1>5, <2>1 DEF ConnStep, ReadError, SendPong, JoinRoom, ChatMember, ChatLookup,
                  HandleOffer, WriteMessage, WriteEnd, db
<1>6. ASSUME NEW c \in Conns, Dial(c) \/ Disconnect(c) PROVE KeptAfter(r, n)
  BY <1>6 DEF Dial, Disconnect, db
<1>. QED BY <1>1, <1>2, <1>3, <1>4, <1>5, <1>6 DEF Next, Crashed, Finished, vars, db

\* The events a send adds to a queue are the one that is sent.
LEMMA DeliverQueue ==
  ASSUME OutType, NEW S, NEW e \in Event, Deliver(S, e),
         NEW c \in Conns, NEW i \in 1..Len(send'[c])
  PROVE  send'[c][i] = e \/ \E j \in 1..Len(send[c]) : send'[c][i] = send[c][j]
BY DEF Deliver

LEMMA NoChatDelivered ==
  ASSUME OutType, NEW S, NEW e \in Event, e.ev # "chat.message", Deliver(S, e),
         NEW c \in Conns, NEW i \in 1..Len(send'[c]), send'[c][i].ev = "chat.message"
  PROVE  \E j \in 1..Len(send[c]) : send'[c][i] = send[c][j]
BY DeliverQueue

LEMMA NotChat ==
  Control.ev # "chat.message" /\ \A n : ChatError(n).ev # "chat.message"
BY DEF Control, ChatError

\* A chat message enters a queue from h.Broadcast only.
LEMMA QueueStep ==
  ASSUME TypeInv, [Next]_vars, NEW c \in Conns, NEW i \in 1..Len(send'[c]),
         send'[c][i].ev = "chat.message"
  PROVE  \/ \E j \in 1..Len(send[c]) : send'[c][i] = send[c][j]
         \/ \E g \in Senders : bcast[g] # NoMsg /\ send'[c][i] = bcast[g].event
<1>. USE NoChatDelivered, NotChat, EventTypes DEF TypeInv, SendEvent
<1>1. CASE RunStep
  <2>1. ASSUME NEW g \in Senders, RunBroadcast(g)
        PROVE  \/ \E j \in 1..Len(send[c]) : send'[c][i] = send[c][j]
               \/ \E d \in Senders : bcast[d] # NoMsg /\ send'[c][i] = bcast[d].event
    BY <2>1, DeliverQueue DEF RunBroadcast, BcastType, BroadcastMessage
  <2>. QED BY <1>1, <2>1 DEF RunStep, RunRegister, RunUnregister, RunAddClient, RunLeaveUser,
                  RunRemove, RunNotifyDone, RunNotify, out
<1>2. CASE SignalStep \/ MediaStep \/ CleanupStep
  BY <1>2 DEF SignalStep, SignalSend, SignalLookup, MediaStep, MediaSignal, MediaPeerFailed,
         CleanupStep, WGPeerCleanup, out
<1>3. CASE HttpRequest \/ HttpStep
  BY <1>3 DEF HttpRequest, JoinMember, KickMember, LeaveMember, DeleteRoom, AdminDeleteRoom,
         NotifyUser, HttpStep, KickNotify, KickUnsub, DeleteRoomRows, mem, out
<1>4. ASSUME NEW d \in Conns, ClientEvent(d)
      PROVE  \E j \in 1..Len(send[c]) : send'[c][i] = send[c][j]
  <2>1. CASE send' = send
    BY <2>1
  <2>2. CASE SendEvent({d}, Control, "owner")
    BY <2>2
  <2>3. CASE sends < MaxSends /\ SendEvent({d}, ChatError(sends + 1), "owner")
    <3>1. sends + 1 \in 1..MaxSends
      BY <2>3, HubAssumption DEF DbType
    <3>. QED BY <2>3, <3>1
  <2>. QED
    BY <1>4, <2>1, <2>2, <2>3 DEF ClientEvent, HandleHeartbeat, HandleRoomJoin, HandleRoomLeave,
           HandleChatSend, HandleVoiceMute, HandleRTCOffer, HandleRTCLeave, HandleRTCSpeaking,
           out
<1>5. ASSUME NEW d \in Conns, ConnStep(d) PROVE \E j \in 1..Len(send[c]) : send'[c][i] = send[c][j]
  <2>1. CASE WriteMessage(d)
    BY <2>1 DEF WriteMessage
  <2>2. CASE Refuse(d) /\ pc[d] \in ChatPC
    BY <2>2 DEF Refuse, TaskType
  <2>3. CASE SendPong(d) \/ JoinRoom(d) \/ HandleOffer(d)
    BY <2>3 DEF SendPong, JoinRoom, HandleOffer, out
  <2>. QED BY <1>5, <2>1, <2>2, <2>3 DEF ConnStep, ReadError, ChatMember, ChatCreate,
                  CreateFailed, ChatLookup, ChatPC, WriteEnd, out
<1>6. ASSUME NEW d \in Conns, Dial(d) \/ Disconnect(d) PROVE send' = send
  BY <1>6 DEF Dial, Disconnect, out
<1>. QED BY <1>1, <1>2, <1>3, <1>4, <1>5, <1>6 DEF Next, Crashed, Finished, vars, mem, out

\* Only a handler that stored its message hands a chat message to h.Broadcast.
LEMMA ChatBcastStep ==
  ASSUME TypeInv, [Next]_vars, NEW g \in Senders, bcast'[g].event.ev = "chat.message"
  PROVE  \/ bcast'[g] = bcast[g]
         \/ /\ g \in Conns /\ pc[g] = "chatLookup"
            /\ bcast'[g] = Msg(req[g].room, ChatMsg(req[g].id), None)
<1>. USE NotChat DEF TypeInv, BcastType, Msg, NoMsg
<1>1. CASE RunStep
  BY <1>1 DEF RunStep, RunRegister, RunUnregister, RunAddClient, RunLeaveUser, RunRemove,
         RunNotifyDone, RunNotify, RunBroadcast
<1>2. CASE SignalStep \/ MediaStep \/ CleanupStep
  BY <1>2 DEF SignalStep, SignalSend, SignalLookup, MediaStep, MediaSignal, MediaPeerFailed,
         CleanupStep, WGPeerCleanup
<1>3. CASE HttpRequest
  <2>1. CASE UNCHANGED bcast
    BY <2>1
  <2>2. ASSUME NEW h \in Handlers, NEW r \in Rooms, NEW u, bcast' = [bcast EXCEPT ![h] = Msg(r, Control, u)]
        PROVE  bcast'[g] = bcast[g]
    BY <2>2
  <2>3. ASSUME NEW h \in Handlers, NEW u \in Users, NEW r \in Rooms,
               KickMember(h, u, r) \/ LeaveMember(h, u, r)
        PROVE  bcast'[g] = bcast[g]
    BY <2>1, <2>2, <2>3 DEF KickMember, LeaveMember
  <2>4. ASSUME NEW h \in Handlers, NEW r \in Rooms, DeleteRoom(h, r)
        PROVE  bcast'[g] = bcast[g]
    BY <2>2, <2>4 DEF DeleteRoom
  <2>5. ASSUME NEW u \in Users, NEW r \in Rooms, JoinMember(u, r)
        PROVE  bcast' = bcast
    BY <2>5 DEF JoinMember, mem
  <2>6. ASSUME NEW r \in Rooms, AdminDeleteRoom(r) PROVE bcast' = bcast
    BY <2>6 DEF AdminDeleteRoom, mem
  <2>7. ASSUME NEW u \in Users, NotifyUser(u) PROVE bcast' = bcast
    BY <2>7 DEF NotifyUser
  <2>. QED BY <1>3, <2>3, <2>4, <2>5, <2>6, <2>7 DEF HttpRequest
<1>4. CASE HttpStep
  BY <1>4 DEF HttpStep, KickNotify, KickUnsub, DeleteRoomRows
<1>5. ASSUME NEW d \in Conns, ClientEvent(d) PROVE bcast'[g] = bcast[g]
  <2>1. CASE UNCHANGED bcast
    BY <2>1
  <2>2. ASSUME NEW r \in Rooms, NEW u, bcast' = [bcast EXCEPT ![d] = Msg(r, Control, u)]
        PROVE  bcast'[g] = bcast[g]
    BY <2>2
  <2>. QED BY <1>5, <2>1, <2>2 DEF ClientEvent, HandleHeartbeat, HandleRoomJoin, HandleRoomLeave,
                  HandleChatSend, HandleVoiceMute, HandleRTCOffer, HandleRTCLeave,
                  HandleRTCSpeaking
<1>6. ASSUME NEW d \in Conns, ConnStep(d), bcast'[g] # bcast[g]
      PROVE  g \in Conns /\ pc[g] = "chatLookup" /\ bcast'[g] = Msg(req[g].room, ChatMsg(req[g].id), None)
  BY <1>6 DEF ConnStep, ReadError, SendPong, JoinRoom, ChatMember, ChatCreate, ChatLookup,
         HandleOffer, WriteMessage, WriteEnd
<1>7. ASSUME NEW d \in Conns, Dial(d) \/ Disconnect(d) PROVE bcast' = bcast
  BY <1>7 DEF Dial, Disconnect
<1>. QED BY <1>1, <1>2, <1>3, <1>4, <1>5, <1>6, <1>7 DEF Next, Crashed, Finished, vars, mem

\* A handler reaches the look-up of the sender with its message stored, and
\* keeps its arguments there.
LEMMA LookupStep ==
  ASSUME TypeInv, [Next]_vars, NEW c \in Conns, pc'[c] = "chatLookup"
  PROVE  /\ req'[c] = req[c]
         /\ pc[c] = "chatLookup" \/ req[c].id \in messages'[req[c].room]
<1>. USE DEF TypeInv, TaskType
<1>1. CASE RunStep
  BY <1>1 DEF RunStep, RunRegister, RunUnregister, RunAddClient, RunLeaveUser, RunRemove,
         RunNotifyDone, RunNotify, RunBroadcast, task
<1>2. CASE SignalStep \/ MediaStep \/ CleanupStep
  BY <1>2 DEF SignalStep, SignalSend, SignalLookup, MediaStep, MediaSignal, MediaPeerFailed,
         CleanupStep, WGPeerCleanup, task
<1>3. CASE HttpRequest \/ HttpStep
  BY <1>3 DEF HttpRequest, JoinMember, KickMember, LeaveMember, DeleteRoom, AdminDeleteRoom,
         NotifyUser, HttpStep, KickNotify, KickUnsub, DeleteRoomRows, mem, task
<1>4. ASSUME NEW d \in Conns, ClientEvent(d)
      PROVE  \/ UNCHANGED task
             \/ /\ pc[d] = "read" /\ \E p \in {"pong", "join", "chatMember", "offer"} : pc' = [pc EXCEPT ![d] = p]
                /\ \E a : req' = [req EXCEPT ![d] = a]
             \/ req' = req /\ pc' = [pc EXCEPT ![d] = "pong"]
  BY <1>4 DEF ClientEvent, HandleHeartbeat, HandleRoomJoin, HandleRoomLeave, HandleChatSend,
         HandleVoiceMute, HandleRTCOffer, HandleRTCLeave, HandleRTCSpeaking, Receives, Reading,
         task
<1>5. ASSUME NEW d \in Conns, ConnStep(d)
      PROVE  /\ req'[c] = req[c]
             /\ pc[c] = "chatLookup" \/ req[c].id \in messages'[req[c].room]
  <2>1. CASE ChatCreate(d)
    BY <2>1 DEF ChatCreate, CreateFailed, Refuse, DbType, ChatPC
  <2>2. CASE ReadError(d) \/ WriteMessage(d) \/ WriteEnd(d)
    BY <2>2 DEF ReadError, WriteMessage, WriteEnd, task
  <2>3. CASE SendPong(d) \/ JoinRoom(d) \/ HandleOffer(d)
    BY <2>3 DEF SendPong, JoinRoom, HandleOffer
  <2>4. CASE ChatMember(d) \/ ChatLookup(d)
    BY <2>4 DEF ChatMember, ChatLookup, Refuse
  <2>. QED BY <1>5, <2>1, <2>2, <2>3, <2>4 DEF ConnStep
<1>6. ASSUME NEW d \in Conns, Dial(d) \/ Disconnect(d)
      PROVE  req' = req /\ (pc' = pc \/ pc' = [pc EXCEPT ![d] = "register"])
  BY <1>6 DEF Dial, Disconnect, task
<1>. QED BY <1>1, <1>2, <1>3, <1>4, <1>5, <1>6 DEF Next, Crashed, Finished, vars, mem, task

ChatInv == LookupStored /\ ChatDurable

LEMMA ChatStep == TypeInv /\ ChatInv /\ [Next]_vars => ChatInv'
<1>. SUFFICES ASSUME TypeInv, ChatInv, [Next]_vars PROVE ChatInv'
  OBVIOUS
<1>. USE DEF TypeInv, ChatInv
<1>1. LookupStored'
  <2>. SUFFICES ASSUME NEW c \in Conns, pc'[c] = "chatLookup"
                PROVE  KeptAfter(req'[c].room, req'[c].id)
    BY DEF LookupStored, KeptAfter
  <2>1. CASE pc[c] = "chatLookup"
    <3>1. req[c].room \in Rooms /\ Kept(req[c].room, req[c].id)
      BY <2>1 DEF TaskType, ChatPC, LookupStored, Kept
    <3>. QED BY <3>1, LookupStep, KeptStep
  <2>2. CASE pc[c] # "chatLookup"
    BY <2>2, LookupStep DEF KeptAfter
  <2>. QED BY <2>1, <2>2
<1>2. ASSUME NEW g \in Senders, bcast[g].event.ev = "chat.message"
      PROVE  bcast[g].room \in Rooms /\ Kept(bcast[g].room, bcast[g].event.id)
  BY <1>2 DEF ChatDurable, BcastType, BroadcastMessage, NoMsg, Control, Kept
<1>3. ASSUME NEW g \in Senders, bcast'[g].event.ev = "chat.message"
      PROVE  KeptAfter(bcast'[g].room, bcast'[g].event.id)
  <2>1. CASE bcast'[g] = bcast[g]
    BY <1>2, <1>3, <2>1, KeptStep
  <2>2. CASE /\ g \in Conns /\ pc[g] = "chatLookup"
             /\ bcast'[g] = Msg(req[g].room, ChatMsg(req[g].id), None)
    <3>1. req[g].room \in Rooms /\ Kept(req[g].room, req[g].id)
      BY <2>2 DEF TaskType, ChatPC, LookupStored, Kept
    <3>. QED BY <2>2, <3>1, KeptStep DEF Msg, ChatMsg
  <2>. QED BY <1>3, <2>1, <2>2, ChatBcastStep
<1>4. ASSUME NEW c \in Conns, NEW i \in 1..Len(send'[c]), send'[c][i].ev = "chat.message"
      PROVE  \E r \in Rooms : KeptAfter(r, send'[c][i].id)
  <2>1. CASE \E j \in 1..Len(send[c]) : send'[c][i] = send[c][j]
    <3>1. PICK r \in Rooms : Kept(r, send'[c][i].id)
      BY <1>4, <2>1 DEF ChatDurable, Kept
    <3>. QED BY <3>1, KeptStep
  <2>2. CASE \E g \in Senders : bcast[g] # NoMsg /\ send'[c][i] = bcast[g].event
    <3>1. PICK g \in Senders : send'[c][i] = bcast[g].event
      BY <2>2
    <3>2. bcast[g].room \in Rooms /\ Kept(bcast[g].room, send'[c][i].id)
      BY <1>2, <1>4, <3>1
    <3>. QED BY <3>2, KeptStep
  <2>. QED BY <1>4, <2>1, <2>2, QueueStep
<1>. QED BY <1>1, <1>3, <1>4 DEF ChatDurable, KeptAfter

LEMMA ChatInit == Init => ChatInv
BY DEF Init, ChatInv, LookupStored, ChatDurable, NoMsg, Control

\* Nobody is shown a chat message that a reload of the history would not
\* return, unless the room was deleted (hub.go:303-336).
THEOREM ChatIsDurable == Spec => []ChatDurable
<1>1. Init => TypeInv /\ ChatInv BY TypeInit, ChatInit
<1>2. TypeInv /\ ChatInv /\ [Next]_vars => (TypeInv /\ ChatInv)' BY TypeStep, ChatStep
<1>3. ChatInv => ChatDurable BY DEF ChatInv
<1>. QED BY <1>1, <1>2, <1>3, PTL DEF Spec

=============================================================================
