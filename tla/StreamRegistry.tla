--------------------------- MODULE StreamRegistry ---------------------------
(***************************************************************************)
(* Live streams: the in-memory registry (internal/media/stream), the RTMP  *)
(* connections that publish into it (internal/media/rtmp), its viewers     *)
(* (HTTP-FLV and WebRTC playback), and the ingress rows of the database    *)
(* that the publishers switch on and off and a room member may delete.     *)
(*                                                                         *)
(* Granularity.  Every registry method reads or writes the map under       *)
(* Registry.mu, releases it, and only then works on the entry it found     *)
(* under entry.mu: two steps.  A database access is a step.  Frames are    *)
(* counted, not represented; video, audio and Opus take the same path.     *)
(*                                                                         *)
(* Every RTMP connection makes at most one entry, so a connection also     *)
(* stands for the *entry it made.                                          *)
(***************************************************************************)
EXTENDS Naturals, FiniteSets

CONSTANTS
    Keys,           \* stream keys
    Publishers,     \* RTMP connections, and the entries they make
    Viewers,        \* playback requests
    KeyOf,          \* the stream key a publisher or a viewer asks for
    None,           \* nil
    QueueCap,       \* capacity of a subscriber's channel (256 in the code)
    AllowTemporary, \* media.rtmp.allow_temporary_streams
    DatabaseMayFail \* an access of onState or of the delete handler may fail

ASSUME StreamAssumption ==
    /\ KeyOf \in [Publishers \cup Viewers -> Keys]
    /\ None \notin Publishers
    /\ Publishers \cap Viewers = {}
    /\ QueueCap \in Nat \ {0}
    /\ AllowTemporary \in BOOLEAN
    /\ DatabaseMayFail \in BOOLEAN

VARIABLES
    streams,    \* Registry.streams : key -> entry
    entry,      \* entry.closed: none before it is made, open, closed
    audience,   \* entry.subscribers
    pc,         \* RTMP connections
    coder,      \* the FFmpeg transcoder of a connection
    ref,        \* the entry a publisher or viewer found in the map
    feed,       \* the same for the goroutines that publish frames
    view,       \* playback requests
    chan,       \* a viewer's channels
    queue,      \* number of frames in a viewer's channel
    exists,     \* room_ingresses: the key is registered
    active,     \* room_ingresses.is_active
    unsaved,    \* history: keys whose last update of is_active failed
    deleting,   \* the key's ingress is being deleted
    panic       \* a send on, or a close of, a closed channel

reg  == <<streams, entry, audience>>
subs == <<chan, queue, panic>>
db   == <<exists, active, unsaved, deleting>>
vars == <<reg, pc, coder, ref, feed, view, subs, db>>

Feeders == Publishers \X {"reader", "transcoder"}

-----------------------------------------------------------------------------
Init ==
    /\ streams  = [k \in Keys |-> None]
    /\ entry    = [p \in Publishers |-> "none"]
    /\ audience = [p \in Publishers |-> {}]
    /\ pc       = [p \in Publishers |-> "idle"]
    /\ coder    = [p \in Publishers |-> "off"]
    /\ ref      = [a \in Publishers \cup Viewers |-> None]
    /\ feed     = [f \in Feeders |-> None]
    /\ view     = [v \in Viewers |-> "idle"]
    /\ chan     = [v \in Viewers |-> "none"]
    /\ queue    = [v \in Viewers |-> 0]
    /\ exists   \in [Keys -> BOOLEAN]
    /\ active   = [k \in Keys |-> FALSE]
    /\ unsaved  = {}
    /\ deleting = [k \in Keys |-> FALSE]
    /\ panic    = FALSE

-----------------------------------------------------------------------------
(* An RTMP connection: Server.handleInner. *)

Goto(p, there) == pc' = [pc EXCEPT ![p] = there]

\* The authorizer asks the registry first ...
Authorize(p) ==
    /\ pc[p] = "idle"
    /\ Goto(p, IF streams[KeyOf[p]] = None THEN "lookup" ELSE "done")
    /\ UNCHANGED <<reg, coder, ref, feed, view, subs, db>>

\* ... and the database next, which may fail.
Lookup(p) ==
    /\ pc[p] = "lookup"
    /\ \/ (exists[KeyOf[p]] \/ AllowTemporary) /\ Goto(p, "check")
       \/ Goto(p, "done")
    /\ UNCHANGED <<reg, coder, ref, feed, view, subs, db>>

\* handleInner asks the registry again.
CheckActive(p) ==
    /\ pc[p] = "check"
    /\ Goto(p, IF streams[KeyOf[p]] = None THEN "init" ELSE "done")
    /\ UNCHANGED <<reg, coder, ref, feed, view, subs, db>>

\* reader.Initialize waits for the tracks: up to 15 seconds, and it may fail
\* or find no H.264 video.
ReaderInit(p) ==
    /\ pc[p] = "init"
    /\ Goto(p, "start") \/ Goto(p, "done")
    /\ UNCHANGED <<reg, coder, ref, feed, view, subs, db>>

\* Registry.Start puts a new entry in the map, whatever was there ...
Start(p) ==
    /\ pc[p] = "start"
    /\ streams' = [streams EXCEPT ![KeyOf[p]] = p]
    /\ entry' = [entry EXCEPT ![p] = "open"]
    /\ ref' = [ref EXCEPT ![p] = streams[KeyOf[p]]]
    /\ Goto(p, IF streams[KeyOf[p]] = None THEN "transcode" ELSE "replace")
    /\ UNCHANGED <<audience, coder, feed, view, subs, db>>

\* Variant of Released: the subscribers stay in the map of the closed entry.
ReleasedKept(e) == audience

Released(e) == [audience EXCEPT ![e] = {}]

\* entry.shutdown
Shutdown(e) ==
    IF entry[e] = "open"
    THEN /\ entry' = [entry EXCEPT ![e] = "closed"]
         /\ chan' = [v \in Viewers |-> IF v \in audience[e] THEN "closed" ELSE chan[v]]
         /\ audience' = Released(e)
         /\ panic' = (panic \/ \E v \in audience[e] : chan[v] = "closed")
    ELSE UNCHANGED <<entry, chan, audience, panic>>

\* ... and shuts the previous one down.
Replace(p) ==
    /\ pc[p] = "replace"
    /\ Shutdown(ref[p])
    /\ ref' = [ref EXCEPT ![p] = None]
    /\ Goto(p, "transcode")
    /\ UNCHANGED <<streams, coder, feed, view, queue, db>>

\* StartAACToOpus, for a stream with audio; it may fail.
Transcode(p) ==
    /\ pc[p] = "transcode"
    /\ coder' = [coder EXCEPT ![p] = "running"] \/ UNCHANGED coder
    /\ Goto(p, "online")
    /\ UNCHANGED <<reg, ref, feed, view, subs, db>>

\* onState(streamKey, b): the ingress of the key, if there is one.  A failure
\* is logged, and not tried again.
SetActive(k, b) ==
    \/ /\ active' = [active EXCEPT ![k] = IF exists[k] THEN b ELSE @]
       /\ unsaved' = unsaved \ {k}
    \/ /\ DatabaseMayFail
       /\ unsaved' = unsaved \cup {k}
       /\ UNCHANGED active

Online(p) ==
    /\ pc[p] = "online"
    /\ SetActive(KeyOf[p], TRUE)
    /\ Goto(p, "live")
    /\ UNCHANGED <<reg, coder, ref, feed, view, subs, exists, deleting>>

\* The goroutine of f is publishing.
Feeding(f) == \/ f[2] = "reader" /\ pc[f[1]] = "live"
              \/ f[2] = "transcoder" /\ coder[f[1]] = "running"

\* Registry.Publish, PublishAudio, PublishOpus: find the entry of the key ...
PublishLookup(f) ==
    /\ Feeding(f)
    /\ feed[f] = None
    /\ streams[KeyOf[f[1]]] # None
    /\ feed' = [feed EXCEPT ![f] = streams[KeyOf[f[1]]]]
    /\ UNCHANGED <<reg, pc, coder, ref, view, subs, db>>

\* Variant of Reached: a subscriber that has gone is still offered the frame.
ReachedGone(e) == {v \in Viewers : ref[v] = e}

\* The subscribers publish loops over; none once the entry is closed.
Reached(e) == IF entry[e] = "open" THEN audience[e] ELSE {}

\* Variant of HasRoom: one too many.
HasRoomOff(v) == queue[v] <= QueueCap

HasRoom(v) == queue[v] < QueueCap

\* ... and offer the frame to its subscribers; a full channel drops it.
PublishFrame(f) ==
    /\ feed[f] # None
    /\ queue' = [v \in Viewers |->
                    IF v \in Reached(feed[f]) /\ HasRoom(v)
                    THEN queue[v] + 1 ELSE queue[v]]
    /\ panic' = (panic \/ \E v \in Reached(feed[f]) : chan[v] = "closed")
    /\ feed' = [feed EXCEPT ![f] = None]
    /\ UNCHANGED <<reg, pc, coder, ref, view, chan, db>>

\* reader.Read fails: the connection ended.  The transcoder is closed first.
EndOfStream(p) ==
    /\ pc[p] = "live"
    /\ feed[<<p, "reader">>] = None
    /\ coder' = [coder EXCEPT ![p] = IF @ = "running" THEN "ended" ELSE @]
    /\ Goto(p, "stop")
    /\ UNCHANGED <<reg, ref, feed, view, subs, db>>

\* FFmpeg ends on its own.
TranscoderFails(p) ==
    /\ coder[p] = "running"
    /\ coder' = [coder EXCEPT ![p] = "ended"]
    /\ UNCHANGED <<reg, pc, ref, feed, view, subs, db>>

\* Variant of Remaining: Stop leaves the map as it is.
RemainingAll(k) == streams

Remaining(k) == [streams EXCEPT ![k] = None]

\* Registry.Stop deletes whatever entry the key has ...
Stop(p) ==
    /\ pc[p] = "stop"
    /\ streams' = Remaining(KeyOf[p])
    /\ ref' = [ref EXCEPT ![p] = streams[KeyOf[p]]]
    /\ Goto(p, IF streams[KeyOf[p]] = None THEN "offline" ELSE "shutdown")
    /\ UNCHANGED <<entry, audience, coder, feed, view, subs, db>>

\* Variant: Stop forgets the shutdown of the entry it removed.
StopForgets(p) ==
    /\ pc[p] = "shutdown"
    /\ ref' = [ref EXCEPT ![p] = None]
    /\ Goto(p, "offline")
    /\ UNCHANGED <<reg, coder, feed, view, subs, db>>

\* ... and shuts it down.
StopShutdown(p) ==
    /\ pc[p] = "shutdown"
    /\ Shutdown(ref[p])
    /\ ref' = [ref EXCEPT ![p] = None]
    /\ Goto(p, "offline")
    /\ UNCHANGED <<streams, coder, feed, view, queue, db>>

\* Variant: the end of a stream is not written to the database.
OfflineForgotten(p) ==
    /\ pc[p] = "offline"
    /\ Goto(p, "done")
    /\ UNCHANGED <<reg, coder, ref, feed, view, subs, db>>

Offline(p) ==
    /\ pc[p] = "offline"
    /\ SetActive(KeyOf[p], FALSE)
    /\ Goto(p, "done")
    /\ UNCHANGED <<reg, coder, ref, feed, view, subs, exists, deleting>>

-----------------------------------------------------------------------------
(* A viewer: IngressHandler.ProxyStream, rtcplay.Engine.Answer. *)

\* Registry.Subscribe: find the entry of the key ...
Subscribe(v) ==
    /\ view[v] = "idle"
    /\ ref' = [ref EXCEPT ![v] = streams[KeyOf[v]]]
    /\ view' = [view EXCEPT ![v] = IF streams[KeyOf[v]] = None THEN "done" ELSE "register"]
    /\ UNCHANGED <<reg, pc, coder, feed, subs, db>>

\* Variant of CanSubscribe: entry.subscribe does not look at closed.
CanSubscribeAny(e) == TRUE

CanSubscribe(e) == entry[e] = "open"

\* ... and join its subscribers, unless it has been closed meanwhile.
Register(v) ==
    /\ view[v] = "register"
    /\ IF CanSubscribe(ref[v])
       THEN /\ audience' = [audience EXCEPT ![ref[v]] = @ \cup {v}]
            /\ chan' = [chan EXCEPT ![v] = "open"]
            /\ view' = [view EXCEPT ![v] = "watch"]
       ELSE /\ view' = [view EXCEPT ![v] = "done"]
            /\ UNCHANGED <<audience, chan>>
    /\ UNCHANGED <<streams, entry, pc, coder, ref, feed, queue, panic, db>>

TakeFrame(v) ==
    /\ view[v] = "watch" /\ queue[v] > 0
    /\ queue' = [queue EXCEPT ![v] = @ - 1]
    /\ UNCHANGED <<reg, pc, coder, ref, feed, view, chan, panic, db>>

\* Subscription.Close: only a subscriber that is still listed is closed.
Close(v) ==
    /\ IF v \in audience[ref[v]]
       THEN /\ audience' = [audience EXCEPT ![ref[v]] = @ \ {v}]
            /\ panic' = (panic \/ chan[v] = "closed")
            /\ chan' = [chan EXCEPT ![v] = "closed"]
       ELSE UNCHANGED <<audience, panic, chan>>
    /\ view' = [view EXCEPT ![v] = "done"]
    /\ UNCHANGED <<streams, entry, pc, coder, ref, feed, queue, db>>

\* The channels are closed and drained: the stream is over.
StreamOver(v) ==
    /\ view[v] = "watch" /\ chan[v] = "closed" /\ queue[v] = 0
    /\ Close(v)

\* The viewer goes away, or cannot be written to, or its peer fails.
Leave(v) ==
    /\ view[v] = "watch"
    /\ Close(v)

-----------------------------------------------------------------------------
(* DELETE /rooms/:roomId/ingresses/:ingressId *)

RemoveRow(k) ==
    /\ exists' = [exists EXCEPT ![k] = FALSE]
    /\ active' = [active EXCEPT ![k] = FALSE]

DeleteCheck(k) ==
    /\ exists[k] /\ ~deleting[k]
    /\ streams[k] = None
    /\ deleting' = [deleting EXCEPT ![k] = TRUE]
    /\ UNCHANGED <<reg, pc, coder, ref, feed, view, subs, exists, active, unsaved>>

DeleteRow(k) ==
    /\ deleting[k]
    /\ deleting' = [deleting EXCEPT ![k] = FALSE]
    /\ RemoveRow(k) \/ (DatabaseMayFail /\ UNCHANGED <<exists, active>>)
    /\ UNCHANGED <<reg, pc, coder, ref, feed, view, subs, unsaved>>

\* DELETE /rooms/:roomId removes the rows of all ingresses of the room, whether
\* they are live or not.
DeleteRoom(k) ==
    /\ exists[k]
    /\ RemoveRow(k)
    /\ UNCHANGED <<reg, pc, coder, ref, feed, view, subs, unsaved, deleting>>

-----------------------------------------------------------------------------
Publisher(p) ==
    \/ Authorize(p) \/ Lookup(p) \/ CheckActive(p) \/ ReaderInit(p)
    \/ Start(p) \/ Replace(p) \/ Transcode(p) \/ Online(p)
    \/ EndOfStream(p) \/ TranscoderFails(p)
    \/ Stop(p) \/ StopShutdown(p) \/ Offline(p)

Feeder(f) == PublishLookup(f) \/ PublishFrame(f)

Viewer(v) == Subscribe(v) \/ Register(v) \/ TakeFrame(v) \/ StreamOver(v) \/ Leave(v)

Member(k) == DeleteCheck(k) \/ DeleteRow(k) \/ DeleteRoom(k)

\* Every connection and every viewer is gone.
Finished ==
    /\ \A p \in Publishers : pc[p] = "done" /\ coder[p] # "running"
    /\ \A f \in Feeders : feed[f] = None
    /\ \A v \in Viewers : view[v] = "done"
    /\ UNCHANGED vars

Next ==
    \/ \E p \in Publishers : Publisher(p)
    \/ \E f \in Feeders : Feeder(f)
    \/ \E v \in Viewers : Viewer(v)
    \/ \E k \in Keys : Member(k)
    \/ Finished

Spec == Init /\ [][Next]_vars

\* The server's own steps are scheduled.  Encoders and viewers need not do
\* anything: an encoder that stays connected stays live, and a viewer stops
\* reading only by leaving.
Fairness ==
    /\ \A p \in Publishers :
          /\ WF_vars(Start(p)) /\ WF_vars(Replace(p)) /\ WF_vars(Transcode(p))
          /\ WF_vars(Online(p)) /\ WF_vars(Stop(p)) /\ WF_vars(StopShutdown(p))
          /\ WF_vars(Offline(p))
    /\ \A f \in Feeders : WF_vars(PublishFrame(f))
    /\ \A v \in Viewers :
          WF_vars(Register(v)) /\ WF_vars(TakeFrame(v)) /\ WF_vars(StreamOver(v))

FairSpec == Spec /\ Fairness
-----------------------------------------------------------------------------
(* Properties *)

PublisherPC == {"idle", "lookup", "check", "init", "start", "replace", "transcode",
                "online", "live", "stop", "shutdown", "offline", "done"}

TypeOK ==
    /\ streams \in [Keys -> Publishers \cup {None}]
    /\ entry \in [Publishers -> {"none", "open", "closed"}]
    /\ audience \in [Publishers -> SUBSET Viewers]
    /\ pc \in [Publishers -> PublisherPC]
    /\ coder \in [Publishers -> {"off", "running", "ended"}]
    /\ ref \in [Publishers \cup Viewers -> Publishers \cup {None}]
    /\ feed \in [Feeders -> Publishers \cup {None}]
    /\ view \in [Viewers -> {"idle", "register", "watch", "done"}]
    /\ chan \in [Viewers -> {"none", "open", "closed"}]
    /\ queue \in [Viewers -> 0..QueueCap]
    /\ exists \in [Keys -> BOOLEAN]
    /\ active \in [Keys -> BOOLEAN]
    /\ unsaved \subseteq Keys
    /\ deleting \in [Keys -> BOOLEAN]
    /\ panic \in BOOLEAN

\* A connection that is about to shut the entry e down.
ShuttingDown(e) ==
    \E p \in Publishers : pc[p] \in {"replace", "shutdown"} /\ ref[p] = e

\* An open entry is the one its key leads to, or somebody is about to shut it
\* down; and a key never leads to a closed entry (registry.go:87-107 and
\* 142-152 release Registry.mu before they call shutdown).  So no viewer can
\* hang on a stream that no publisher and no lookup reaches any more.
NoOrphanEntry ==
    \A e \in Publishers :
        /\ entry[e] = "open" => streams[KeyOf[e]] = e \/ ShuttingDown(e)
        /\ streams[KeyOf[e]] = e => entry[e] = "open"

\* No channel of a subscriber is closed twice or sent on when closed: publish,
\* shutdown and Subscription.Close agree on who is subscribed, although viewer,
\* publisher and replacing publisher run concurrently (registry.go:198-321).
NoChannelPanic == ~panic

\* docs/NexusRoom.md:507: when the publishing connection is gone, its stream is
\* gone from the registry, whoever removed or replaced it (registry.go:142-152).
GoneWithItsPublisher ==
    \A p \in Publishers :
        pc[p] \in {"shutdown", "offline", "done"} => streams[KeyOf[p]] # p

\* When every connection to a key has ended, its ingress is not left marked as
\* live, however their starts and ends interleaved (main.go:120-131), unless the
\* last update of it failed: nobody repeats a failed update.
NotLeftActive ==
    \A k \in Keys :
        (\A p \in Publishers : KeyOf[p] = k => pc[p] \in {"idle", "done"}) => ~active[k] \/ k \in unsaved

\* A viewer of an entry that is no longer served is released: its request ends
\* (ingress.go:219-246 leaves the loop when a channel is closed).
ViewersReleased ==
    \A v \in Viewers, e \in Publishers :
        (view[v] = "watch" /\ ref[v] = e /\ pc[e] \in {"stop", "shutdown", "offline", "done"})
            ~> view[v] = "done"
=============================================================================
