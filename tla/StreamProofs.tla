---------------------------- MODULE StreamProofs ----------------------------
(***************************************************************************)
(* Proofs about StreamRegistry: no entry is lost, no channel is closed     *)
(* twice or sent on when closed, and a stream goes with its publisher,     *)
(* for any number of keys, connections and viewers.                        *)
(*                                                                         *)
(* NoOrphanEntry needs to know that an entry, once taken out of the map,   *)
(* never returns to it, because the connection that removed it goes on to  *)
(* shut it down without looking at the map again.  NoChannelPanic needs to *)
(* know that a subscriber is listed by the one entry it subscribed to, and *)
(* only while its channels are open.                                       *)
(***************************************************************************)
EXTENDS StreamRegistry, TLAPS

\* Connections that have not made their entry yet.
Early == {"idle", "lookup", "check", "init", "start"}

\* The map leads to entries of its key; a connection has none before Start.
EntryOK ==
    /\ \A k \in Keys : streams[k] # None => KeyOf[streams[k]] = k
    /\ \A p \in Publishers : pc[p] \in Early => entry[p] = "none"

\* What is about to be shut down was in the map, and is no longer.
RemovedOK ==
    \A p \in Publishers : pc[p] \in {"replace", "shutdown"} =>
        /\ ref[p] # None
        /\ entry[ref[p]] # "none"
        /\ \A k \in Keys : streams[k] # ref[p]

\* Who is subscribed to which entry.
AudienceOK ==
    /\ \A e \in Publishers : \A v \in audience[e] :
          view[v] = "watch" /\ ref[v] = e /\ chan[v] = "open" /\ entry[e] = "open"
    /\ \A v \in Viewers :
          /\ view[v] \in {"idle", "register"} => chan[v] = "none"
          /\ view[v] \in {"register", "watch"} => ref[v] # None

RegInv == /\ TypeOK /\ EntryOK /\ RemovedOK /\ NoOrphanEntry
          /\ GoneWithItsPublisher

SubInv == RegInv /\ AudienceOK /\ NoChannelPanic

LEMMA TypeStep == TypeOK /\ AudienceOK /\ [Next]_vars => TypeOK'
<1>. SUFFICES ASSUME TypeOK, AudienceOK, [Next]_vars PROVE TypeOK'
  OBVIOUS
<1>. USE StreamAssumption DEF TypeOK
<1>1. ASSUME NEW p \in Publishers, Publisher(p) PROVE TypeOK'
  <2>1. CASE Authorize(p) \/ Lookup(p) \/ CheckActive(p) \/ ReaderInit(p)
    BY <2>1 DEF Authorize, Lookup, CheckActive, ReaderInit, Goto, PublisherPC, reg, subs, db
  <2>2. CASE Start(p)
    BY <2>2 DEF Start, Goto, PublisherPC, subs, db
  <2>3. CASE Replace(p) \/ StopShutdown(p)
    <3>1. pc' \in [Publishers -> PublisherPC]
      BY <2>3 DEF Replace, StopShutdown, Goto, PublisherPC
    <3>2. entry' \in [Publishers -> {"none", "open", "closed"}]
      BY <2>3 DEF Replace, StopShutdown, Shutdown
    <3>3. audience' \in [Publishers -> SUBSET Viewers]
      BY <2>3 DEF Replace, StopShutdown, Shutdown, Released
    <3>4. chan' \in [Viewers -> {"none", "open", "closed"}]
      BY <2>3 DEF Replace, StopShutdown, Shutdown
    <3>6. panic' \in BOOLEAN
      BY <2>3, Zenon DEF Replace, StopShutdown, Shutdown
    <3>5. ref' \in [Publishers \cup Viewers -> Publishers \cup {None}]
      BY <2>3 DEF Replace, StopShutdown
    <3>. QED BY <2>3, <3>1, <3>2, <3>3, <3>4, <3>5, <3>6 DEF Replace, StopShutdown, db
  <2>4. CASE Transcode(p) \/ EndOfStream(p) \/ TranscoderFails(p)
    BY <2>4 DEF Transcode, EndOfStream, TranscoderFails, Goto, PublisherPC, reg, subs, db
  <2>5. CASE Online(p) \/ Offline(p)
    <3>1. pc' \in [Publishers -> PublisherPC]
      <4>1. PICK s \in PublisherPC : pc' = [pc EXCEPT ![p] = s]
        BY <2>5 DEF Online, Offline, Goto, PublisherPC
      <4>. QED BY <4>1
    <3>2. active' \in [Keys -> BOOLEAN]
      <4>1. PICK b \in BOOLEAN : SetActive(KeyOf[p], b)
        BY <2>5 DEF Online, Offline
      <4>2. CASE active' = active
        BY <4>2
      <4>3. CASE active' = [active EXCEPT ![KeyOf[p]] = IF exists[KeyOf[p]] THEN b ELSE @]
        <5>1. (IF exists[KeyOf[p]] THEN b ELSE active[KeyOf[p]]) \in BOOLEAN
          BY Zenon
        <5>. QED BY <4>3, <5>1, Zenon
      <4>. QED BY <4>1, <4>2, <4>3 DEF SetActive
    <3>3. unsaved' \subseteq Keys
      <4>1. KeyOf[p] \in Keys OBVIOUS
      <4>2. unsaved' \in {unsaved \ {KeyOf[p]}, unsaved \cup {KeyOf[p]}}
        BY <2>5 DEF Online, Offline, SetActive
      <4>. QED BY <4>1, <4>2
    <3>. QED BY <2>5, <3>1, <3>2, <3>3 DEF Online, Offline, reg, subs
  <2>6. CASE Stop(p)
    BY <2>6 DEF Stop, Remaining, Goto, PublisherPC, subs, db
  <2>. QED BY <1>1, <2>1, <2>2, <2>3, <2>4, <2>5, <2>6 DEF Publisher
<1>2. ASSUME NEW f \in Feeders, Feeder(f) PROVE TypeOK'
  <2>1. CASE PublishLookup(f)
    BY <2>1 DEF PublishLookup, Feeders, reg, subs, db
  <2>2. CASE PublishFrame(f)
    <3>1. queue' \in [Viewers -> 0..QueueCap] /\ panic' \in BOOLEAN
      BY <2>2 DEF PublishFrame, HasRoom
    <3>2. feed' \in [Feeders -> Publishers \cup {None}]
      BY <2>2 DEF PublishFrame
    <3>. QED BY <2>2, <3>1, <3>2 DEF PublishFrame, reg, db
  <2>. QED BY <1>2, <2>1, <2>2 DEF Feeder
<1>3. ASSUME NEW v \in Viewers, Viewer(v) PROVE TypeOK'
  <2>1. CASE Subscribe(v)
    BY <2>1 DEF Subscribe, reg, subs, db
  <2>2. CASE Register(v)
    BY <2>2, SMTT(20) DEF Register, CanSubscribe, AudienceOK, db
  <2>3. CASE TakeFrame(v)
    BY <2>3 DEF TakeFrame, reg, db
  <2>4. CASE StreamOver(v) \/ Leave(v)
    <3>1. ref[v] \in Publishers
      BY <2>4 DEF StreamOver, Leave, AudienceOK
    <3>2. audience' \in [Publishers -> SUBSET Viewers]
      BY <2>4, <3>1 DEF StreamOver, Leave, Close
    <3>3. chan' \in [Viewers -> {"none", "open", "closed"}]
      BY <2>4 DEF StreamOver, Leave, Close
    <3>4. panic' \in BOOLEAN
      BY <2>4, Zenon DEF StreamOver, Leave, Close
    <3>. QED BY <2>4, <3>2, <3>3, <3>4 DEF StreamOver, Leave, Close, db
  <2>. QED BY <1>3, <2>1, <2>2, <2>3, <2>4 DEF Viewer
<1>4. ASSUME NEW k \in Keys, Member(k) PROVE TypeOK'
  <2>1. CASE DeleteCheck(k)
    BY <2>1 DEF DeleteCheck, reg, subs
  <2>2. CASE DeleteRow(k)
    BY <2>2 DEF DeleteRow, RemoveRow, reg, subs
  <2>3. CASE DeleteRoom(k)
    BY <2>3 DEF DeleteRoom, RemoveRow, reg, subs
  <2>. QED BY <1>4, <2>1, <2>2, <2>3 DEF Member
<1>. QED BY <1>1, <1>2, <1>3, <1>4 DEF Next, Finished, vars, reg, subs, db

LEMMA RegStep == RegInv /\ AudienceOK /\ [Next]_vars => RegInv'
<1>. SUFFICES ASSUME RegInv, AudienceOK, [Next]_vars PROVE RegInv'
  OBVIOUS
<1>. USE StreamAssumption DEF RegInv
<1>0. TypeOK'
  BY TypeStep
<1>. DEFINE Rest == EntryOK /\ RemovedOK /\ NoOrphanEntry /\ GoneWithItsPublisher
<1>1. ASSUME NEW p \in Publishers, Publisher(p) PROVE Rest'
  <2>1. CASE Authorize(p) \/ Lookup(p) \/ CheckActive(p) \/ ReaderInit(p)
    <3>1. UNCHANGED <<streams, entry, ref>>
      BY <2>1 DEF Authorize, Lookup, CheckActive, ReaderInit, reg
    <3>2. PICK s \in {"lookup", "check", "init", "start", "done"} : pc' = [pc EXCEPT ![p] = s]
      BY <2>1 DEF Authorize, Lookup, CheckActive, ReaderInit, Goto
    <3>3. pc[p] \in Early \ {"start"}
      BY <2>1 DEF Authorize, Lookup, CheckActive, ReaderInit, Early
    <3>4. EntryOK'
      BY <3>1, <3>2, <3>3 DEF EntryOK, Early, TypeOK
    <3>5. RemovedOK'
      BY <3>1, <3>2, <3>3 DEF RemovedOK, TypeOK
    <3>6. \A e \in Publishers : ShuttingDown(e) => ShuttingDown(e)'
      BY <3>1, <3>2, <3>3 DEF ShuttingDown, Early, TypeOK
    <3>7. NoOrphanEntry'
      BY <3>1, <3>6 DEF NoOrphanEntry
    <3>8. streams[KeyOf[p]] # p
      BY <3>3 DEF EntryOK, NoOrphanEntry
    <3>9. GoneWithItsPublisher'
      BY <3>1, <3>2, <3>3, <3>8 DEF GoneWithItsPublisher, TypeOK
    <3>. QED BY <3>4, <3>5, <3>7, <3>9
  <2>2. CASE Start(p)
    <3>1. EntryOK'
      BY <2>2 DEF EntryOK, Start, Goto, Early, TypeOK
    <3>2. RemovedOK'
      BY <2>2 DEF RemovedOK, EntryOK, NoOrphanEntry, Start, Goto, Early, TypeOK
    <3>3. NoOrphanEntry'
      BY <2>2, SMTT(60) DEF NoOrphanEntry, ShuttingDown, EntryOK, Start, Goto, Early, TypeOK
    <3>4. GoneWithItsPublisher'
      BY <2>2 DEF GoneWithItsPublisher, Start, Goto, TypeOK
    <3>. QED BY <3>1, <3>2, <3>3, <3>4
  <2>3. CASE Replace(p) \/ StopShutdown(p)
    <3>1. EntryOK'
      BY <2>3 DEF EntryOK, RemovedOK, Replace, StopShutdown, Shutdown, Goto, Early, TypeOK
    <3>2. RemovedOK'
      BY <2>3 DEF RemovedOK, Replace, StopShutdown, Shutdown, Goto, TypeOK
    <3>3. NoOrphanEntry'
      BY <2>3 DEF NoOrphanEntry, ShuttingDown, RemovedOK, Replace, StopShutdown, Shutdown, Goto,
             TypeOK
    <3>4. GoneWithItsPublisher'
      BY <2>3 DEF GoneWithItsPublisher, Replace, StopShutdown, Goto, TypeOK
    <3>. QED BY <3>1, <3>2, <3>3, <3>4
  <2>4. CASE Transcode(p) \/ EndOfStream(p) \/ TranscoderFails(p) \/ Online(p) \/ Offline(p)
    <3>1. UNCHANGED <<streams, entry, ref>>
      BY <2>4 DEF Transcode, EndOfStream, TranscoderFails, Online, Offline, reg
    <3>2. \/ pc' = pc
          \/ /\ pc[p] \in {"transcode", "online", "live", "offline"}
             /\ \E s \in {"online", "live", "stop", "done"} :
                   pc' = [pc EXCEPT ![p] = s] /\ (s = "done" => pc[p] = "offline")
      BY <2>4 DEF Transcode, EndOfStream, TranscoderFails, Online, Offline, Goto
    <3>. QED BY <3>1, <3>2, SMTT(20) DEF EntryOK, RemovedOK, NoOrphanEntry, ShuttingDown,
                    GoneWithItsPublisher, Early, TypeOK
  <2>5. CASE Stop(p)
    <3>1. EntryOK'
      BY <2>5 DEF EntryOK, Stop, Remaining, Goto, Early, TypeOK
    <3>2. RemovedOK'
      BY <2>5 DEF RemovedOK, EntryOK, NoOrphanEntry, Stop, Remaining, Goto, TypeOK
    <3>3. ASSUME NEW e \in Publishers
          PROVE  /\ entry'[e] = "open" => streams'[KeyOf[e]] = e \/ ShuttingDown(e)'
                 /\ streams'[KeyOf[e]] = e => entry'[e] = "open"
      <4>1. CASE streams[KeyOf[p]] = e
        <5>1. pc'[p] = "shutdown" /\ ref'[p] = e
          BY <2>5, <4>1 DEF Stop, Goto, TypeOK
        <5>. QED BY <2>5, <4>1, <5>1 DEF ShuttingDown, Stop, Remaining, EntryOK, TypeOK
      <4>2. CASE streams[KeyOf[p]] # e
        <5>1. ShuttingDown(e) => ShuttingDown(e)'
          BY <2>5 DEF ShuttingDown, Stop, Goto, TypeOK
        <5>. QED BY <2>5, <4>2, <5>1 DEF NoOrphanEntry, Stop, Remaining, TypeOK
      <4>. QED BY <4>1, <4>2
    <3>4. GoneWithItsPublisher'
      BY <2>5 DEF GoneWithItsPublisher, Stop, Remaining, Goto, TypeOK
    <3>. QED BY <3>1, <3>2, <3>3, <3>4 DEF NoOrphanEntry
  <2>. QED BY <1>1, <2>1, <2>2, <2>3, <2>4, <2>5 DEF Publisher
<1>2. CASE (\E f \in Feeders : Feeder(f)) \/ (\E k \in Keys : Member(k)) \/ Finished \/ UNCHANGED vars
  <2>1. UNCHANGED <<streams, entry, pc, ref>>
    BY <1>2 DEF Feeder, PublishLookup, PublishFrame, Member, DeleteCheck, DeleteRow, DeleteRoom,
           Finished, vars, reg
  <2>2. \A e \in Publishers : ShuttingDown(e) => ShuttingDown(e)'
    BY <2>1 DEF ShuttingDown
  <2>3. EntryOK' /\ RemovedOK'
    BY <2>1 DEF EntryOK, RemovedOK
  <2>4. NoOrphanEntry' /\ GoneWithItsPublisher'
    BY <2>1, <2>2 DEF NoOrphanEntry, GoneWithItsPublisher
  <2>. QED BY <1>0, <2>3, <2>4
<1>3. ASSUME NEW v \in Viewers, Viewer(v) PROVE Rest'
  <2>1. UNCHANGED <<streams, entry, pc>> /\ \A p \in Publishers : ref'[p] = ref[p]
    BY <1>3 DEF Viewer, Subscribe, Register, TakeFrame, StreamOver, Leave, Close, TypeOK, reg
  <2>. QED BY <2>1, SMTT(20) DEF EntryOK, RemovedOK, NoOrphanEntry, ShuttingDown, GoneWithItsPublisher,
                  Early, TypeOK
<1>. QED BY <1>0, <1>1, <1>2, <1>3 DEF Next

\* A subscriber is listed by one entry, so an entry closes only channels that
\* are open.
LEMMA ShutdownSafe ==
  ASSUME SubInv, NEW e \in Publishers, Shutdown(e), UNCHANGED <<view, ref>>
  PROVE  AudienceOK' /\ NoChannelPanic'
BY DEF SubInv, AudienceOK, NoChannelPanic, Shutdown, Released, RegInv, TypeOK

LEMMA SubStep == SubInv /\ [Next]_vars => AudienceOK' /\ NoChannelPanic'
<1>. SUFFICES ASSUME SubInv, [Next]_vars PROVE AudienceOK' /\ NoChannelPanic'
  OBVIOUS
<1>. USE StreamAssumption DEF SubInv, RegInv, TypeOK
<1>1. ASSUME NEW p \in Publishers, Publisher(p) PROVE AudienceOK' /\ NoChannelPanic'
  <2>1. CASE Start(p)
    BY <2>1 DEF Start, AudienceOK, NoChannelPanic, EntryOK, Early, subs
  <2>2. CASE Replace(p) \/ StopShutdown(p)
    <3>1. PICK e \in Publishers : Shutdown(e)
      BY <2>2 DEF Replace, StopShutdown, RemovedOK
    <3>2. UNCHANGED view /\ \A v \in Viewers : ref'[v] = ref[v]
      BY <2>2 DEF Replace, StopShutdown
    <3>. QED BY <3>1, <3>2 DEF AudienceOK, NoChannelPanic, Shutdown, Released
  <2>3. CASE Stop(p)
    BY <2>3 DEF Stop, AudienceOK, NoChannelPanic, subs
  <2>4. CASE ~(Start(p) \/ Replace(p) \/ StopShutdown(p) \/ Stop(p))
    <3>1. UNCHANGED <<audience, view, ref, chan, entry, panic>>
      BY <1>1, <2>4 DEF Publisher, Authorize, Lookup, CheckActive, ReaderInit, Transcode, Online,
             EndOfStream, TranscoderFails, Offline, reg, subs
    <3>. QED BY <3>1 DEF AudienceOK, NoChannelPanic
  <2>. QED BY <2>1, <2>2, <2>3, <2>4
<1>2. ASSUME NEW f \in Feeders, Feeder(f) PROVE AudienceOK' /\ NoChannelPanic'
  <2>1. CASE PublishLookup(f)
    BY <2>1 DEF PublishLookup, AudienceOK, NoChannelPanic, reg, subs
  <2>2. CASE PublishFrame(f)
    <3>1. UNCHANGED <<audience, view, ref, chan, entry>>
      BY <2>2 DEF PublishFrame, reg
    <3>2. \A v \in Reached(feed[f]) : chan[v] = "open"
      BY <2>2 DEF PublishFrame, Reached, AudienceOK, Feeders
    <3>. QED BY <2>2, <3>1, <3>2 DEF PublishFrame, AudienceOK, NoChannelPanic
  <2>. QED BY <1>2, <2>1, <2>2 DEF Feeder
<1>3. ASSUME NEW v \in Viewers, Viewer(v) PROVE AudienceOK' /\ NoChannelPanic'
  <2>1. CASE Subscribe(v)
    BY <2>1 DEF Subscribe, AudienceOK, NoChannelPanic, reg, subs
  <2>2. CASE Register(v)
    <3>1. ref[v] \in Publishers
      BY <2>2 DEF Register, AudienceOK
    <3>2. CASE CanSubscribe(ref[v])
      <4>1. /\ audience' = [audience EXCEPT ![ref[v]] = @ \cup {v}]
            /\ chan' = [chan EXCEPT ![v] = "open"]
            /\ view' = [view EXCEPT ![v] = "watch"]
            /\ UNCHANGED <<entry, ref, panic>>
        BY <2>2, <3>2 DEF Register
      <4>2. entry[ref[v]] = "open"
        BY <3>2 DEF CanSubscribe
      <4>. QED BY <3>1, <4>1, <4>2 DEF AudienceOK, NoChannelPanic
    <3>3. CASE ~CanSubscribe(ref[v])
      <4>1. view[v] = "register" /\ view' = [view EXCEPT ![v] = "done"] /\ UNCHANGED <<audience, chan, entry, ref, panic>>
        BY <2>2, <3>3 DEF Register
      <4>. QED BY <4>1 DEF AudienceOK, NoChannelPanic
    <3>. QED BY <3>2, <3>3
  <2>3. CASE TakeFrame(v)
    BY <2>3 DEF TakeFrame, AudienceOK, NoChannelPanic, reg
  <2>4. CASE StreamOver(v) \/ Leave(v)
    <3>1. ref[v] \in Publishers /\ UNCHANGED <<entry, ref>>
      BY <2>4 DEF StreamOver, Leave, Close, AudienceOK
    <3>2. audience' = [audience EXCEPT ![ref[v]] = @ \ {v}]
      BY <2>4, <3>1 DEF StreamOver, Leave, Close
    <3>3. view' = [view EXCEPT ![v] = "done"]
      BY <2>4 DEF StreamOver, Leave, Close
    <3>4. \A w \in Viewers : w # v => chan'[w] = chan[w]
      BY <2>4 DEF StreamOver, Leave, Close
    <3>5. NoChannelPanic'
      BY <2>4, <3>1 DEF StreamOver, Leave, Close, AudienceOK, NoChannelPanic
    <3>. QED BY <3>1, <3>2, <3>3, <3>4, <3>5 DEF AudienceOK
  <2>. QED BY <1>3, <2>1, <2>2, <2>3, <2>4 DEF Viewer
<1>4. CASE (\E k \in Keys : Member(k)) \/ Finished \/ UNCHANGED vars
  BY <1>4 DEF Member, DeleteCheck, DeleteRow, DeleteRoom, RemoveRow, Finished, AudienceOK,
         NoChannelPanic, vars, reg, subs
<1>. QED BY <1>1, <1>2, <1>3, <1>4 DEF Next

-----------------------------------------------------------------------------
(* is_active *)

\* Between onState(true) and onState(false).
Marked == {"live", "stop", "shutdown", "offline"}

\* Whatever is marked as live, is marked by a connection that has yet to come
\* to its onState(false).
ActiveOK ==
    \A k \in Keys :
        /\ active[k] => exists[k]
        /\ active[k] /\ k \notin unsaved =>
              \E p \in Publishers : KeyOf[p] = k /\ pc[p] \in Marked

LEMMA ActiveStep == TypeOK /\ ActiveOK /\ [Next]_vars => ActiveOK'
<1>. SUFFICES ASSUME TypeOK, ActiveOK, [Next]_vars PROVE ActiveOK'
  OBVIOUS
<1>1. ASSUME UNCHANGED <<active, exists, unsaved>>,
             \A q \in Publishers : pc[q] \in Marked => pc'[q] \in Marked
      PROVE  ActiveOK'
  BY <1>1 DEF ActiveOK
<1>2. ASSUME NEW p \in Publishers, Publisher(p) PROVE ActiveOK'
  <2>1. CASE Authorize(p) \/ Lookup(p) \/ CheckActive(p) \/ ReaderInit(p) \/ Start(p) \/ Replace(p)
             \/ Transcode(p) \/ EndOfStream(p) \/ TranscoderFails(p) \/ Stop(p) \/ StopShutdown(p)
    <3>1. UNCHANGED <<active, exists, unsaved>>
      BY <2>1 DEF Authorize, Lookup, CheckActive, ReaderInit, Start, Replace, Transcode,
                  EndOfStream, TranscoderFails, Stop, StopShutdown, db
    <3>2. ASSUME NEW q \in Publishers, pc[q] \in Marked PROVE pc'[q] \in Marked
      BY <2>1, <3>2 DEF Authorize, Lookup, CheckActive, ReaderInit, Start, Replace, Transcode,
                  EndOfStream, TranscoderFails, Stop, StopShutdown, Goto, Marked, TypeOK
    <3>. QED BY <1>1, <3>1, <3>2
  <2>2. CASE Online(p)
    <3>1. pc'[p] = "live" /\ \A q \in Publishers \ {p} : pc'[q] = pc[q]
      BY <2>2 DEF Online, Goto, TypeOK
    <3>2. pc[p] = "online"
      BY <2>2 DEF Online
    <3>3. \A k \in Keys \ {KeyOf[p]} : active'[k] = active[k] /\ (k \in unsaved' <=> k \in unsaved)
      BY <2>2 DEF Online, SetActive, TypeOK
    <3>4. active'[KeyOf[p]] => exists'[KeyOf[p]]
      <4>1. UNCHANGED exists
        BY <2>2 DEF Online
      <4>2. KeyOf[p] \in Keys
        BY StreamAssumption
      <4>. QED BY <2>2, <4>1, <4>2 DEF Online, SetActive, TypeOK, ActiveOK
    <3>5. UNCHANGED exists
      BY <2>2 DEF Online
    <3>. QED BY <3>1, <3>2, <3>3, <3>4, <3>5 DEF ActiveOK, Marked
  <2>3. CASE Offline(p)
    <3>1. \A q \in Publishers \ {p} : pc'[q] = pc[q]
      BY <2>3 DEF Offline, Goto, TypeOK
    <3>2. KeyOf[p] \in Keys
      BY StreamAssumption
    <3>3. \A k \in Keys \ {KeyOf[p]} : active'[k] = active[k] /\ (k \in unsaved' <=> k \in unsaved)
      BY <2>3 DEF Offline, SetActive, TypeOK
    <3>4. UNCHANGED exists
      BY <2>3 DEF Offline
    <3>5. /\ ~active'[KeyOf[p]] \/ KeyOf[p] \in unsaved'
          /\ active'[KeyOf[p]] => active[KeyOf[p]]
      BY <2>3, <3>2 DEF Offline, SetActive, TypeOK, ActiveOK
    <3>. QED BY <3>1, <3>3, <3>4, <3>5 DEF ActiveOK
  <2>. QED BY <1>2, <2>1, <2>2, <2>3 DEF Publisher
<1>3. ASSUME NEW f \in Feeders, Feeder(f) PROVE ActiveOK'
  <2>1. UNCHANGED <<active, exists, unsaved, pc>>
    BY <1>3 DEF Feeder, PublishLookup, PublishFrame, db
  <2>. QED BY <1>1, <2>1
<1>4. ASSUME NEW v \in Viewers, Viewer(v) PROVE ActiveOK'
  <2>1. UNCHANGED <<active, exists, unsaved, pc>>
    BY <1>4 DEF Viewer, Subscribe, Register, TakeFrame, StreamOver, Leave, Close, db
  <2>. QED BY <1>1, <2>1
<1>5. ASSUME NEW k \in Keys, Member(k) PROVE ActiveOK'
  <2>1. /\ UNCHANGED <<unsaved, pc>>
        /\ \A j \in Keys : active'[j] => active[j] /\ exists'[j] = exists[j]
    BY <1>5 DEF Member, DeleteCheck, DeleteRow, DeleteRoom, RemoveRow, TypeOK
  <2>. QED BY <2>1 DEF ActiveOK
<1>6. CASE UNCHANGED vars
  BY <1>1, <1>6 DEF vars, db
<1>. QED BY <1>2, <1>3, <1>4, <1>5, <1>6 DEF Next, Finished

-----------------------------------------------------------------------------
LEMMA SubInit == Init => SubInv
<1>. SUFFICES ASSUME Init PROVE SubInv
  OBVIOUS
<1>1. TypeOK
  <2>1. pc \in [Publishers -> PublisherPC] /\ queue \in [Viewers -> 0..QueueCap]
    BY StreamAssumption DEF Init, PublisherPC
  <2>2. streams \in [Keys -> Publishers \cup {None}] /\ feed \in [Feeders -> Publishers \cup {None}]
    BY DEF Init
  <2>. QED BY <2>1, <2>2 DEF Init, TypeOK
<1>2. EntryOK /\ RemovedOK /\ NoOrphanEntry /\ GoneWithItsPublisher
  BY StreamAssumption DEF Init, EntryOK, RemovedOK, NoOrphanEntry, GoneWithItsPublisher, Early
<1>3. AudienceOK /\ NoChannelPanic
  BY DEF Init, AudienceOK, NoChannelPanic
<1>. QED BY <1>1, <1>2, <1>3 DEF SubInv, RegInv

LEMMA SubInductive == Spec => []SubInv
<1>1. Init => SubInv BY SubInit
<1>2. SubInv /\ [Next]_vars => SubInv' BY RegStep, SubStep DEF SubInv
<1>. QED BY <1>1, <1>2, PTL DEF Spec

\* The variables keep their types, whatever the number of keys, connections and
\* viewers.
THEOREM StreamTypes == Spec => []TypeOK
<1>1. SubInv => TypeOK BY DEF SubInv, RegInv
<1>. QED BY <1>1, SubInductive, PTL

\* No open entry is out of everybody's reach: Start and Stop shut down what they
\* take out of the map (registry.go:87-107, 142-152).
THEOREM NoEntryLost == Spec => []NoOrphanEntry
<1>1. SubInv => NoOrphanEntry BY DEF SubInv, RegInv
<1>. QED BY <1>1, SubInductive, PTL

\* Publishing, shutting down and unsubscribing never close a channel twice or
\* send on a closed one (registry.go:198-321).
THEOREM ChannelsSafe == Spec => []NoChannelPanic
<1>1. SubInv => NoChannelPanic BY DEF SubInv
<1>. QED BY <1>1, SubInductive, PTL

\* A stream is not in the registry any more when its connection has ended
\* (rtmp/server.go:170-178).
THEOREM StreamGoesWithPublisher == Spec => []GoneWithItsPublisher
<1>1. SubInv => GoneWithItsPublisher BY DEF SubInv, RegInv
<1>. QED BY <1>1, SubInductive, PTL

\* An ingress whose connections have all ended is not left marked as live, but
\* for an update that failed (main.go:120-131).
THEOREM IngressNotLeftActive == Spec => []NotLeftActive
<1>1. Init => ActiveOK BY DEF Init, ActiveOK
<1>2. TypeOK /\ ActiveOK /\ [Next]_vars => ActiveOK' BY ActiveStep
<1>3. ActiveOK => NotLeftActive BY DEF ActiveOK, NotLeftActive, Marked
<1>. QED BY <1>1, <1>2, <1>3, StreamTypes, PTL DEF Spec
=============================================================================
