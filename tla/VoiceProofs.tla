---------------------------- MODULE VoiceProofs ----------------------------
(***************************************************************************)
(* That the voice engine offers only tracks of peers that are in the room, *)
(* leaves no open peer connection behind, sends everybody the tracks of    *)
(* everybody else, and offers every change, for any users, peers and       *)
(* callers.                                                                *)
(***************************************************************************)
EXTENDS VoiceEngine, TLAPS

\* A goroutine that is on its way acts for a user, and HandleOffer has a peer.
ProcOK ==
    \A x \in Procs :
        /\ proc[x].pc \notin AtRest => proc[x].user \in Users
        /\ proc[x].pc = "negotiate" => proc[x].peer \in Peers

\* TracksArePublished and OpenPeersAreInRoom are inductive with the types.
IInv == TypeOK /\ ProcOK /\ TracksArePublished /\ OpenPeersAreInRoom

-----------------------------------------------------------------------------
(* Goroutines. *)

\* A function of some type keeps it when one value is replaced.
LEMMA ExceptType ==
    ASSUME NEW S, NEW T, NEW f \in [S -> T], NEW a, NEW b \in T
    PROVE  [f EXCEPT ![a] = b] \in [S -> T]
OBVIOUS

LEMMA IdleIsProc == Idle \in Proc /\ Idle.pc = "idle"
BY DEF Idle, Proc, ProcPC

\* What a process is at rest with.
LEMMA EndType ==
    ASSUME TypeOK, ProcOK, NEW x \in Procs, End(x)
    PROVE  proc' \in [Procs -> Proc] /\ ProcOK'
<1> DEFINE r == [Idle EXCEPT !.pc = IF x \in Callers THEN "idle" ELSE "done"]
<1>1. r \in Proc /\ r.pc \in AtRest
    BY DEF Idle, Proc, ProcPC, AtRest
<1>2. proc' = [proc EXCEPT ![x] = r]
    BY DEF End
<1> HIDE DEF r
<1>3. r.pc # "negotiate"
    BY <1>1 DEF AtRest
<1> QED BY <1>1, <1>2, <1>3 DEF TypeOK, ProcOK

\* A process that goes on, for its user.
LEMMA GoType ==
    ASSUME TypeOK, ProcOK, NEW x \in Procs, NEW r \in Proc, proc' = [proc EXCEPT ![x] = r],
           r.user \in Users, r.pc # "negotiate" \/ r.peer \in Peers
    PROVE  proc' \in [Procs -> Proc] /\ ProcOK'
BY DEF TypeOK, ProcOK

LEMMA LoopType ==
    ASSUME TypeOK, ProcOK, NEW x \in Procs, NEW subs \in SUBSET Peers, Loop(x, subs),
           proc[x].pc \notin AtRest
    PROVE  /\ proc' \in [Procs -> Proc] /\ ProcOK'
           /\ \A y \in Procs \ {x} : proc'[y] = proc[y]
<1>1. CASE subs = {}
    BY <1>1, EndType DEF Loop, End, TypeOK
<1>2. CASE subs # {}
    <2> DEFINE r == [proc[x] EXCEPT !.pc = "each", !.subs = subs]
    <2>1. proc[x] \in Proc /\ proc[x].user \in Users
        BY DEF TypeOK, ProcOK
    <2>2. r \in Proc /\ r.user \in Users /\ r.pc = "each"
        BY <2>1 DEF Proc, ProcPC
    <2>3. proc' = [proc EXCEPT ![x] = r]
        BY <1>2 DEF Loop, TypeOK
    <2> HIDE DEF r
    <2> QED BY <2>2, <2>3, GoType DEF TypeOK
<1> QED BY <1>1, <1>2

\* An open peer stays accounted for when no peer is opened or unlisted and no
\* process leaves "close".
LEMMA OpenKept ==
    ASSUME OpenPeersAreInRoom, UNCHANGED <<peers, life>>,
           \A y \in Procs : proc[y].pc = "close" => proc'[y] = proc[y]
    PROVE  OpenPeersAreInRoom'
BY DEF OpenPeersAreInRoom

-----------------------------------------------------------------------------
(* One lemma for each action that touches what the invariant speaks of. *)

LEMMA CallersAreProcs ==
    /\ Callers \subseteq Procs
    /\ \A p \in Peers, callback \in {"failed", "closed", "track"} : <<p, callback>> \in Procs
BY DEF Procs, Callbacks

LEMMA EnsurePeerStep ==
    ASSUME IInv, NEW x \in Callers, NEW u \in Users, EnsurePeer(x, u)
    PROVE  IInv'
<1> USE DEF IInv
<1>1. x \in Procs
    BY CallersAreProcs
<1>2. PICK p \in Peers :
        /\ UserOf[p] = u
        /\ \/ /\ peers[u] = p /\ UNCHANGED <<peers, life, crossed>>
           \/ /\ peers[u] = None /\ life[p] = "none"
              /\ peers' = [peers EXCEPT ![u] = p]
              /\ life' = [life EXCEPT ![p] = "open"]
              /\ SetsOut(u)
        /\ proc' = [proc EXCEPT ![x] = [Idle EXCEPT !.pc = "negotiate", !.user = u, !.peer = p,
                                                    !.created = (peers[u] = None)]]
    BY DEF EnsurePeer
<1> DEFINE r == [Idle EXCEPT !.pc = "negotiate", !.user = u, !.peer = p, !.created = (peers[u] = None)]
<1>3. r \in Proc /\ r.user \in Users /\ r.peer \in Peers /\ r.pc = "negotiate"
    BY DEF Idle, Proc, ProcPC
<1>4. proc' = [proc EXCEPT ![x] = r]
    BY <1>2
<1> HIDE DEF r
<1>5. proc' \in [Procs -> Proc] /\ ProcOK'
    BY <1>1, <1>3, <1>4, GoType
<1>6. TypeOK'
    <2>1. peers' = peers \/ peers' = [peers EXCEPT ![u] = p]
        BY <1>2
    <2>2. life' = life \/ life' = [life EXCEPT ![p] = "open"]
        BY <1>2
    <2>3. crossed' = crossed \/ crossed' = crossed \cup {u}
        BY <1>2 DEF SetsOut
    <2>4. UNCHANGED <<tracks, sig, senders, pending, again, described>>
        BY DEF EnsurePeer
    <2>5. peers' \in [Users -> Peers \cup {None}]
        BY <2>1, ExceptType DEF TypeOK
    <2>6. life' \in [Peers -> {"none", "open", "closed"}]
        BY <2>2, ExceptType DEF TypeOK
    <2> QED BY <1>5, <2>3, <2>4, <2>5, <2>6 DEF TypeOK
<1>7. TracksArePublished'
    <2>1. tracks' = tracks /\ (peers' = peers \/ (peers[u] = None /\ peers' = [peers EXCEPT ![u] = p]))
        BY <1>2 DEF EnsurePeer
    <2> QED BY <2>1 DEF TracksArePublished, TypeOK
<1>8. proc[x].pc = "idle" /\ \A y \in Procs \ {x} : proc'[y] = proc[y]
    BY <1>1, <1>4 DEF EnsurePeer, TypeOK
<1>9. OpenPeersAreInRoom'
    <2>1. CASE UNCHANGED <<peers, life>>
        BY <2>1, <1>8, OpenKept
    <2>2. CASE peers[u] = None /\ peers' = [peers EXCEPT ![u] = p] /\ life' = [life EXCEPT ![p] = "open"]
        BY <2>2, <1>2, <1>8, VoiceAssumption DEF OpenPeersAreInRoom, TypeOK
    <2> QED BY <1>2, <2>1, <2>2
<1> QED BY <1>5, <1>6, <1>7, <1>9

LEMMA NegotiateStep ==
    ASSUME IInv, NEW x \in Procs, Negotiate(x)
    PROVE  IInv'
<1> USE DEF IInv
<1> DEFINE p == proc[x].peer
<1>1. p \in Peers /\ proc[x] \in Proc /\ proc[x].user \in Users /\ proc[x].pc = "negotiate"
    BY DEF Negotiate, TypeOK, ProcOK, AtRest
<1>2. Existing(x) \in [Users -> Peers \cup {None}]
    BY <1>1 DEF Existing, Published, TypeOK
<1>3. /\ senders' \in [Peers -> [Users -> Peers \cup {None}]]
      /\ sig' \in [Peers -> {"stable", "have-local-offer", "have-remote-offer"}]
      /\ described' \in [Peers -> [Users -> Peers \cup {None}] \cup {NotYet}]
    <2>1. senders' = senders \/ senders' = [senders EXCEPT ![p] = Existing(x)]
        BY DEF Negotiate
    <2>2. sig' = sig \/ sig' = [sig EXCEPT ![p] = "have-remote-offer"]
        BY DEF Negotiate
    <2>3. described' = described \/ described' = [described EXCEPT ![p] = Existing(x)]
        BY DEF Negotiate
    <2>4. /\ senders \in [Peers -> [Users -> Peers \cup {None}]]
          /\ sig \in [Peers -> {"stable", "have-local-offer", "have-remote-offer"}]
          /\ described \in [Peers -> [Users -> Peers \cup {None}] \cup {NotYet}]
        BY DEF TypeOK
    <2>5. senders' \in [Peers -> [Users -> Peers \cup {None}]]
        BY ONLY <1>2, <2>1, <2>4
    <2>6. sig' \in [Peers -> {"stable", "have-local-offer", "have-remote-offer"}]
        BY ONLY <2>2, <2>4
    <2>7. described' \in [Peers -> [Users -> Peers \cup {None}] \cup {NotYet}]
        BY ONLY <1>2, <2>3, <2>4
    <2> QED BY <2>5, <2>6, <2>7
<1>4. proc' \in [Procs -> Proc] /\ ProcOK' /\ \A y \in Procs \ {x} : proc'[y] = proc[y]
    <2>1. CASE End(x)
        BY <2>1, EndType DEF End, TypeOK
    <2>2. CASE proc' = [proc EXCEPT ![x].pc = "leave"]
        <3> DEFINE r == [proc[x] EXCEPT !.pc = "leave"]
        <3>1. r \in Proc /\ r.user \in Users /\ r.pc = "leave"
            BY <1>1 DEF Proc, ProcPC
        <3>2. proc' = [proc EXCEPT ![x] = r]
            BY <2>2 DEF TypeOK
        <3> HIDE DEF r
        <3> QED BY <3>1, <3>2, GoType DEF TypeOK
    <2> QED BY <2>1, <2>2 DEF Negotiate
<1>5. UNCHANGED <<peers, tracks, life, pending, again, crossed>>
    BY DEF Negotiate, room
<1>6. TypeOK'
    BY <1>3, <1>4, <1>5 DEF TypeOK
<1>7. TracksArePublished' /\ OpenPeersAreInRoom'
    BY <1>1, <1>4, <1>5, OpenKept DEF TracksArePublished
<1> QED BY <1>4, <1>6, <1>7

LEMMA LeaveRemoveStep ==
    ASSUME IInv, NEW x \in Procs, LeaveRemove(x)
    PROVE  IInv'
<1> USE DEF IInv
<1> DEFINE u == proc[x].user
<1>1. u \in Users /\ proc[x] \in Proc /\ proc[x].pc = "leave"
    BY DEF LeaveRemove, TypeOK, ProcOK, AtRest
<1>2. UNCHANGED <<conn, senders>>
    BY DEF LeaveRemove
<1>3. CASE peers[u] = None
    <2>1. End(x) /\ UNCHANGED <<room, crossed>>
        BY <1>3 DEF LeaveRemove
    <2>2. proc' \in [Procs -> Proc] /\ ProcOK' /\ \A y \in Procs \ {x} : proc'[y] = proc[y]
        BY <2>1, EndType DEF End, TypeOK
    <2>3. TypeOK' /\ TracksArePublished'
        BY <1>2, <2>1, <2>2 DEF TypeOK, TracksArePublished, room, conn
    <2>4. OpenPeersAreInRoom'
        BY <1>1, <1>2, <2>1, <2>2, OpenKept DEF room, conn
    <2> QED BY <2>2, <2>3, <2>4
<1>4. CASE peers[u] # None
    <2> DEFINE r == [proc[x] EXCEPT !.pc = "close", !.peer = peers[u], !.subs = Others(u)]
    <2>1. Unlisted(u) /\ SetsOut(u) /\ proc' = [proc EXCEPT ![x] = r]
        BY <1>4 DEF LeaveRemove, TypeOK
    <2>2. Others(u) \in SUBSET Peers /\ peers[u] \in Peers
        BY <1>1, <1>4 DEF Others, TypeOK
    <2>3. r \in Proc /\ r.user \in Users /\ r.pc = "close" /\ r.peer = peers[u]
        BY <1>1, <2>2 DEF Proc, ProcPC
    <2> HIDE DEF r
    <2>4. proc' \in [Procs -> Proc] /\ ProcOK'
        BY <2>1, <2>3, GoType
    <2>5. TypeOK'
        BY <1>1, <1>2, <2>1, <2>4 DEF TypeOK, Unlisted, SetsOut, conn
    <2>6. TracksArePublished'
        BY <1>1, <2>1 DEF TracksArePublished, Unlisted, TypeOK
    <2>7. OpenPeersAreInRoom'
        <3> SUFFICES ASSUME NEW q \in Peers, life[q] = "open"
                     PROVE  \/ peers'[UserOf[q]] = q
                            \/ \E y \in Procs : proc'[y].pc = "close" /\ proc'[y].peer = q
            BY <1>2 DEF OpenPeersAreInRoom, conn
        <3>1. CASE peers[u] = q
            BY <3>1, <2>1, <2>3 DEF TypeOK
        <3>2. CASE peers[UserOf[q]] = q /\ peers[u] # q
            BY <3>2, <2>1 DEF Unlisted, TypeOK
        <3>3. CASE \E y \in Procs : proc[y].pc = "close" /\ proc[y].peer = q
            BY <3>3, <1>1, <2>1 DEF TypeOK
        <3> QED BY <3>1, <3>2, <3>3 DEF OpenPeersAreInRoom
    <2> QED BY <2>4, <2>5, <2>6, <2>7
<1> QED BY <1>3, <1>4

LEMMA LeaveCloseStep ==
    ASSUME IInv, NEW x \in Procs, LeaveClose(x)
    PROVE  IInv'
<1> USE DEF IInv
<1> DEFINE p == proc[x].peer
<1>1. proc[x] \in Proc /\ proc[x].pc = "close" /\ proc[x].subs \in SUBSET Peers
    BY DEF LeaveClose, TypeOK, Proc
<1>2. /\ proc' \in [Procs -> Proc] /\ ProcOK'
      /\ \A y \in Procs \ {x} : proc'[y] = proc[y]
    BY <1>1, LoopType DEF LeaveClose, AtRest
<1>3. NoSenders \in [Users -> Peers \cup {None}]
    BY DEF NoSenders
<1>4. TypeOK'
    BY <1>2, <1>3 DEF TypeOK, LeaveClose, room
<1>5. TracksArePublished'
    BY DEF TracksArePublished, LeaveClose, room
<1>6. OpenPeersAreInRoom'
    <2> SUFFICES ASSUME NEW q \in Peers, life'[q] = "open"
                 PROVE  \/ peers'[UserOf[q]] = q
                        \/ \E y \in Procs : proc'[y].pc = "close" /\ proc'[y].peer = q
        BY DEF OpenPeersAreInRoom
    <2>1. q # p /\ life[q] = "open" /\ peers' = peers
        BY DEF LeaveClose, TypeOK, room
    <2> QED BY <1>2, <2>1 DEF OpenPeersAreInRoom
<1> QED BY <1>2, <1>4, <1>5, <1>6

LEMMA EachStep ==
    ASSUME IInv, NEW x \in Procs, Each(x)
    PROVE  IInv'
<1> USE DEF IInv
<1>1. proc[x] \in Proc /\ proc[x].pc = "each" /\ proc[x].user \in Users
    BY DEF Each, TypeOK, ProcOK, AtRest
<1>2. PICK s \in proc[x].subs :
        /\ senders' = CASE x \notin Peers \X {"track"} -> [senders EXCEPT ![s][proc[x].user] = None]
                        [] x \in Peers \X {"track"} /\ life[s] = "open" /\ senders[s][proc[x].user] = None
                              -> [senders EXCEPT ![s][proc[x].user] = proc[x].peer]
                        [] OTHER -> senders
        /\ proc' = [proc EXCEPT ![x].pc = "offer", ![x].cur = s, ![x].subs = @ \ {s}]
    BY DEF Each
<1>3. s \in Peers /\ proc[x].peer \in Peers \cup {None}
    BY <1>1 DEF Proc
<1>4. senders' \in [Peers -> [Users -> Peers \cup {None}]]
    <2>1. ASSUME NEW v \in Peers \cup {None}
          PROVE  [senders EXCEPT ![s][proc[x].user] = v] \in [Peers -> [Users -> Peers \cup {None}]]
        <3> DEFINE t == [senders[s] EXCEPT ![proc[x].user] = v]
        <3>1. senders[s] \in [Users -> Peers \cup {None}]
            BY <1>3 DEF TypeOK
        <3>2. t \in [Users -> Peers \cup {None}]
            BY <3>1, ExceptType
        <3>3. [senders EXCEPT ![s] = t] \in [Peers -> [Users -> Peers \cup {None}]]
            <4> HIDE DEF t
            <4> QED BY <3>2, ExceptType DEF TypeOK
        <3> QED BY <3>3
    <2>2. \/ senders' = senders
          \/ \E v \in Peers \cup {None} : senders' = [senders EXCEPT ![s][proc[x].user] = v]
        <3>1. CASE x \notin Peers \X {"track"}
            BY <1>2, <3>1
        <3>2. CASE x \in Peers \X {"track"}
            BY <1>2, <1>3, <3>2
        <3> QED BY <3>1, <3>2
    <2>3. senders \in [Peers -> [Users -> Peers \cup {None}]]
        BY DEF TypeOK
    <2> QED BY ONLY <2>1, <2>2, <2>3
<1> DEFINE r == [proc[x] EXCEPT !.pc = "offer", !.cur = s, !.subs = @ \ {s}]
<1>5. r \in Proc /\ r.user \in Users /\ r.pc = "offer"
    BY <1>1, <1>3 DEF Proc, ProcPC
<1>6. proc' = [proc EXCEPT ![x] = r]
    BY <1>2 DEF TypeOK
<1> HIDE DEF r
<1>7. proc' \in [Procs -> Proc] /\ ProcOK' /\ \A y \in Procs \ {x} : proc'[y] = proc[y]
    BY <1>5, <1>6, GoType DEF TypeOK
<1>8. UNCHANGED <<room, conn, crossed>>
    BY DEF Each
<1>9. TypeOK' /\ TracksArePublished'
    BY <1>4, <1>7, <1>8 DEF TypeOK, TracksArePublished, room, conn
<1>10. OpenPeersAreInRoom'
    BY <1>1, <1>7, <1>8, OpenKept DEF room, conn
<1> QED BY <1>7, <1>9, <1>10

\* An offer touches the signalling of one peer.
LEMMA RenegotiateType ==
    ASSUME TypeOK, NEW p, Renegotiate(p)
    PROVE  /\ sig' \in [Peers -> {"stable", "have-local-offer", "have-remote-offer"}]
           /\ pending' \in [Peers -> BOOLEAN]
           /\ described' \in [Peers -> [Users -> Peers \cup {None}] \cup {NotYet}]
<1>1. sig' = sig \/ sig' = [sig EXCEPT ![p] = "have-local-offer"]
    BY DEF Renegotiate
<1>2. pending' = pending \/ pending' = [pending EXCEPT ![p] = TRUE]
    BY DEF Renegotiate
<1>3. described' = described \/ described' = [described EXCEPT ![p] = senders[p]]
    BY DEF Renegotiate
<1>4. sig' \in [Peers -> {"stable", "have-local-offer", "have-remote-offer"}]
    BY <1>1, ExceptType DEF TypeOK
<1>5. pending' \in [Peers -> BOOLEAN]
    BY <1>2, ExceptType DEF TypeOK
<1>6. described' \in [Peers -> [Users -> Peers \cup {None}] \cup {NotYet}]
    <2>1. CASE p \in Peers
        <3>1. senders[p] \in [Users -> Peers \cup {None}]
            BY <2>1 DEF TypeOK
        <3> QED BY <1>3, <3>1, ExceptType DEF TypeOK
    <2>2. CASE p \notin Peers
        BY <1>3, <2>2 DEF TypeOK
    <2> QED BY <2>1, <2>2
<1> QED BY <1>4, <1>5, <1>6

LEMMA OfferStep ==
    ASSUME IInv, NEW x \in Procs, Offer(x)
    PROVE  IInv'
<1> USE DEF IInv
<1>1. proc[x].pc = "offer" /\ proc[x].subs \in SUBSET Peers
    BY DEF Offer, TypeOK, Proc
<1>2. /\ proc' \in [Procs -> Proc] /\ ProcOK'
      /\ \A y \in Procs \ {x} : proc'[y] = proc[y]
    BY <1>1, LoopType DEF Offer, AtRest
<1>3. UNCHANGED <<peers, tracks, life, again, senders, crossed>>
    BY DEF Offer, room
<1>4. TypeOK' /\ TracksArePublished'
    BY <1>2, <1>3, RenegotiateType DEF Offer, TypeOK, TracksArePublished
<1>5. OpenPeersAreInRoom'
    BY <1>1, <1>2, <1>3, OpenKept
<1> QED BY <1>2, <1>4, <1>5

\* The steps of calls and callbacks that only set out, and those that only touch
\* the signalling of a peer.
LEMMA SetOutStep ==
    ASSUME IInv, NEW x \in Procs, NEW r \in Proc, proc' = [proc EXCEPT ![x] = r],
           r.user \in Users, r.pc # "negotiate", proc[x].pc # "close",
           UNCHANGED <<room, conn, senders, crossed>>
    PROVE  IInv'
<1> USE DEF IInv
<1>1. proc' \in [Procs -> Proc] /\ ProcOK' /\ \A y \in Procs \ {x} : proc'[y] = proc[y]
    BY GoType DEF TypeOK
<1>2. TypeOK' /\ TracksArePublished'
    BY <1>1 DEF TypeOK, TracksArePublished, room, conn
<1>3. OpenPeersAreInRoom'
    BY <1>1, OpenKept DEF room, conn
<1> QED BY <1>1, <1>2, <1>3

LEMMA LeaveStep == ASSUME IInv, NEW x \in Callers, NEW u \in Users, Leave(x, u) PROVE IInv'
<1> DEFINE r == [Idle EXCEPT !.pc = "leave", !.user = u]
<1>1. r \in Proc /\ r.user \in Users /\ r.pc # "negotiate"
    BY DEF Idle, Proc, ProcPC
<1>2. proc' = [proc EXCEPT ![x] = r] /\ proc[x].pc # "close" /\ UNCHANGED <<room, conn, senders, crossed>>
    BY DEF Leave
<1> HIDE DEF r
<1> QED BY <1>1, <1>2, SetOutStep, CallersAreProcs

LEMMA StateChangeStep ==
    ASSUME IInv, NEW p \in Peers, NEW state \in {"failed", "closed"}, StateChange(p, state)
    PROVE  IInv'
<1> DEFINE r == [Idle EXCEPT !.pc = "leave", !.user = UserOf[p]]
<1>1. r \in Proc /\ r.user \in Users /\ r.pc # "negotiate"
    BY VoiceAssumption DEF Idle, Proc, ProcPC
<1>2. /\ proc' = [proc EXCEPT ![<<p, state>>] = r] /\ proc[<<p, state>>].pc # "close"
      /\ UNCHANGED <<room, conn, senders, crossed>>
    BY DEF StateChange
<1> HIDE DEF r
<1> QED BY <1>1, <1>2, SetOutStep, CallersAreProcs

LEMMA OnTrackStep == ASSUME IInv, NEW p \in Peers, OnTrack(p) PROVE IInv'
<1> DEFINE r == [Idle EXCEPT !.pc = "publish", !.user = UserOf[p], !.peer = p]
<1>1. r \in Proc /\ r.user \in Users /\ r.pc # "negotiate"
    BY VoiceAssumption DEF Idle, Proc, ProcPC
<1>2. /\ proc' = [proc EXCEPT ![<<p, "track">>] = r] /\ proc[<<p, "track">>].pc # "close"
      /\ UNCHANGED <<room, conn, senders, crossed>>
    BY DEF OnTrack
<1> HIDE DEF r
<1> QED BY <1>1, <1>2, SetOutStep, CallersAreProcs

LEMMA HandleAnswerStep ==
    ASSUME IInv, NEW x \in Callers, NEW u \in Users, HandleAnswer(x, u)
    PROVE  IInv'
<1> USE DEF IInv
<1>1. UNCHANGED <<peers, tracks, life, described, senders, proc, crossed>>
    BY DEF HandleAnswer, room
<1>2. peers[u] \in Peers
    BY DEF HandleAnswer, TypeOK
<1>3. TypeOK'
    BY <1>1, <1>2 DEF HandleAnswer, TypeOK
<1> QED BY <1>1, <1>3, OpenKept DEF ProcOK, TracksArePublished

LEMMA AgainStep == ASSUME IInv, NEW p \in Peers, Again(p) PROVE IInv'
<1> USE DEF IInv
<1>1. UNCHANGED <<peers, tracks, life, senders, proc, crossed>> /\ again' \subseteq Peers
    BY DEF Again, room, TypeOK
<1>2. TypeOK'
    BY <1>1, RenegotiateType DEF Again, TypeOK
<1> QED BY <1>1, <1>2, OpenKept DEF ProcOK, TracksArePublished

LEMMA PublishStep == ASSUME IInv, NEW p \in Peers, Publish(p) PROVE IInv'
<1> USE DEF IInv
<1> DEFINE x == <<p, "track">>
           u == UserOf[p]
<1>1. x \in Procs /\ proc[x].pc = "publish" /\ u \in Users
    BY CallersAreProcs, VoiceAssumption DEF Publish
<1>2. UNCHANGED <<peers, conn, senders>>
    BY DEF Publish
<1>3. Others(u) \in SUBSET Peers
    BY DEF Others
<1> HIDE DEF x
<1>4. proc' \in [Procs -> Proc] /\ ProcOK' /\ \A y \in Procs \ {x} : proc'[y] = proc[y]
    <2>1. CASE End(x)
        BY <1>1, <2>1, EndType DEF End, TypeOK
    <2>2. CASE Loop(x, Others(u))
        BY <1>1, <1>3, <2>2, LoopType DEF AtRest
    <2> QED BY <2>1, <2>2 DEF Publish, x
<1>5. /\ tracks' = tracks \/ (tracks' = [tracks EXCEPT ![u] = p] /\ peers[u] = p)
      /\ crossed' = crossed \/ crossed' = crossed \cup {u}
    BY DEF Publish, IsCurrent, SetsOut
<1>6. TypeOK'
    BY <1>1, <1>2, <1>4, <1>5 DEF TypeOK, conn
<1>7. TracksArePublished'
    BY <1>1, <1>2, <1>5 DEF TracksArePublished, TypeOK
<1>8. OpenPeersAreInRoom'
    BY <1>1, <1>2, <1>4, OpenKept DEF conn
<1> QED BY <1>4, <1>6, <1>7, <1>8

-----------------------------------------------------------------------------
LEMMA InitOK == Init => IInv
<1> SUFFICES ASSUME Init PROVE IInv
    OBVIOUS
<1> DEFINE ready == [Idle EXCEPT !.pc = "ready"]
<1>1. Idle \in Proc /\ ready \in Proc /\ Idle.pc = "idle" /\ ready.pc = "ready"
    BY DEF Idle, Proc, ProcPC
<1> HIDE DEF ready
<1>2. \A x \in Procs : proc[x] \in {Idle, ready}
    BY DEF Init, ready
<1>3. ProcOK
    BY <1>1, <1>2 DEF ProcOK, AtRest
<1>4. NoSenders \in [Users -> Peers \cup {None}]
    BY DEF NoSenders
<1>5. proc \in [Procs -> Proc]
    BY <1>1 DEF Init, ready
<1>6. TypeOK
    BY <1>4, <1>5 DEF Init, TypeOK
<1>7. TracksArePublished /\ OpenPeersAreInRoom
    BY DEF Init, TracksArePublished, OpenPeersAreInRoom
<1> QED BY <1>3, <1>6, <1>7 DEF IInv

LEMMA NextOK == IInv /\ [Next]_vars => IInv'
<1> SUFFICES ASSUME IInv, [Next]_vars PROVE IInv'
    OBVIOUS
<1>1. CASE \E x \in Callers, u \in Users : EnsurePeer(x, u) \/ Leave(x, u) \/ HandleAnswer(x, u)
    BY <1>1, EnsurePeerStep, LeaveStep, HandleAnswerStep
<1>2. CASE \E x \in Procs : Step(x)
    BY <1>2, NegotiateStep, LeaveRemoveStep, LeaveCloseStep, EachStep, OfferStep DEF Step
<1>3. CASE \E p \in Peers : Again(p) \/ OnTrack(p) \/ Publish(p)
    BY <1>3, AgainStep, OnTrackStep, PublishStep
<1>4. CASE \E p \in Peers : StateChange(p, "failed") \/ StateChange(p, "closed")
    BY <1>4, StateChangeStep
<1>5. CASE UNCHANGED vars
    BY <1>5, OpenKept DEF IInv, vars, room, conn, TypeOK, ProcOK, TracksArePublished
<1> QED BY <1>1, <1>2, <1>3, <1>4, <1>5 DEF Next

\* The engine's variables keep their types: every map leads to peers of the engine.
THEOREM TypeCorrect == Spec => []TypeOK
<1>1. IInv => TypeOK
    BY DEF IInv
<1> QED BY InitOK, NextOK, <1>1, PTL DEF Spec

\* A track is listed only while its publisher's peer is the user's peer in the room,
\* however OnTrack, Leave and HandleOffer cross (engine.go:252-253, 394-398).
THEOREM OnlyPresentPublish == Spec => []TracksArePublished
<1>1. IInv => TracksArePublished
    BY DEF IInv
<1> QED BY InitOK, NextOK, <1>1, PTL DEF Spec

\* No peer connection stays open outside the room, whoever removes its peer and
\* however many do at once (engine.go:252-265, 345-350).
THEOREM NoPeerForgotten == Spec => []OpenPeersAreInRoom
<1>1. IInv => OpenPeersAreInRoom
    BY DEF IInv
<1> QED BY InitOK, NextOK, <1>1, PTL DEF Spec

-----------------------------------------------------------------------------
(* Everybody hears everybody. *)

TrackProcs   == Peers \X {"track"}
Roams(x, u)  == proc[x].user = u /\ proc[x].pc \in {"close", "each", "offer"}
Todo(x, s, u) == Roams(x, u) /\ s \in proc[x].subs

\* OnTrack's goroutine only publishes, for its own peer, and HandleOffer acts for
\* the peer's user.
Errands ==
    /\ \A x \in TrackProcs :
          /\ proc[x].pc \notin {"negotiate", "leave", "close"}
          /\ proc[x].pc = "publish" => proc[x].peer = x[1] /\ proc[x].user = UserOf[x[1]]
    /\ \A x \in Procs : proc[x].pc = "negotiate" => UserOf[proc[x].peer] = proc[x].user

\* A peer is listed under its user, and open; one that is being closed is not listed.
Listed  == \A u \in Users : peers[u] # None => UserOf[peers[u]] = u /\ life[peers[u]] = "open"
Closing ==
    \A x \in Procs :
        proc[x].pc = "close" =>
        proc[x].peer \in Peers /\ peers[UserOf[proc[x].peer]] # proc[x].peer /\ life[proc[x].peer] # "none"
Fresh   == \A p \in Peers : life[p] = "none" => senders[p] = NoSenders /\ described[p] = NotYet

\* For a user whose goroutines have not crossed, at most one goes round, and it
\* brings what is listed: the new track, or none.
OneRoams ==
    \A u \in Users \ crossed :
        /\ \A x, y \in Procs : Roams(x, u) /\ Roams(y, u) => x = y
        /\ \A x \in Procs : Roams(x, u) => tracks[u] = IF x \in TrackProcs THEN proc[x].peer ELSE None

\* What a peer of the room has of such a user, it keeps; or a goroutine is to
\* add or to remove it; or the peer is about to be removed, or to be given what
\* there is.
Coming(s)  == \E x \in Procs : proc[x].pc = "negotiate" /\ proc[x].peer = s /\ proc[x].created = TRUE
Leaving(s) == \E x \in Procs : proc[x].pc = "leave" /\ proc[x].user = UserOf[s]
Right(s, u) ==
    \/ senders[s][u] = tracks[u]
    \/ senders[s][u] = None /\ \E x \in Procs : x \in TrackProcs /\ Todo(x, s, u)
    \/ \E x \in Procs : x \notin TrackProcs /\ Todo(x, s, u)
    \/ Leaving(s)
    \/ senders[s][u] = None /\ Coming(s)
Hears(s, u) == peers[UserOf[s]] = s /\ u # UserOf[s] /\ u \notin crossed => Right(s, u)

Hearing ==
    /\ Errands /\ Listed /\ Closing /\ Fresh /\ OneRoams
    /\ \A s \in Peers, u \in Users : Hears(s, u)
HearInv == IInv /\ Hearing

LEMMA TracksAreProcs == TrackProcs \subseteq Procs /\ TrackProcs \cap Callers = {}
BY VoiceAssumption DEF TrackProcs, Procs, Callbacks

\* What a goroutine does that changes neither the room's maps nor who goes round.
LEMMA GoesKeeps ==
    ASSUME HearInv, NEW x \in Procs, \A y \in Procs \ {x} : proc'[y] = proc[y],
           UNCHANGED <<peers, tracks, crossed>>,
           \A p \in Peers : \/ life'[p] = life[p]
                            \/ life'[p] = "closed" /\ life[p] # "none" /\ peers[UserOf[p]] # p,
           \A u \in Users : Roams(x, u)' => Roams(x, u) /\ proc'[x].peer = proc[x].peer,
           proc'[x].pc # "close",
           proc[x].pc = "leave" => peers[proc[x].user] = None,
           x \in TrackProcs =>
              /\ proc'[x].pc \notin {"negotiate", "leave", "close"}
              /\ proc'[x].pc = "publish" => proc'[x].peer = x[1] /\ proc'[x].user = UserOf[x[1]],
           proc'[x].pc = "negotiate" => UserOf[proc'[x].peer] = proc'[x].user,
           \A p \in Peers : life'[p] = "none" => senders'[p] = senders[p] /\ described'[p] = described[p],
           \A s \in Peers, u \in Users :
              \/ Hears(s, u)'
              \/ /\ senders'[s][u] = senders[s][u]
                 /\ Todo(x, s, u) => Todo(x, s, u)'
                 /\ ~(proc[x].pc = "negotiate" /\ proc[x].peer = s)
    PROVE  Hearing'
<1>1. Errands'
    <2>1. Errands
        BY DEF HearInv, Hearing
    <2>2. \A y \in TrackProcs :
              /\ proc'[y].pc \notin {"negotiate", "leave", "close"}
              /\ proc'[y].pc = "publish" => proc'[y].peer = y[1] /\ proc'[y].user = UserOf[y[1]]
        BY <2>1, TracksAreProcs DEF Errands
    <2>3. \A y \in Procs : proc'[y].pc = "negotiate" => UserOf[proc'[y].peer] = proc'[y].user
        BY <2>1 DEF Errands
    <2> QED BY <2>2, <2>3 DEF Errands
<1>2. Listed'
    BY DEF HearInv, Hearing, Listed, IInv, TypeOK
<1>3. Closing'
    <2> SUFFICES ASSUME NEW y \in Procs, proc'[y].pc = "close"
                 PROVE  /\ proc'[y].peer \in Peers /\ peers'[UserOf[proc'[y].peer]] # proc'[y].peer
                        /\ life'[proc'[y].peer] # "none"
        BY DEF Closing
    <2>1. proc'[y] = proc[y]
        OBVIOUS
    <2>2. /\ proc[y].peer \in Peers /\ peers[UserOf[proc[y].peer]] # proc[y].peer
          /\ life[proc[y].peer] # "none"
        BY <2>1 DEF HearInv, Hearing, Closing
    <2> QED BY <2>1, <2>2
<1>4. Fresh'
    BY DEF HearInv, Hearing, Fresh
<1>5. OneRoams'
    <2> SUFFICES ASSUME NEW u \in Users \ crossed
                 PROVE  /\ \A y, z \in Procs : Roams(y, u)' /\ Roams(z, u)' => y = z
                        /\ \A y \in Procs :
                              Roams(y, u)' => tracks'[u] = IF y \in TrackProcs THEN proc'[y].peer ELSE None
        BY DEF OneRoams
    <2>1. \A y \in Procs : Roams(y, u)' => Roams(y, u) /\ proc'[y].peer = proc[y].peer
        BY DEF Roams
    <2>2. \A y \in Procs : Roams(y, u) => tracks[u] = IF y \in TrackProcs THEN proc[y].peer ELSE None
        BY DEF HearInv, Hearing, OneRoams
    <2>3. \A y, z \in Procs : Roams(y, u) /\ Roams(z, u) => y = z
        BY DEF HearInv, Hearing, OneRoams
    <2> QED BY <2>1, <2>2, <2>3
<1>6. ASSUME NEW s \in Peers, NEW u \in Users PROVE Hears(s, u)'
    <2> SUFFICES ASSUME /\ senders'[s][u] = senders[s][u]
                        /\ Todo(x, s, u) => Todo(x, s, u)'
                        /\ ~(proc[x].pc = "negotiate" /\ proc[x].peer = s),
                        peers[UserOf[s]] = s, u # UserOf[s], u \notin crossed
                 PROVE  Right(s, u)'
        BY DEF Hears
    <2>1. Right(s, u)
        BY DEF HearInv, Hearing, Hears
    <2>2. \A y \in Procs : Todo(y, s, u) => Todo(y, s, u)'
        BY DEF Todo, Roams
    <2>3. Coming(s) => Coming(s)'
        BY DEF Coming
    <2>4. Leaving(s) => Leaving(s)'
        <3>1. s # None
            BY VoiceAssumption
        <3>2. ~(proc[x].pc = "leave" /\ proc[x].user = UserOf[s])
            BY <3>1
        <3> QED BY <3>2 DEF Leaving
    <2> QED BY <2>1, <2>2, <2>3, <2>4 DEF Right
<1> QED BY <1>1, <1>2, <1>3, <1>4, <1>5, <1>6 DEF Hearing

\* What concerns the signalling only.
LEMMA SignalKeeps ==
    ASSUME HearInv, UNCHANGED <<peers, tracks, crossed, life, senders, proc>>,
           \A p \in Peers : life[p] = "none" => described'[p] = described[p]
    PROVE  Hearing'
<1>1. Errands' /\ Listed' /\ Closing' /\ Fresh'
    BY DEF HearInv, Hearing, Errands, Listed, Closing, Fresh
<1>2. OneRoams'
    BY DEF HearInv, Hearing, OneRoams, Roams
<1>3. \A s \in Peers, u \in Users : Hears(s, u)'
    BY DEF HearInv, Hearing, Hears, Right, Todo, Roams, Coming, Leaving
<1> QED BY <1>1, <1>2, <1>3 DEF Hearing

-----------------------------------------------------------------------------
(* The steps that only go on. *)

\* Where a loop over the subscribers goes on.
LEMMA LoopFrame ==
    ASSUME HearInv, NEW x \in Procs, NEW subs \in SUBSET Peers, Loop(x, subs)
    PROVE  /\ \A y \in Procs \ {x} : proc'[y] = proc[y]
           /\ \/ subs = {} /\ proc'[x].pc \in {"idle", "done"}
              \/ /\ subs # {} /\ proc'[x].pc = "each" /\ proc'[x].subs = subs
                 /\ proc'[x].user = proc[x].user /\ proc'[x].peer = proc[x].peer
<1>1. proc \in [Procs -> Proc] /\ proc[x] \in Proc
    BY DEF HearInv, IInv, TypeOK
<1> QED BY <1>1 DEF Loop, End, Idle, Proc

LEMMA EndFrame ==
    ASSUME HearInv, NEW x \in Procs, End(x)
    PROVE  (\A y \in Procs \ {x} : proc'[y] = proc[y]) /\ proc'[x].pc \in {"idle", "done"}
BY DEF HearInv, IInv, TypeOK, End, Idle

\* Setting out: a process at rest takes an errand, and goes round nowhere yet.
LEMMA SetOutHears ==
    ASSUME HearInv, NEW x \in Procs, proc[x].pc \in AtRest, NEW r \in Proc,
           proc' = [proc EXCEPT ![x] = r], r.pc \in {"leave", "negotiate", "publish"},
           x \in TrackProcs => r.pc = "publish" /\ r.peer = x[1] /\ r.user = UserOf[x[1]],
           r.pc = "negotiate" => UserOf[r.peer] = r.user,
           UNCHANGED <<room, conn, senders, crossed>>
    PROVE  Hearing'
<1>1. proc'[x] = r /\ \A y \in Procs \ {x} : proc'[y] = proc[y]
    BY DEF HearInv, IInv, TypeOK
<1>2. UNCHANGED <<peers, tracks, crossed, life, senders, described>>
    BY DEF room, conn
<1>3. proc[x].pc \notin {"negotiate", "leave", "close", "each", "offer"}
    BY DEF AtRest
<1>4. \A u \in Users : ~Roams(x, u)' /\ ~Roams(x, u)
    BY <1>1, <1>3 DEF Roams
<1> QED BY <1>1, <1>2, <1>3, <1>4, GoesKeeps DEF Todo

LEMMA LeaveHears == ASSUME HearInv, NEW x \in Callers, NEW u \in Users, Leave(x, u) PROVE Hearing'
<1> DEFINE r == [Idle EXCEPT !.pc = "leave", !.user = u]
<1>1. r \in Proc /\ r.pc = "leave"
    BY DEF Idle, Proc, ProcPC
<1>2. /\ proc' = [proc EXCEPT ![x] = r] /\ proc[x].pc \in AtRest
      /\ UNCHANGED <<room, conn, senders, crossed>>
    BY DEF Leave, AtRest
<1> HIDE DEF r
<1> QED BY <1>1, <1>2, SetOutHears, CallersAreProcs, TracksAreProcs

LEMMA StateChangeHears ==
    ASSUME HearInv, NEW p \in Peers, NEW state \in {"failed", "closed"}, StateChange(p, state)
    PROVE  Hearing'
<1> DEFINE r == [Idle EXCEPT !.pc = "leave", !.user = UserOf[p]]
<1>1. r \in Proc /\ r.pc = "leave"
    BY VoiceAssumption DEF Idle, Proc, ProcPC
<1>2. /\ proc' = [proc EXCEPT ![<<p, state>>] = r] /\ proc[<<p, state>>].pc \in AtRest
      /\ UNCHANGED <<room, conn, senders, crossed>>
    BY DEF StateChange, AtRest
<1>3. <<p, state>> \in Procs /\ <<p, state>> \notin TrackProcs
    BY CallersAreProcs DEF TrackProcs
<1> HIDE DEF r
<1> QED BY <1>1, <1>2, <1>3, SetOutHears

LEMMA OnTrackHears == ASSUME HearInv, NEW p \in Peers, OnTrack(p) PROVE Hearing'
<1> DEFINE r == [Idle EXCEPT !.pc = "publish", !.user = UserOf[p], !.peer = p]
<1>1. r \in Proc /\ r.pc = "publish" /\ r.peer = p /\ r.user = UserOf[p]
    BY VoiceAssumption DEF Idle, Proc, ProcPC
<1>2. /\ proc' = [proc EXCEPT ![<<p, "track">>] = r] /\ proc[<<p, "track">>].pc \in AtRest
      /\ UNCHANGED <<room, conn, senders, crossed>>
    BY DEF OnTrack, AtRest
<1>3. <<p, "track">> \in Procs /\ <<p, "track">>[1] = p
    BY CallersAreProcs
<1> HIDE DEF r
<1> QED BY <1>1, <1>2, <1>3, SetOutHears

LEMMA RenegotiateFrame ==
    ASSUME HearInv, NEW p, Renegotiate(p)
    PROVE  \A q \in Peers : life[q] # "open" => described'[q] = described[q]
BY DEF Renegotiate, HearInv, IInv, TypeOK

LEMMA OfferHears == ASSUME HearInv, NEW x \in Procs, Offer(x) PROVE Hearing'
<1>1. /\ proc[x].pc = "offer" /\ Renegotiate(proc[x].cur) /\ Loop(x, proc[x].subs)
      /\ UNCHANGED <<peers, tracks, life, senders, crossed>>
    BY DEF Offer, room
<1>2. proc[x].subs \in SUBSET Peers
    BY DEF HearInv, IInv, TypeOK, Proc
<1>3. /\ \A y \in Procs \ {x} : proc'[y] = proc[y]
      /\ \/ proc[x].subs = {} /\ proc'[x].pc \in {"idle", "done"}
         \/ /\ proc'[x].pc = "each" /\ proc'[x].subs = proc[x].subs
            /\ proc'[x].user = proc[x].user /\ proc'[x].peer = proc[x].peer
    BY <1>1, <1>2, LoopFrame
<1>4. \A u \in Users : Roams(x, u)' => Roams(x, u) /\ proc'[x].peer = proc[x].peer
    BY <1>1, <1>3 DEF Roams
<1>5. \A s \in Peers, u \in Users : Todo(x, s, u) => Todo(x, s, u)'
    BY <1>1, <1>3 DEF Todo, Roams
<1>6. \A q \in Peers : life[q] = "none" => described'[q] = described[q]
    BY <1>1, RenegotiateFrame
<1> QED BY <1>1, <1>3, <1>4, <1>5, <1>6, GoesKeeps

LEMMA LeaveCloseHears == ASSUME HearInv, NEW x \in Procs, LeaveClose(x) PROVE Hearing'
<1>0. PICK p : p = proc[x].peer
    OBVIOUS
<1>1. /\ proc[x].pc = "close" /\ Loop(x, proc[x].subs) /\ UNCHANGED <<peers, tracks, crossed>>
      /\ life' = [life EXCEPT ![p] = "closed"]
      /\ senders' = [senders EXCEPT ![p] = NoSenders]
      /\ described' = [described EXCEPT ![p] = NotYet]
    BY <1>0 DEF LeaveClose, room
<1>2. proc[x].subs \in SUBSET Peers
    BY DEF HearInv, IInv, TypeOK, Proc
<1>3. /\ \A y \in Procs \ {x} : proc'[y] = proc[y]
      /\ \/ proc[x].subs = {} /\ proc'[x].pc \in {"idle", "done"}
         \/ /\ proc'[x].pc = "each" /\ proc'[x].subs = proc[x].subs
            /\ proc'[x].user = proc[x].user /\ proc'[x].peer = proc[x].peer
    BY <1>1, <1>2, LoopFrame
<1>4. p \in Peers /\ peers[UserOf[p]] # p /\ life[p] # "none" /\ x \notin TrackProcs
    BY <1>0, <1>1 DEF HearInv, Hearing, Closing, Errands
<1>5. \A q \in Peers \ {p} :
          life'[q] = life[q] /\ senders'[q] = senders[q] /\ described'[q] = described[q]
    BY <1>1 DEF HearInv, IInv, TypeOK
<1>6. life'[p] = "closed"
    BY <1>1, <1>4 DEF HearInv, IInv, TypeOK
<1>7. \A u \in Users : Roams(x, u)' => Roams(x, u) /\ proc'[x].peer = proc[x].peer
    BY <1>1, <1>3 DEF Roams
<1>8. \A s \in Peers, u \in Users : Todo(x, s, u) => Todo(x, s, u)'
    BY <1>1, <1>3 DEF Todo, Roams
<1>9. \A u \in Users : Hears(p, u)'
    BY <1>1, <1>4 DEF Hears
<1> QED BY <1>1, <1>3, <1>4, <1>5, <1>6, <1>7, <1>8, <1>9, GoesKeeps

LEMMA HandleAnswerHears ==
    ASSUME HearInv, NEW x \in Callers, NEW u \in Users, HandleAnswer(x, u)
    PROVE  Hearing'
BY SignalKeeps DEF HandleAnswer, room

LEMMA AgainHears == ASSUME HearInv, NEW p \in Peers, Again(p) PROVE Hearing'
<1>1. UNCHANGED <<peers, tracks, crossed, life, senders, proc>> /\ Renegotiate(p)
    BY DEF Again, room
<1> QED BY <1>1, RenegotiateFrame, SignalKeeps

-----------------------------------------------------------------------------
(* The steps that change who is in the room, and what is sent. *)

\* The sender of one subscriber is removed, or added where there was none.
LEMMA EachHears == ASSUME HearInv, NEW x \in Procs, Each(x) PROVE Hearing'
<1>1. PICK w : w = proc[x].user
    OBVIOUS
<1>2. PICK s \in proc[x].subs :
        /\ senders' = CASE x \notin TrackProcs -> [senders EXCEPT ![s][w] = None]
                        [] x \in TrackProcs /\ life[s] = "open" /\ senders[s][w] = None
                              -> [senders EXCEPT ![s][w] = proc[x].peer]
                        [] OTHER -> senders
        /\ proc' = [proc EXCEPT ![x].pc = "offer", ![x].cur = s, ![x].subs = @ \ {s}]
    BY <1>1 DEF Each, TrackProcs
<1>3. /\ proc[x].pc = "each" /\ w \in Users /\ s \in Peers /\ proc[x] \in Proc
      /\ proc \in [Procs -> Proc] /\ senders \in [Peers -> [Users -> Peers \cup {None}]]
    BY <1>1 DEF Each, HearInv, IInv, TypeOK, ProcOK, AtRest, Proc
<1>4. /\ \A y \in Procs \ {x} : proc'[y] = proc[y]
      /\ proc'[x].pc = "offer" /\ proc'[x].user = w /\ proc'[x].peer = proc[x].peer
      /\ proc'[x].subs = proc[x].subs \ {s}
    BY <1>1, <1>2, <1>3 DEF Proc
<1>5. UNCHANGED <<peers, tracks, crossed, life, described>>
    BY DEF Each, room, conn
<1>6. \A q \in Peers, u \in Users : q # s \/ u # w => senders'[q][u] = senders[q][u]
    <2>1. CASE x \notin TrackProcs
        BY <1>2, <1>3, <2>1
    <2>2. CASE x \in TrackProcs
        BY <1>2, <1>3, <2>2
    <2> QED BY <2>1, <2>2
<1>7. /\ x \notin TrackProcs => senders'[s][w] = None
      /\ x \in TrackProcs /\ life[s] = "open" /\ senders[s][w] = None => senders'[s][w] = proc[x].peer
      /\ x \in TrackProcs /\ senders[s][w] # None => senders'[s][w] = senders[s][w]
    <2>1. CASE x \notin TrackProcs
        BY <1>2, <1>3, <2>1
    <2>2. CASE x \in TrackProcs
        BY <1>2, <1>3, <2>2
    <2> QED BY <2>1, <2>2
<1>8. ASSUME life[s] = "none"
      PROVE  senders' = senders
    <2>1. senders[s] = NoSenders
        BY <1>3, <1>8 DEF HearInv, Hearing, Fresh
    <2>2. senders[s][w] = None
        BY <1>3, <2>1 DEF NoSenders
    <2>3. CASE x \notin TrackProcs
        <3>1. senders' = [senders EXCEPT ![s] = [senders[s] EXCEPT ![w] = None]]
            BY <1>2, <2>3
        <3>2. [senders[s] EXCEPT ![w] = None] = senders[s]
            BY <1>3, <2>2
        <3> QED BY <1>3, <3>1, <3>2
    <2>4. CASE x \in TrackProcs
        BY <1>2, <1>8, <2>4
    <2> QED BY <2>3, <2>4
<1>9. \A q \in Peers : life[q] = "none" => senders'[q] = senders[q]
    <2> SUFFICES ASSUME NEW q \in Peers, life[q] = "none" PROVE senders'[q] = senders[q]
        OBVIOUS
    <2>1. CASE q = s
        BY <1>8, <2>1
    <2>2. CASE q # s
        <3>1. CASE x \notin TrackProcs
            BY <1>2, <1>3, <2>2, <3>1
        <3>2. CASE x \in TrackProcs
            BY <1>2, <1>3, <2>2, <3>2
        <3> QED BY <3>1, <3>2
    <2> QED BY <2>1, <2>2
<1>10. Hears(s, w)'
    <2> SUFFICES ASSUME peers[UserOf[s]] = s, w # UserOf[s], w \notin crossed
                 PROVE  Right(s, w)'
        BY <1>5 DEF Hears
    <2>1. Roams(x, w) /\ life[s] = "open"
        <3>1. UserOf[s] \in Users /\ s # None
            BY <1>3, VoiceAssumption
        <3> QED BY <1>1, <1>3, <3>1 DEF Roams, HearInv, Hearing, Listed
    <2>2. /\ \A y \in Procs : Roams(y, w) => y = x
          /\ tracks[w] = IF x \in TrackProcs THEN proc[x].peer ELSE None
        BY <1>3, <2>1 DEF HearInv, Hearing, OneRoams
    <2>3. CASE x \notin TrackProcs
        BY <1>5, <1>7, <2>2, <2>3 DEF Right
    <2>4. CASE x \in TrackProcs /\ senders[s][w] = None
        BY <1>5, <1>7, <2>1, <2>2, <2>4 DEF Right
    <2>5. CASE x \in TrackProcs /\ senders[s][w] # None
        <3>1. Right(s, w)
            BY <1>3 DEF HearInv, Hearing, Hears
        <3>2. senders[s][w] = tracks[w] \/ Leaving(s)
            BY <2>2, <2>5, <3>1 DEF Right, Todo
        <3>3. Leaving(s) => Leaving(s)'
            BY <1>3, <1>4 DEF Leaving
        <3> QED BY <1>5, <1>7, <2>5, <3>2, <3>3 DEF Right
    <2> QED BY <2>3, <2>4, <2>5
<1>11. \A u \in Users : Roams(x, u)' => Roams(x, u) /\ proc'[x].peer = proc[x].peer
    BY <1>1, <1>3, <1>4 DEF Roams
<1>12. ASSUME NEW q \in Peers, NEW u \in Users
       PROVE  \/ Hears(q, u)'
              \/ senders'[q][u] = senders[q][u] /\ (Todo(x, q, u) => Todo(x, q, u)')
    <2>1. CASE q = s /\ u = w
        BY <1>10, <2>1
    <2>2. CASE q # s \/ u # w
        BY <1>1, <1>4, <1>6, <2>2 DEF Todo, Roams
    <2> QED BY <2>1, <2>2
<1> QED BY <1>3, <1>4, <1>5, <1>9, <1>11, <1>12, GoesKeeps

\* A newcomer is given what there is; what it has of it already is right.
LEMMA NegotiateHears == ASSUME HearInv, NEW x \in Procs, Negotiate(x) PROVE Hearing'
<1>1. PICK p : p = proc[x].peer
    OBVIOUS
<1>2. /\ proc[x].pc = "negotiate" /\ p \in Peers /\ UserOf[p] = proc[x].user
      /\ proc[x] \in Proc /\ proc \in [Procs -> Proc]
      /\ senders \in [Peers -> [Users -> Peers \cup {None}]]
    BY <1>1 DEF Negotiate, HearInv, Hearing, Errands, IInv, TypeOK, ProcOK
<1>3. x \notin TrackProcs
    BY <1>2 DEF HearInv, Hearing, Errands
<1>4. UNCHANGED <<peers, tracks, crossed, life>>
    BY DEF Negotiate, room
<1>5. /\ \A y \in Procs \ {x} : proc'[y] = proc[y]
      /\ \/ proc'[x].pc \in {"idle", "done"}
         \/ proc'[x].pc = "leave" /\ proc'[x].user = proc[x].user
    <2>1. CASE End(x)
        BY <2>1, EndFrame
    <2>2. CASE proc' = [proc EXCEPT ![x].pc = "leave"]
        BY <1>2, <2>2 DEF Proc
    <2> QED BY <2>1, <2>2 DEF Negotiate
<1>6. \A q \in Peers \ {p} : senders'[q] = senders[q]
    BY <1>1, <1>2 DEF Negotiate
<1>7. \A q \in Peers : life[q] = "none" => senders'[q] = senders[q] /\ described'[q] = described[q]
    BY <1>1, <1>2 DEF Negotiate, HearInv, IInv, TypeOK
<1>8. ASSUME NEW u \in Users PROVE Hears(p, u)'
    <2> SUFFICES ASSUME peers[UserOf[p]] = p, u # UserOf[p], u \notin crossed
                 PROVE  Right(p, u)'
        BY <1>4 DEF Hears
    <2>1. Right(p, u) /\ life[p] = "open"
        <3>1. UserOf[p] \in Users /\ p # None
            BY <1>2, VoiceAssumption
        <3> QED BY <1>2, <3>1 DEF HearInv, Hearing, Hears, Listed
    <2>2. \A y \in Procs : Todo(y, p, u) => Todo(y, p, u)'
        BY <1>2, <1>5 DEF Todo, Roams
    <2>3. Leaving(p) => Leaving(p)'
        BY <1>2, <1>5 DEF Leaving
    <2>4. CASE senders'[p] = Existing(x) /\ proc[x].created = TRUE
        <3>1. senders'[p][u] = IF senders[p][u] = None THEN tracks[u] ELSE senders[p][u]
            BY <1>1, <2>4 DEF Existing, Published
        <3> QED BY <1>4, <2>1, <2>2, <2>3, <3>1 DEF Right
    <2>5. CASE senders'[p] = senders[p] /\ proc[x].created = FALSE
        <3>1. Coming(p) => Coming(p)'
            BY <1>5, <2>5 DEF Coming
        <3> QED BY <1>4, <2>1, <2>2, <2>3, <2>5, <3>1 DEF Right
    <2>6. CASE senders'[p] = senders[p] /\ proc'[x].pc = "leave"
        <3>1. Leaving(p)'
            BY <1>2, <1>5, <2>6 DEF Leaving
        <3> QED BY <3>1 DEF Right
    <2>7. proc[x].created \in BOOLEAN
        BY <1>2 DEF Proc
    <2>8. \/ senders'[p] = Existing(x)
          \/ senders'[p] = senders[p] /\ proc[x].created = FALSE
          \/ senders'[p] = senders[p] /\ proc'[x].pc = "leave"
        BY <1>1, <1>2, <2>1, <2>7 DEF Negotiate, Proc
    <2>9. proc[x].created = FALSE => Existing(x) = senders[p]
        BY <1>1 DEF Existing
    <2> QED BY <2>4, <2>5, <2>6, <2>7, <2>8, <2>9
<1>9. \A u \in Users : ~Roams(x, u)' /\ ~Roams(x, u)
    BY <1>2, <1>5 DEF Roams
<1>10. ASSUME NEW q \in Peers, NEW u \in Users
       PROVE  \/ Hears(q, u)'
              \/ /\ senders'[q][u] = senders[q][u] /\ (Todo(x, q, u) => Todo(x, q, u)')
                 /\ ~(proc[x].pc = "negotiate" /\ proc[x].peer = q)
    BY <1>1, <1>6, <1>8, <1>9 DEF Todo
<1> QED BY <1>2, <1>3, <1>4, <1>5, <1>7, <1>9, <1>10, GoesKeeps

\* A new peer has nothing yet, and HandleOffer is to give it what there is.
LEMMA EnsurePeerHears ==
    ASSUME HearInv, NEW x \in Callers, NEW u \in Users, EnsurePeer(x, u)
    PROVE  Hearing'
<1>1. x \in Procs /\ x \notin TrackProcs /\ None \notin Peers
    BY CallersAreProcs, TracksAreProcs, VoiceAssumption
<1>2. PICK p \in Peers :
        /\ UserOf[p] = u
        /\ \/ peers[u] = p /\ UNCHANGED <<peers, life, crossed>>
           \/ /\ peers[u] = None /\ life[p] = "none"
              /\ peers' = [peers EXCEPT ![u] = p]
              /\ life' = [life EXCEPT ![p] = "open"]
              /\ SetsOut(u)
        /\ proc' = [proc EXCEPT ![x] = [Idle EXCEPT !.pc = "negotiate", !.user = u, !.peer = p,
                                                    !.created = (peers[u] = None)]]
    BY DEF EnsurePeer
<1> DEFINE r == [Idle EXCEPT !.pc = "negotiate", !.user = u, !.peer = p, !.created = (peers[u] = None)]
<1>3. /\ r \in Proc /\ r.user = u /\ r.peer = p /\ r.pc = "negotiate"
      /\ peers[u] = None => r.created = TRUE
    BY DEF Idle, Proc, ProcPC
<1>4. proc' = [proc EXCEPT ![x] = r] /\ proc[x].pc = "idle" /\ proc \in [Procs -> Proc]
    BY <1>2 DEF EnsurePeer, HearInv, IInv, TypeOK
<1> HIDE DEF r
<1>5. UNCHANGED <<tracks, sig, senders, pending, again, described>>
    BY DEF EnsurePeer
<1>6. CASE peers[u] = p /\ UNCHANGED <<peers, life, crossed>>
    <2>1. UNCHANGED <<room, conn, senders, crossed>>
        BY <1>5, <1>6 DEF room, conn
    <2>2. proc[x].pc \in AtRest /\ UserOf[r.peer] = r.user
        BY <1>2, <1>3, <1>4 DEF AtRest
    <2> QED BY <1>1, <1>3, <1>4, <2>1, <2>2, SetOutHears
<1>7. CASE /\ peers[u] = None /\ life[p] = "none"
           /\ peers' = [peers EXCEPT ![u] = p]
           /\ life' = [life EXCEPT ![p] = "open"]
           /\ SetsOut(u)
    <2>1. proc'[x] = r /\ \A y \in Procs \ {x} : proc'[y] = proc[y]
        BY <1>1, <1>4
    <2>2. crossed \subseteq crossed'
        BY <1>7 DEF SetsOut
    <2>3. peers'[u] = p /\ life'[p] = "open" /\ (\A v \in Users \ {u} : peers'[v] = peers[v])
          /\ \A q \in Peers \ {p} : life'[q] = life[q]
        BY <1>7 DEF HearInv, IInv, TypeOK
    <2>4. Errands'
        <3>1. Errands
            BY DEF HearInv, Hearing
        <3> QED BY <1>1, <1>2, <1>3, <2>1, <3>1, TracksAreProcs DEF Errands
    <2>5. Listed'
        BY <1>2, <1>7, <2>3 DEF HearInv, Hearing, Listed, IInv, TypeOK
    <2>6. Closing'
        <3> SUFFICES ASSUME NEW y \in Procs, proc'[y].pc = "close"
                     PROVE  /\ proc'[y].peer \in Peers /\ peers'[UserOf[proc'[y].peer]] # proc'[y].peer
                            /\ life'[proc'[y].peer] # "none"
            BY DEF Closing
        <3>1. proc'[y] = proc[y]
            BY <1>3, <2>1
        <3>2. PICK q \in Peers : q = proc[y].peer /\ peers[UserOf[q]] # q /\ life[q] # "none"
            BY <3>1 DEF HearInv, Hearing, Closing
        <3>3. q # p /\ UserOf[q] \in Users
            BY <1>7, <3>2, VoiceAssumption
        <3> QED BY <2>3, <3>1, <3>2, <3>3
    <2>7. Fresh'
        BY <1>5, <2>3 DEF HearInv, Hearing, Fresh
    <2>8. \A y \in Procs : \A v : Roams(y, v)' => Roams(y, v) /\ proc'[y].peer = proc[y].peer
        BY <1>3, <2>1 DEF Roams
    <2>9. OneRoams'
        BY <1>5, <2>2, <2>8 DEF HearInv, Hearing, OneRoams
    <2>10. ASSUME NEW s \in Peers, NEW v \in Users PROVE Hears(s, v)'
        <3> SUFFICES ASSUME peers'[UserOf[s]] = s, v # UserOf[s], v \notin crossed'
                     PROVE  Right(s, v)'
            BY DEF Hears
        <3>1. CASE s = p
            <4>1. senders[p] = NoSenders
                BY <1>7 DEF HearInv, Hearing, Fresh
            <4>2. senders'[p][v] = None
                BY <1>5, <4>1 DEF NoSenders
            <4>3. Coming(p)'
                BY <1>1, <1>3, <1>7, <2>1 DEF Coming
            <4> QED BY <3>1, <4>2, <4>3 DEF Right
        <3>2. CASE s # p
            <4>1. UserOf[s] # u /\ UserOf[s] \in Users
                BY <2>3, <3>2, VoiceAssumption
            <4>2. Right(s, v)
                BY <2>2, <2>3, <4>1 DEF HearInv, Hearing, Hears
            <4>3. \A y \in Procs : Todo(y, s, v) => Todo(y, s, v)'
                BY <1>4, <2>1 DEF Todo, Roams
            <4>4. Leaving(s) => Leaving(s)'
                BY <1>4, <2>1 DEF Leaving
            <4>5. Coming(s) => Coming(s)'
                BY <1>4, <2>1 DEF Coming
            <4> QED BY <1>5, <4>2, <4>3, <4>4, <4>5 DEF Right
        <3> QED BY <3>1, <3>2
    <2> QED BY <2>4, <2>5, <2>6, <2>7, <2>9, <2>10 DEF Hearing
<1> QED BY <1>2, <1>6, <1>7

\* A goroutine that sets out for a user meets no other of the user, unless they
\* have crossed.
LEMMA SetsOutFirst ==
    ASSUME HearInv, NEW w \in Users, SetsOut(w)
    PROVE  /\ crossed \subseteq crossed' /\ crossed' \subseteq crossed \cup {w}
           /\ w \notin crossed' => \A y \in Procs : ~Roams(y, w)
BY DEF SetsOut, Roams

\* Setting out to go round for user w, with everybody else in the room to treat.
LEMMA SetOutRound ==
    ASSUME HearInv, NEW x \in Procs, NEW w \in Users, SetsOut(w),
           \A y \in Procs \ {x} : proc'[y] = proc[y],
           proc[x].pc \in {"leave", "publish"},
           proc[x].pc = "leave" => x \notin TrackProcs /\ proc[x].user = w /\ peers'[w] = None,
           Roams(x, w)' \/ proc'[x].pc \in {"idle", "done"},
           Roams(x, w)' => proc'[x].subs = Others(w)
                           /\ tracks'[w] = IF x \in TrackProcs THEN proc'[x].peer ELSE None,
           ~Roams(x, w)' => Others(w) = {},
           proc'[x].pc = "close" => x \notin TrackProcs /\ proc'[x].peer = peers[w] /\ peers[w] # None
                                    /\ peers'[w] = None,
           \A v \in Users \ {w} : peers'[v] = peers[v] /\ tracks'[v] = tracks[v],
           peers'[w] \in {peers[w], None},
           tracks[w] # tracks'[w] /\ x \in TrackProcs => tracks[w] = None,
           UNCHANGED <<conn, senders>>
    PROVE  Hearing'
<1>1. UNCHANGED <<life, senders, described>>
    BY DEF conn
<1>2. /\ crossed \subseteq crossed'
      /\ w \notin crossed' => \A y \in Procs : ~Roams(y, w)
    BY SetsOutFirst
<1>3. proc'[x].pc \in {"close", "each", "offer", "idle", "done"}
    BY DEF Roams
<1>4. Errands'
    <2>1. Errands
        BY DEF HearInv, Hearing
    <2> QED BY <1>3, <2>1, TracksAreProcs DEF Errands
<1>5. None \notin Peers /\ peers \in [Users -> Peers \cup {None}] /\ UserOf \in [Peers -> Users]
    BY VoiceAssumption DEF HearInv, IInv, TypeOK
<1>6. Listed'
    BY <1>1, <1>5 DEF HearInv, Hearing, Listed
<1>7. Closing'
    <2> SUFFICES ASSUME NEW y \in Procs, proc'[y].pc = "close"
                 PROVE  /\ proc'[y].peer \in Peers /\ peers'[UserOf[proc'[y].peer]] # proc'[y].peer
                        /\ life'[proc'[y].peer] # "none"
        BY DEF Closing
    <2>1. CASE y = x
        BY <1>1, <1>5, <2>1 DEF HearInv, Hearing, Listed
    <2>2. CASE y # x
        <3>1. PICK q \in Peers : q = proc[y].peer /\ peers[UserOf[q]] # q /\ life[q] # "none"
            BY <2>2 DEF HearInv, Hearing, Closing
        <3> QED BY <1>1, <1>5, <2>2, <3>1
    <2> QED BY <2>1, <2>2
<1>8. Fresh'
    BY <1>1 DEF HearInv, Hearing, Fresh
<1>9. \A y \in Procs \ {x} : \A v : Roams(y, v)' <=> Roams(y, v)
    BY DEF Roams
<1>10. \A v \in Users : Roams(x, v)' => v = w
    BY <1>3 DEF Roams
<1>11. OneRoams'
    <2> SUFFICES ASSUME NEW v \in Users \ crossed'
                 PROVE  /\ \A y, z \in Procs : Roams(y, v)' /\ Roams(z, v)' => y = z
                        /\ \A y \in Procs :
                              Roams(y, v)' => tracks'[v] = IF y \in TrackProcs THEN proc'[y].peer ELSE None
        BY DEF OneRoams
    <2>1. CASE v = w
        BY <1>2, <1>9, <2>1
    <2>2. CASE v # w
        <3>1. v \notin crossed /\ tracks'[v] = tracks[v] /\ ~Roams(x, v)'
            BY <1>2, <1>10, <2>2
        <3>2. /\ \A y, z \in Procs : Roams(y, v) /\ Roams(z, v) => y = z
              /\ \A y \in Procs :
                    Roams(y, v) => tracks[v] = IF y \in TrackProcs THEN proc[y].peer ELSE None
            BY <3>1 DEF HearInv, Hearing, OneRoams
        <3> QED BY <1>9, <3>1, <3>2
    <2> QED BY <2>1, <2>2
<1>12. ASSUME NEW s \in Peers, NEW v \in Users PROVE Hears(s, v)'
    <2> SUFFICES ASSUME peers'[UserOf[s]] = s, v # UserOf[s], v \notin crossed'
                 PROVE  Right(s, v)'
        BY DEF Hears
    <2>1. peers[UserOf[s]] = s
        BY <1>5
    <2>2. Right(s, v)
        BY <1>2, <2>1 DEF HearInv, Hearing, Hears
    <2>3. Leaving(s) => Leaving(s)'
        <3>1. ~(proc[x].pc = "leave" /\ proc[x].user = UserOf[s])
            BY <1>5
        <3> QED BY <3>1 DEF Leaving
    <2>4. Coming(s) => Coming(s)'
        BY DEF Coming
    <2>5. CASE v # w
        <3>1. \A y \in Procs : Todo(y, s, v) => Todo(y, s, v)'
            <4>1. Todo(x, s, v) => FALSE
                BY DEF Todo, Roams
            <4> QED BY <4>1 DEF Todo, Roams
        <3> QED BY <1>1, <2>2, <2>3, <2>4, <2>5, <3>1 DEF Right
    <2>6. CASE v = w
        <3>1. s \in Others(w)
            BY <2>1, <2>6 DEF Others
        <3>2. Todo(x, s, w)'
            BY <3>1 DEF Todo
        <3>3. CASE x \notin TrackProcs
            BY <2>6, <3>2, <3>3 DEF Right
        <3>4. CASE x \in TrackProcs
            <4>1. senders[s][w] = tracks[w] \/ Leaving(s) \/ senders[s][w] = None
                BY <1>2, <2>2, <2>6 DEF Right, Todo
            <4> QED BY <1>1, <2>3, <2>6, <3>2, <3>4, <4>1 DEF Right
        <3> QED BY <3>3, <3>4
    <2> QED BY <2>5, <2>6
<1> QED BY <1>4, <1>6, <1>7, <1>8, <1>11, <1>12 DEF Hearing

LEMMA LeaveRemoveHears == ASSUME HearInv, NEW x \in Procs, LeaveRemove(x) PROVE Hearing'
<1>1. PICK w : w = proc[x].user
    OBVIOUS
<1>2. /\ proc[x].pc = "leave" /\ w \in Users /\ proc[x] \in Proc /\ proc \in [Procs -> Proc]
      /\ peers \in [Users -> Peers \cup {None}] /\ tracks \in [Users -> Peers \cup {None}]
    BY <1>1 DEF LeaveRemove, HearInv, IInv, TypeOK, ProcOK, AtRest
<1>3. x \notin TrackProcs
    BY <1>2 DEF HearInv, Hearing, Errands
<1>4. CASE peers[w] = None
    <2>1. End(x) /\ UNCHANGED <<peers, tracks, life, senders, described, crossed>>
        BY <1>1, <1>4 DEF LeaveRemove, room, conn
    <2>2. (\A y \in Procs \ {x} : proc'[y] = proc[y]) /\ proc'[x].pc \in {"idle", "done"}
        BY <2>1, EndFrame
    <2>3. \A u \in Users : ~Roams(x, u)' /\ ~Roams(x, u)
        BY <1>2, <2>2 DEF Roams
    <2> QED BY <1>1, <1>2, <1>3, <1>4, <2>1, <2>2, <2>3, GoesKeeps DEF Todo
<1>5. CASE peers[w] # None
    <2>1. /\ peers' = [peers EXCEPT ![w] = None] /\ tracks' = [tracks EXCEPT ![w] = None]
          /\ SetsOut(w) /\ UNCHANGED <<conn, senders>>
          /\ proc' = [proc EXCEPT ![x].pc = "close", ![x].peer = peers[w], ![x].subs = Others(w)]
        BY <1>1, <1>5 DEF LeaveRemove, Unlisted
    <2>2. /\ \A y \in Procs \ {x} : proc'[y] = proc[y]
          /\ proc'[x].pc = "close" /\ proc'[x].user = w /\ proc'[x].peer = peers[w]
          /\ proc'[x].subs = Others(w)
        BY <1>1, <1>2, <2>1 DEF Proc
    <2>3. peers'[w] = None /\ tracks'[w] = None
          /\ \A v \in Users \ {w} : peers'[v] = peers[v] /\ tracks'[v] = tracks[v]
        BY <1>2, <2>1
    <2>4. Roams(x, w)'
        BY <2>2 DEF Roams
    <2> QED BY <1>1, <1>2, <1>3, <1>5, <2>1, <2>2, <2>3, <2>4, SetOutRound
<1> QED BY <1>4, <1>5

LEMMA PublishHears == ASSUME HearInv, NEW p \in Peers, Publish(p) PROVE Hearing'
<1>1. PICK x \in Procs : x = <<p, "track">>
    BY CallersAreProcs
<1>2. PICK w \in Users : w = UserOf[p]
    BY VoiceAssumption
<1>3. /\ proc[x].pc = "publish" /\ x \in TrackProcs /\ x[1] = p
      /\ UNCHANGED <<peers, conn, senders>>
    BY <1>1 DEF Publish, TrackProcs
<1>4. proc[x].peer = p /\ proc[x].user = w
    BY <1>2, <1>3 DEF HearInv, Hearing, Errands
<1>5. CASE ~IsCurrent(p)
    <2>1. End(x) /\ UNCHANGED <<peers, tracks, life, senders, described, crossed>>
        BY <1>1, <1>5 DEF Publish, conn
    <2>2. (\A y \in Procs \ {x} : proc'[y] = proc[y]) /\ proc'[x].pc \in {"idle", "done"}
        BY <2>1, EndFrame
    <2>3. \A u \in Users : ~Roams(x, u)' /\ ~Roams(x, u)
        BY <1>3, <2>2 DEF Roams
    <2> QED BY <1>3, <2>1, <2>2, <2>3, GoesKeeps DEF Todo
<1>6. CASE IsCurrent(p)
    <2>1. tracks' = [tracks EXCEPT ![w] = p] /\ SetsOut(w) /\ Loop(x, Others(w)) /\ peers[w] = p
        BY <1>1, <1>2, <1>6 DEF Publish, IsCurrent
    <2>2. Others(w) \in SUBSET Peers
        BY DEF Others
    <2>3. /\ \A y \in Procs \ {x} : proc'[y] = proc[y]
          /\ \/ Others(w) = {} /\ proc'[x].pc \in {"idle", "done"}
             \/ /\ proc'[x].pc = "each" /\ proc'[x].subs = Others(w)
                /\ proc'[x].user = w /\ proc'[x].peer = p
        BY <1>4, <2>1, <2>2, LoopFrame
    <2>4. tracks'[w] = p /\ \A v \in Users \ {w} : tracks'[v] = tracks[v]
        BY <2>1 DEF HearInv, IInv, TypeOK
    <2>5. tracks[w] \in {None, p}
        BY <2>1 DEF HearInv, IInv, TracksArePublished
    <2>6. /\ Roams(x, w)' \/ proc'[x].pc \in {"idle", "done"}
          /\ Roams(x, w)' => proc'[x].subs = Others(w)
                             /\ tracks'[w] = IF x \in TrackProcs THEN proc'[x].peer ELSE None
          /\ ~Roams(x, w)' => Others(w) = {}
          /\ proc'[x].pc # "close" /\ proc[x].pc # "leave"
        BY <1>3, <2>3, <2>4 DEF Roams
    <2> QED BY <1>3, <2>1, <2>3, <2>4, <2>5, <2>6, SetOutRound
<1> QED BY <1>5, <1>6

LEMMA HearInit == Init => HearInv
<1> SUFFICES ASSUME Init PROVE Hearing
    BY InitOK DEF HearInv
<1>1. \A x \in Procs : proc[x].pc \in {"idle", "ready"}
    BY DEF Init, Idle
<1>2. \A u \in Users : peers[u] = None
    BY DEF Init
<1>3. Errands
    BY <1>1, TracksAreProcs DEF Errands
<1>4. Listed /\ Closing
    BY <1>1, <1>2 DEF Listed, Closing
<1>5. Fresh
    BY DEF Init, Fresh
<1>6. OneRoams
    BY <1>1 DEF OneRoams, Roams
<1>7. \A s \in Peers, u \in Users : Hears(s, u)
    BY <1>2, VoiceAssumption DEF Hears
<1> QED BY <1>3, <1>4, <1>5, <1>6, <1>7 DEF Hearing

LEMMA HearNext == HearInv /\ [Next]_vars => HearInv'
<1> SUFFICES ASSUME HearInv, [Next]_vars PROVE Hearing'
    BY NextOK DEF HearInv
<1>1. CASE \E x \in Callers, u \in Users : EnsurePeer(x, u) \/ Leave(x, u) \/ HandleAnswer(x, u)
    BY <1>1, EnsurePeerHears, LeaveHears, HandleAnswerHears
<1>2. CASE \E x \in Procs : Step(x)
    BY <1>2, NegotiateHears, LeaveRemoveHears, LeaveCloseHears, EachHears, OfferHears DEF Step
<1>3. CASE \E p \in Peers : Again(p) \/ OnTrack(p) \/ Publish(p)
    BY <1>3, AgainHears, OnTrackHears, PublishHears
<1>4. CASE \E p \in Peers : StateChange(p, "failed") \/ StateChange(p, "closed")
    BY <1>4, StateChangeHears
<1>5. CASE UNCHANGED vars
    BY <1>5, SignalKeeps DEF vars, room, conn
<1> QED BY <1>1, <1>2, <1>3, <1>4, <1>5 DEF Next

\* No snapshot misses anybody: whoever was in the room when a track came or went
\* is in forwardAudio's or Leave's snapshot, and whoever comes later is given what
\* is listed (engine.go:147-149, 254-275, 398-410).
THEOREM NobodyIsMissed == Spec => []EverybodyHearsEverybody
<1>1. HearInv => EverybodyHearsEverybody
    <2> SUFFICES ASSUME HearInv, Quiet, NEW s \in Peers, NEW u \in Users,
                        peers[UserOf[s]] = s, u # UserOf[s], u \notin crossed
                 PROVE  senders[s][u] = tracks[u]
        BY DEF EverybodyHearsEverybody
    <2>1. Right(s, u)
        BY DEF HearInv, Hearing, Hears
    <2>2. ~Leaving(s) /\ ~Coming(s) /\ \A x \in Procs : ~Todo(x, s, u)
        BY DEF Quiet, AtRest, Leaving, Coming, Todo, Roams
    <2> QED BY <2>1, <2>2 DEF Right
<1> QED BY HearInit, HearNext, <1>1, PTL DEF Spec

-----------------------------------------------------------------------------
(* Changes are offered. *)

\* An open peer that has not been told of all it is sent: an offer to it is on its
\* way, or noted until the answer comes, or it can be made none any more.
Owed(p) ==
    life[p] = "open" /\ described[p] \notin {senders[p], NotYet} =>
    \/ p \in again
    \/ \E x \in Procs : proc[x].pc = "offer" /\ proc[x].cur = p
    \/ sig[p] = "have-local-offer" /\ pending[p] = TRUE
    \/ sig[p] = "have-remote-offer"

OfferInv == HearInv /\ \A p \in Peers : Owed(p)

\* Nothing happens to a peer but that goroutines go about.
LEMMA OwedKept ==
    ASSUME NEW p \in Peers, Owed(p), life'[p] = "open" => life[p] = "open",
           senders'[p] = senders[p], described'[p] = described[p], sig'[p] = sig[p],
           pending'[p] = pending[p], p \in again => p \in again',
           \A x \in Procs : proc[x].pc = "offer" /\ proc[x].cur = p =>
              proc'[x].pc = "offer" /\ proc'[x].cur = p
    PROVE  Owed(p)'
BY DEF Owed

\* After renegotiate, the peer knows, or it is noted.
LEMMA RenegotiateOwes ==
    ASSUME TypeOK, NEW p \in Peers, Renegotiate(p), UNCHANGED <<life, senders>>
    PROVE  Owed(p)'
<1>1. CASE life[p] # "open"
    BY <1>1 DEF Owed
<1>2. CASE life[p] = "open" /\ sig[p] = "stable"
    <2>1. described'[p] = senders[p]
        BY <1>2 DEF Renegotiate, TypeOK
    <2> QED BY <2>1 DEF Owed
<1>3. CASE life[p] = "open" /\ sig[p] # "stable"
    <2>1. pending'[p] = TRUE /\ sig'[p] \in {"have-local-offer", "have-remote-offer"}
        BY <1>3 DEF Renegotiate, TypeOK
    <2> QED BY <2>1 DEF Owed
<1> QED BY <1>1, <1>2, <1>3

LEMMA RenegotiateOthers ==
    ASSUME TypeOK, NEW p, Renegotiate(p), NEW q \in Peers, q # p
    PROVE  sig'[q] = sig[q] /\ pending'[q] = pending[q] /\ described'[q] = described[q]
BY DEF Renegotiate, TypeOK

LEMMA OfferOwes ==
    ASSUME OfferInv, NEW x \in Procs, Offer(x), NEW p \in Peers
    PROVE  Owed(p)'
<1>1. HearInv /\ TypeOK /\ Owed(p)
    BY DEF OfferInv, HearInv, IInv
<1>2. /\ Renegotiate(proc[x].cur) /\ Loop(x, proc[x].subs)
      /\ UNCHANGED <<life, again, senders>>
    BY DEF Offer
<1>3. CASE proc[x].cur = p
    BY <1>1, <1>2, <1>3, RenegotiateOwes
<1>4. CASE proc[x].cur # p
    <2>1. proc[x].subs \in SUBSET Peers
        BY <1>1 DEF TypeOK, Proc
    <2>2. \A y \in Procs \ {x} : proc'[y] = proc[y]
        BY <1>1, <1>2, <2>1, LoopFrame
    <2> QED BY <1>1, <1>2, <1>4, <2>2, RenegotiateOthers, OwedKept
<1> QED BY <1>3, <1>4

LEMMA AgainOwes ==
    ASSUME OfferInv, NEW q \in Peers, Again(q), NEW p \in Peers
    PROVE  Owed(p)'
<1>1. TypeOK /\ Owed(p)
    BY DEF OfferInv, HearInv, IInv
<1>2. Renegotiate(q) /\ UNCHANGED <<life, senders, proc>> /\ again' = again \ {q}
    BY DEF Again
<1>3. CASE q = p
    BY <1>1, <1>2, <1>3, RenegotiateOwes
<1>4. CASE q # p
    BY <1>1, <1>2, <1>4, RenegotiateOthers, OwedKept
<1> QED BY <1>3, <1>4

LEMMA HandleAnswerOwes ==
    ASSUME OfferInv, NEW x \in Callers, NEW u \in Users, HandleAnswer(x, u), NEW p \in Peers
    PROVE  Owed(p)'
<1>1. TypeOK /\ Owed(p)
    BY DEF OfferInv, HearInv, IInv
<1>2. PICK q : q = peers[u]
    OBVIOUS
<1>3. /\ sig[q] = "have-local-offer" /\ sig' = [sig EXCEPT ![q] = "stable"]
      /\ pending' = [pending EXCEPT ![q] = FALSE]
      /\ again' = IF pending[q] THEN again \cup {q} ELSE again
      /\ UNCHANGED <<life, described, senders, proc>>
    BY <1>2 DEF HandleAnswer
<1>4. CASE q = p
    <2>1. pending[p] = TRUE => p \in again'
        BY <1>3, <1>4
    <2>2. again \subseteq again'
        BY <1>3
    <2> QED BY <1>1, <1>3, <1>4, <2>1, <2>2 DEF Owed
<1>5. CASE q # p
    <2>1. sig'[p] = sig[p] /\ pending'[p] = pending[p] /\ again \subseteq again'
        BY <1>1, <1>3, <1>5 DEF TypeOK
    <2> QED BY <1>1, <1>3, <2>1, OwedKept
<1> QED BY <1>4, <1>5

\* A sender that changes is followed by an offer.
LEMMA EachOwes ==
    ASSUME OfferInv, NEW x \in Procs, Each(x), NEW p \in Peers
    PROVE  Owed(p)'
<1>1. TypeOK /\ Owed(p) /\ proc[x].pc = "each"
    BY DEF OfferInv, HearInv, IInv, Each
<1>2. PICK w : w = proc[x].user
    OBVIOUS
<1>3. PICK s \in proc[x].subs :
        /\ senders' = CASE x \notin TrackProcs -> [senders EXCEPT ![s][w] = None]
                        [] x \in TrackProcs /\ life[s] = "open" /\ senders[s][w] = None
                              -> [senders EXCEPT ![s][w] = proc[x].peer]
                        [] OTHER -> senders
        /\ proc' = [proc EXCEPT ![x].pc = "offer", ![x].cur = s, ![x].subs = @ \ {s}]
    BY <1>2 DEF Each, TrackProcs
<1>4. UNCHANGED <<life, sig, pending, again, described>>
    BY DEF Each, conn
<1>5. proc'[x].pc = "offer" /\ proc'[x].cur = s /\ \A y \in Procs \ {x} : proc'[y] = proc[y]
    BY <1>1, <1>3 DEF TypeOK, Proc
<1>6. CASE s = p
    BY <1>5, <1>6 DEF Owed
<1>7. CASE s # p
    <2>1. CASE x \notin TrackProcs
        <3>1. senders'[p] = senders[p]
            BY <1>1, <1>3, <1>7, <2>1 DEF TypeOK
        <3> QED BY <1>1, <1>4, <1>5, <3>1, OwedKept
    <2>2. CASE x \in TrackProcs
        <3>1. senders'[p] = senders[p]
            BY <1>1, <1>3, <1>7, <2>2 DEF TypeOK
        <3> QED BY <1>1, <1>4, <1>5, <3>1, OwedKept
    <2> QED BY <2>1, <2>2
<1> QED BY <1>6, <1>7

LEMMA NegotiateOwes ==
    ASSUME OfferInv, NEW x \in Procs, Negotiate(x), NEW p \in Peers
    PROVE  Owed(p)'
<1>1. HearInv /\ TypeOK /\ Owed(p) /\ proc[x].pc = "negotiate"
    BY DEF OfferInv, HearInv, IInv, Negotiate
<1>2. PICK q : q = proc[x].peer
    OBVIOUS
<1>3. UNCHANGED <<life, pending, again>>
    BY DEF Negotiate
<1>4. \A y \in Procs \ {x} : proc'[y] = proc[y]
    BY <1>1 DEF Negotiate, End, TypeOK
<1>5. CASE /\ q = p /\ senders' = [senders EXCEPT ![q] = Existing(x)]
           /\ \/ described' = [described EXCEPT ![q] = Existing(x)]
              \/ sig' = [sig EXCEPT ![q] = "have-remote-offer"]
    <2>1. senders'[p] = Existing(x)
        BY <1>1, <1>5 DEF TypeOK
    <2>2. described'[p] = Existing(x) \/ sig'[p] = "have-remote-offer"
        BY <1>1, <1>5 DEF TypeOK
    <2> QED BY <2>1, <2>2 DEF Owed
<1>6. CASE q # p \/ UNCHANGED <<senders, sig, described>>
    <2>1. senders'[p] = senders[p] /\ sig'[p] = sig[p] /\ described'[p] = described[p]
        BY <1>1, <1>2, <1>6 DEF Negotiate, TypeOK
    <2> QED BY <1>1, <1>3, <1>4, <2>1, OwedKept
<1> QED BY <1>2, <1>5, <1>6 DEF Negotiate

LEMMA LeaveCloseOwes ==
    ASSUME OfferInv, NEW x \in Procs, LeaveClose(x), NEW p \in Peers
    PROVE  Owed(p)'
<1>1. HearInv /\ TypeOK /\ Owed(p) /\ proc[x].pc = "close"
    BY DEF OfferInv, HearInv, IInv, LeaveClose
<1>2. CASE proc[x].peer = p
    <2>1. life'[p] = "closed"
        BY <1>1, <1>2 DEF LeaveClose, TypeOK
    <2> QED BY <2>1 DEF Owed
<1>3. CASE proc[x].peer # p
    <2>1. proc[x].subs \in SUBSET Peers /\ Loop(x, proc[x].subs)
        BY <1>1 DEF TypeOK, Proc, LeaveClose
    <2>2. \A y \in Procs \ {x} : proc'[y] = proc[y]
        BY <1>1, <2>1, LoopFrame
    <2>3. /\ life'[p] = life[p] /\ sig'[p] = sig[p] /\ pending'[p] = pending[p] /\ again' = again
          /\ senders'[p] = senders[p] /\ described'[p] = described[p]
        BY <1>1, <1>3 DEF LeaveClose, TypeOK
    <2> QED BY <1>1, <2>2, <2>3, OwedKept
<1> QED BY <1>2, <1>3

\* The others touch no description and no offer; a new peer has nothing yet.
LEMMA QuietOwes ==
    ASSUME OfferInv, NEW x, UNCHANGED <<sig, senders, pending, again, described>>,
           x \in Procs => proc[x].pc # "offer",
           \A y \in Procs \ {x} : proc'[y] = proc[y],
           NEW p \in Peers, life'[p] = life[p] \/ life[p] = "none"
    PROVE  Owed(p)'
<1>1. HearInv /\ Owed(p)
    BY DEF OfferInv
<1>2. CASE life'[p] = life[p]
    BY <1>1, <1>2, OwedKept
<1>3. CASE life[p] = "none"
    <2>1. described[p] = NotYet
        BY <1>1, <1>3 DEF HearInv, Hearing, Fresh
    <2> QED BY <2>1 DEF Owed
<1> QED BY <1>2, <1>3

LEMMA OfferNext == OfferInv /\ [Next]_vars => OfferInv'
<1> SUFFICES ASSUME OfferInv, [Next]_vars, NEW p \in Peers PROVE Owed(p)'
    BY HearNext DEF OfferInv
<1>1. proc \in [Procs -> Proc] /\ life \in [Peers -> {"none", "open", "closed"}]
    BY DEF OfferInv, HearInv, IInv, TypeOK
<1>2. ASSUME NEW x \in Callers, NEW u \in Users, EnsurePeer(x, u) PROVE Owed(p)'
    <2>1. /\ UNCHANGED <<sig, senders, pending, again, described>> /\ proc[x].pc = "idle"
          /\ \A y \in Procs \ {x} : proc'[y] = proc[y]
        BY <1>1, <1>2 DEF EnsurePeer
    <2>2. life'[p] = life[p] \/ life[p] = "none"
        BY <1>1, <1>2 DEF EnsurePeer
    <2> QED BY <2>1, <2>2, QuietOwes
<1>3. ASSUME NEW x \in Callers, NEW u \in Users, Leave(x, u) PROVE Owed(p)'
    <2>1. proc[x].pc = "idle" /\ UNCHANGED <<conn, senders>> /\ \A y \in Procs \ {x} : proc'[y] = proc[y]
        BY <1>1, <1>3 DEF Leave
    <2> QED BY <2>1, QuietOwes DEF conn
<1>4. ASSUME NEW x \in Procs, LeaveRemove(x) PROVE Owed(p)'
    <2>1. proc[x].pc = "leave" /\ UNCHANGED <<conn, senders>> /\ \A y \in Procs \ {x} : proc'[y] = proc[y]
        BY <1>1, <1>4 DEF LeaveRemove, End
    <2> QED BY <2>1, QuietOwes DEF conn
<1>5. CASE \E x \in Procs : Step(x)
    BY <1>4, <1>5, NegotiateOwes, LeaveCloseOwes, EachOwes, OfferOwes DEF Step
<1>6. ASSUME NEW q \in Peers, OnTrack(q) PROVE Owed(p)'
    <2>1. /\ proc[<<q, "track">>].pc = "ready" /\ UNCHANGED <<conn, senders>>
          /\ \A y \in Procs \ {<<q, "track">>} : proc'[y] = proc[y]
        BY <1>1, <1>6 DEF OnTrack
    <2> QED BY <2>1, QuietOwes DEF conn
<1>7. ASSUME NEW q \in Peers, Publish(q) PROVE Owed(p)'
    <2>1. proc[<<q, "track">>].pc = "publish" /\ UNCHANGED <<conn, senders>>
        BY <1>7 DEF Publish
    <2>2. \A y \in Procs \ {<<q, "track">>} : proc'[y] = proc[y]
        BY <1>1, <1>7 DEF Publish, Loop, End
    <2> QED BY <2>1, <2>2, QuietOwes DEF conn
<1>8. ASSUME NEW q \in Peers, NEW state \in {"failed", "closed"}, StateChange(q, state) PROVE Owed(p)'
    <2>1. /\ proc[<<q, state>>].pc = "ready" /\ UNCHANGED <<conn, senders>>
          /\ \A y \in Procs \ {<<q, state>>} : proc'[y] = proc[y]
        BY <1>1, <1>8 DEF StateChange
    <2> QED BY <2>1, QuietOwes DEF conn
<1>9. CASE UNCHANGED vars
    BY <1>9, OwedKept DEF OfferInv, vars, conn
<1> QED BY <1>2, <1>3, <1>5, <1>6, <1>7, <1>8, <1>9, HandleAnswerOwes, AgainOwes DEF Next

\* A change made while an answer is awaited is offered when it comes: once all is
\* quiet, a peer that awaits none knows all it is sent (engine.go:179-184, 484-486).
THEOREM NoChangeIsForgotten == Spec => []ChangesAreOffered
<1>1. Init => OfferInv
    <2> SUFFICES ASSUME Init, NEW p \in Peers PROVE Owed(p)
        BY HearInit DEF OfferInv
    <2> QED BY DEF Init, Owed
<1>2. OfferInv => ChangesAreOffered
    <2> SUFFICES ASSUME OfferInv, Quiet, NEW p \in Peers, life[p] = "open", sig[p] = "stable"
                 PROVE  described[p] \in {senders[p], NotYet}
        BY DEF ChangesAreOffered
    <2>1. Owed(p)
        BY DEF OfferInv
    <2>2. again = {} /\ \A x \in Procs : proc[x].pc # "offer"
        BY DEF Quiet, AtRest
    <2> QED BY <2>1, <2>2 DEF Owed
<1> QED BY <1>1, OfferNext, <1>2, PTL DEF Spec
=============================================================================
