----------------------------- MODULE VoiceEngine -----------------------------
(***************************************************************************)
(* The voice engine (internal/media/voice), for one room: rooms share      *)
(* nothing, and LeaveUser and Close call Leave for each.                   *)
(*                                                                         *)
(* Granularity.  A step is a section under Engine.mu or under peer.mu.     *)
(* HandleOffer takes Engine.mu inside peer.mu, to read the tracks: nothing *)
(* else can touch the peer in between, so it is one step, too.             *)
(*                                                                         *)
(* Processes: Callers are the goroutines that call the engine (a ReadPump  *)
(* for its user, Hub.Run for anybody); and every peer connection has two   *)
(* state callbacks (failed and closed), and OnTrack.  A track is named by  *)
(* the peer that publishes it.                                             *)
(***************************************************************************)
EXTENDS Naturals

CONSTANTS
    Users,
    Peers,          \* *peer pointers, with their peer connections
    UserOf,         \* peer.userID
    Callers,        \* goroutines that call the engine
    Calls,          \* the users each calls it for
    Inputs,         \* bound: which calls and failures there are
    None            \* nil

ASSUME VoiceAssumption ==
    /\ UserOf \in [Peers -> Users]
    /\ Calls \in [Callers -> SUBSET Users]
    /\ None \notin Peers \cup Users
    /\ Callers \cap (Peers \X {"failed", "closed", "track"}) = {}

VARIABLES
    peers,      \* room.peers : user -> peer
    tracks,     \* room.tracks : user -> track
    life,       \* none before newPeerConnection; open; closed (peer.closed)
    sig,        \* SignalingState of the peer connection
    senders,    \* peer.senders : publishing user -> track
    pending,    \* peer.renegotiatePending
    again,      \* peers a "go renegotiate" of HandleAnswer is on its way for
    proc,       \* processes
    described,  \* history: the senders the last description of a peer told of
    crossed     \* history: users for whom a goroutine set out while another was
                \* still going round the subscribers

room  == <<peers, tracks>>
conn  == <<life, sig, pending, again, described>>
vars  == <<room, conn, senders, proc, crossed>>

Callbacks == Peers \X {"failed", "closed", "track"}
Procs     == Callers \cup Callbacks

\* What a goroutine keeps: whom it acts for, on which peer, the snapshot of the
\* subscribers it still has to treat, and the one it is treating.
ProcPC == {"idle", "ready", "negotiate", "leave", "close", "publish", "each", "offer", "done"}
AtRest == {"idle", "ready", "done"}
Proc   == [pc : ProcPC, user : Users \cup {None}, peer : Peers \cup {None},
           created : BOOLEAN, subs : SUBSET Peers, cur : Peers \cup {None}]
Idle   == [pc |-> "idle", user |-> None, peer |-> None, created |-> FALSE,
           subs |-> {}, cur |-> None]

\* Variant of Others: users that have no peer count.
OthersUnchecked(u) == {peers[v] : v \in Users \ {u}}

\* The others in the room.
Others(u) == {p \in Peers : UserOf[p] # u /\ peers[UserOf[p]] = p}

NoSenders  == [u \in Users |-> None]
NotYet     == [u \in Users |-> "nothing described"]
Published(u) == [v \in Users |-> IF v = u THEN None ELSE tracks[v]]

-----------------------------------------------------------------------------
Init ==
    /\ peers     = [u \in Users |-> None]
    /\ tracks    = [u \in Users |-> None]
    /\ life      = [p \in Peers |-> "none"]
    /\ sig       = [p \in Peers |-> "stable"]
    /\ senders   = [p \in Peers |-> NoSenders]
    /\ pending   = [p \in Peers |-> FALSE]
    /\ again     = {}
    /\ proc      = [x \in Procs |-> IF x \in Callers THEN Idle ELSE [Idle EXCEPT !.pc = "ready"]]
    /\ described = [p \in Peers |-> NotYet]
    /\ crossed     = {}

SetsOut(u) ==
    crossed' = IF \E y \in Procs : proc[y].user = u /\ proc[y].pc \in {"close", "each", "offer"}
               THEN crossed \cup {u} ELSE crossed

End(x) == proc' = [proc EXCEPT ![x] = [Idle EXCEPT !.pc = IF x \in Callers THEN "idle" ELSE "done"]]

-----------------------------------------------------------------------------
(* HandleOffer *)

\* ensurePeer looks for the peer, makes a peer connection if there is none, and
\* looks again when it inserts it: what counts is the last look.
EnsurePeer(x, u) ==
    /\ proc[x].pc = "idle" /\ u \in Calls[x] /\ <<"offer", u>> \in Inputs
    /\ \E p \in Peers :
        /\ UserOf[p] = u
        /\ \/ /\ peers[u] = p /\ <<"offer again", u>> \in Inputs
              /\ UNCHANGED <<peers, life, crossed>>
           \/ /\ peers[u] = None /\ life[p] = "none"
              /\ peers' = [peers EXCEPT ![u] = p]
              /\ life' = [life EXCEPT ![p] = "open"]
              /\ SetsOut(u)
        /\ proc' = [proc EXCEPT ![x] = [Idle EXCEPT !.pc = "negotiate", !.user = u, !.peer = p,
                                                    !.created = (peers[u] = None)]]
    /\ UNCHANGED <<tracks, sig, senders, pending, again, described>>

\* Variant of Existing: a new peer is not given the tracks that are there.
ExistingNone(x) == senders[proc[x].peer]

\* addExistingTracks: a new peer gets the tracks it has no sender for.
Existing(x) ==
    LET p == proc[x].peer IN
    IF proc[x].created
    THEN [u \in Users |-> IF senders[p][u] = None THEN Published(UserOf[p])[u] ELSE senders[p][u]]
    ELSE senders[p]

\* The offer is applied and answered, unless the peer is closed, has an offer of
\* the server outstanding, or the description is no good.
Negotiate(x) ==
    LET p == proc[x].peer IN
    /\ proc[x].pc = "negotiate"
    /\ \/ /\ life[p] = "open" /\ sig[p] = "stable"
          /\ senders' = [senders EXCEPT ![p] = Existing(x)]
          /\ \/ described' = [described EXCEPT ![p] = Existing(x)] /\ UNCHANGED sig
             \/ /\ <<"no answer", UserOf[p]>> \in Inputs
                /\ sig' = [sig EXCEPT ![p] = "have-remote-offer"]
                /\ UNCHANGED described
          /\ End(x)
       \/ /\ \/ life[p] = "closed" \/ ~proc[x].created
          /\ End(x)
          /\ UNCHANGED <<senders, sig, described>>
       \/ /\ life[p] = "open" /\ proc[x].created
          /\ sig[p] = "stable" => <<"bad offer", UserOf[p]>> \in Inputs
          /\ proc' = [proc EXCEPT ![x].pc = "leave"]
          /\ UNCHANGED <<senders, sig, described>>
    /\ UNCHANGED <<room, life, pending, again, crossed>>

-----------------------------------------------------------------------------
(* Leave *)

Leave(x, u) ==
    /\ proc[x].pc = "idle" /\ u \in Calls[x] /\ <<"leave", u>> \in Inputs
    /\ proc' = [proc EXCEPT ![x] = [Idle EXCEPT !.pc = "leave", !.user = u]]
    /\ UNCHANGED <<room, conn, senders, crossed>>

Unlisted(u) ==
    /\ peers' = [peers EXCEPT ![u] = None]
    /\ tracks' = [tracks EXCEPT ![u] = None]

\* Variant of LeaveRemove: the last one in the room is not closed.
LeaveRemoveLast(x) ==
    LET u == proc[x].user IN
    /\ proc[x].pc = "leave"
    /\ IF peers[u] = None
       THEN End(x) /\ UNCHANGED <<room, crossed>>
       ELSE /\ Unlisted(u)
            /\ SetsOut(u)
            /\ IF Others(u) = {} THEN End(x)
               ELSE proc' = [proc EXCEPT ![x].pc = "close", ![x].peer = peers[u], ![x].subs = Others(u)]
    /\ UNCHANGED <<conn, senders>>

LeaveRemove(x) ==
    LET u == proc[x].user IN
    /\ proc[x].pc = "leave"
    /\ IF peers[u] = None
       THEN End(x) /\ UNCHANGED <<room, crossed>>
       ELSE /\ Unlisted(u)
            /\ SetsOut(u)
            /\ proc' = [proc EXCEPT ![x].pc = "close", ![x].peer = peers[u], ![x].subs = Others(u)]
    /\ UNCHANGED <<conn, senders>>

\* Where a loop over the subscribers goes on.
Loop(x, subs) ==
    IF subs = {} THEN End(x) ELSE proc' = [proc EXCEPT ![x].pc = "each", ![x].subs = subs]

\* What a closed peer still holds is never used again, and forgotten here.
LeaveClose(x) ==
    LET p == proc[x].peer IN
    /\ proc[x].pc = "close"
    /\ life' = [life EXCEPT ![p] = "closed"]
    /\ sig' = [sig EXCEPT ![p] = "stable"]
    /\ pending' = [pending EXCEPT ![p] = FALSE]
    /\ senders' = [senders EXCEPT ![p] = NoSenders]
    /\ described' = [described EXCEPT ![p] = NotYet]
    /\ Loop(x, proc[x].subs)
    /\ UNCHANGED <<room, again, crossed>>

\* The next subscriber: Leave removes the sender it has for the user that left,
\* forwardAudio adds one, unless there is one already.
Each(x) ==
    LET u == proc[x].user IN
    /\ proc[x].pc = "each"
    /\ \E s \in proc[x].subs :
        /\ senders' =
              CASE x \notin Peers \X {"track"} -> [senders EXCEPT ![s][u] = None]
                [] x \in Peers \X {"track"} /\ life[s] = "open" /\ senders[s][u] = None
                                      -> [senders EXCEPT ![s][u] = proc[x].peer]
                [] OTHER              -> senders
        /\ proc' = [proc EXCEPT ![x].pc = "offer", ![x].cur = s, ![x].subs = @ \ {s}]
    /\ UNCHANGED <<room, conn, crossed>>

-----------------------------------------------------------------------------
(* Renegotiation *)

\* Variant of Renegotiate: a peer that is waiting for an answer is skipped.
RenegotiateOnce(p) ==
    /\ IF life[p] = "open" /\ sig[p] = "stable"
       THEN /\ sig' = [sig EXCEPT ![p] = "have-local-offer"]
            /\ described' = [described EXCEPT ![p] = senders[p]]
       ELSE UNCHANGED <<sig, described>>
    /\ UNCHANGED pending

\* An offer of what the peer has to send, or a note to make one later.
Renegotiate(p) ==
    IF life[p] # "open"
    THEN UNCHANGED <<sig, described, pending>>
    ELSE IF sig[p] = "stable"
         THEN /\ sig' = [sig EXCEPT ![p] = "have-local-offer"]
              /\ described' = [described EXCEPT ![p] = senders[p]]
              /\ UNCHANGED pending
         ELSE /\ pending' = [pending EXCEPT ![p] = TRUE]
              /\ UNCHANGED <<sig, described>>

Offer(x) ==
    /\ proc[x].pc = "offer"
    /\ Renegotiate(proc[x].cur)
    /\ Loop(x, proc[x].subs)
    /\ UNCHANGED <<room, life, again, senders, crossed>>

\* HandleAnswer: an answer that fits no offer is refused.
HandleAnswer(x, u) ==
    LET p == peers[u] IN
    /\ proc[x].pc = "idle" /\ u \in Calls[x] /\ <<"answer", u>> \in Inputs
    /\ p # None
    /\ life[p] = "open" /\ sig[p] = "have-local-offer"
    /\ sig' = [sig EXCEPT ![p] = "stable"]
    /\ pending' = [pending EXCEPT ![p] = FALSE]
    /\ again' = IF pending[p] THEN again \cup {p} ELSE again
    /\ UNCHANGED <<room, life, described, senders, proc, crossed>>

\* go e.renegotiate(p)
Again(p) ==
    /\ p \in again
    /\ again' = again \ {p}
    /\ Renegotiate(p)
    /\ UNCHANGED <<room, life, senders, proc, crossed>>

-----------------------------------------------------------------------------
(* What the peer connections report. *)

\* The state changes to failed, or to closed after LeaveClose.
StateChange(p, state) ==
    LET x == <<p, state>> IN
    /\ proc[x].pc = "ready"
    /\ state = "failed" => <<"fail", p>> \in Inputs
    /\ life[p] = IF state = "closed" THEN "closed" ELSE "open"
    /\ proc' = [proc EXCEPT ![x] = [Idle EXCEPT !.pc = "leave", !.user = UserOf[p]]]
    /\ UNCHANGED <<room, conn, senders, crossed>>

\* Once offer and answer have been exchanged, the microphone's track arrives.
OnTrack(p) ==
    LET x == <<p, "track">> IN
    /\ proc[x].pc = "ready"
    /\ life[p] = "open" /\ described[p] # NotYet
    /\ proc' = [proc EXCEPT ![x] = [Idle EXCEPT !.pc = "publish", !.user = UserOf[p], !.peer = p]]
    /\ UNCHANGED <<room, conn, senders, crossed>>

\* Variant of IsCurrent: forwardAudio does not look whose track it is.
IsCurrentUnchecked(p) == TRUE

IsCurrent(p) == peers[UserOf[p]] = p

\* forwardAudio: the track is listed, and everybody there is to get it.  The
\* forwarding itself changes nothing.
Publish(p) ==
    LET x == <<p, "track">> IN
    /\ proc[x].pc = "publish"
    /\ IF IsCurrent(p)
       THEN /\ tracks' = [tracks EXCEPT ![UserOf[p]] = p]
            /\ SetsOut(UserOf[p])
            /\ Loop(x, Others(UserOf[p]))
       ELSE End(x) /\ UNCHANGED <<tracks, crossed>>
    /\ UNCHANGED <<peers, conn, senders>>

-----------------------------------------------------------------------------
Step(x) == Negotiate(x) \/ LeaveRemove(x) \/ LeaveClose(x) \/ Each(x) \/ Offer(x)

Next ==
    \/ \E x \in Callers, u \in Users : EnsurePeer(x, u) \/ Leave(x, u) \/ HandleAnswer(x, u)
    \/ \E x \in Procs : Step(x)
    \/ \E p \in Peers :
          \/ Again(p) \/ OnTrack(p) \/ Publish(p)
          \/ StateChange(p, "failed") \/ StateChange(p, "closed")

Spec == Init /\ [][Next]_vars

-----------------------------------------------------------------------------
(* Properties *)

TypeOK ==
    /\ peers \in [Users -> Peers \cup {None}]
    /\ tracks \in [Users -> Peers \cup {None}]
    /\ life \in [Peers -> {"none", "open", "closed"}]
    /\ sig \in [Peers -> {"stable", "have-local-offer", "have-remote-offer"}]
    /\ senders \in [Peers -> [Users -> Peers \cup {None}]]
    /\ pending \in [Peers -> BOOLEAN]
    /\ again \subseteq Peers
    /\ proc \in [Procs -> Proc]
    /\ described \in [Peers -> [Users -> Peers \cup {None}] \cup {NotYet}]
    /\ crossed \subseteq Users

\* Nothing is under way.
Quiet == again = {} /\ \A x \in Procs : proc[x].pc \in AtRest

\* A track is offered to newcomers only while the peer that publishes it is the
\* user's peer in the room: a publisher that left, or was replaced, between
\* OnTrack and forwardAudio's turn leaves none (engine.go:252-253, 394-398).
TracksArePublished == \A u \in Users : tracks[u] # None => tracks[u] = peers[u]

\* A peer connection that is open is in the room, or its Leave is about to close
\* it: none is left running unreachable (engine.go:252-265, 345-350).
OpenPeersAreInRoom ==
    \A p \in Peers :
        life[p] = "open" => \/ peers[UserOf[p]] = p
                            \/ \E x \in Procs : proc[x].pc = "close" /\ proc[x].peer = p

\* When nothing is under way, everybody in the room has a sender for exactly the
\* tracks of the others, whoever came first or left: forwardAudio's snapshot of
\* the peers, a newcomer's snapshot of the tracks and Leave's snapshot miss
\* nobody (engine.go:147-149, 254-275, 398-410).  Except for the tracks of a user
\* whose goroutines have crossed: senders are found by user, so the Leave or
\* the forwardAudio of an old peer may take or fill the new peer's place.
EverybodyHearsEverybody ==
    Quiet => \A s \in Peers, u \in Users :
        peers[UserOf[s]] = s /\ u # UserOf[s] /\ u \notin crossed
        => senders[s][u] = tracks[u]

\* When nothing is under way, a peer that awaits no answer has been told of all
\* it is sent, in an offer or an answer: a change made while an answer is awaited
\* is never forgotten (engine.go:179-184, 484-486).
ChangesAreOffered ==
    Quiet => \A p \in Peers :
        life[p] = "open" /\ sig[p] = "stable" => described[p] \in {senders[p], NotYet}

\* The callbacks of a peer connection remove that peer only: when it is closed,
\* the peer its user has made since stays.
CallbackSparesOthers ==
    [][\A p \in Peers : \A u \in Users :
          peers[u] # p /\ proc[<<p, "closed">>].pc = "leave" /\ proc'[<<p, "closed">>].pc # "leave"
          => peers'[u] = peers[u]]_vars
=============================================================================
