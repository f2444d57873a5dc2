------------------------------- MODULE MCVoice -------------------------------
(* Instances of VoiceEngine for TLC. *)
EXTENDS VoiceEngine, TLC

CONSTANTS u1, u2, p1, p2, p3, c1, c2

\* u1 joins again, u2 does not.
Owner == p1 :> u1 @@ p2 :> u1 @@ p3 :> u2

\* A ReadPump each.
Pumps == c1 :> {u1} @@ c2 :> {u2}

\* u1's first connection fails and u1 joins again, u2 stays or leaves.  One of the
\* offers of u1 may be no good, an offer of u2 may be repeated, or not answered.
FailAndRejoin ==
    ({"offer", "answer"} \X {u1, u2}) \cup
    {<<"fail", p1>>, <<"leave", u2>>, <<"bad offer", u1>>, <<"no answer", u2>>, <<"offer again", u2>>}

\* u1 leaves and joins again.
LeaveAndRejoin == {<<"offer", u1>>, <<"leave", u1>>}
=============================================================================
