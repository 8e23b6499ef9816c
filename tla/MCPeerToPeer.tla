---------------------------- MODULE MCPeerToPeer ----------------------------
(***************************************************************************)
(* Instances of PeerToPeer small enough for TLC.                           *)
(***************************************************************************)
EXTENDS PeerToPeer, TLC

Symmetry == Permutations(In) \cup Permutations(Out)

(* Bound of the safety run: where two outgoing calls overlap, every event  *)
(* happens within the 12 s, so no timer thread has woken yet.              *)
WithinTimeout == \A c \in Calls : timer[c].at \in {"none", "started"}
OneOutgoingCall == Cardinality({c \in Out : pc[c] # "none"}) <= 1
OverlapWithinTimeout == OneOutgoingCall \/ WithinTimeout

(* The timers run: two incoming calls that overlap or follow each other,   *)
(* or two outgoing ones.  The user makes and cancels calls, but leaves     *)
(* incoming ones alone (p2p_talk has those that are taken): then the       *)
(* screen, which only the user's buttons depend on, may as well follow at  *)
(* once.  The voice threads and the GUI thread owe nothing.                *)
Begun(calls) == \E c \in calls : pc[c] # "none"
OneKind == ~(Begun(In) /\ Begun(Out))
LeftAlone == Begun(In) => ~User /\ (screen # clientState => ShowState)
TimersSpec ==
    /\ Init /\ [][Next /\ OneKind' /\ LeftAlone]_vars
    /\ CallFairness /\ TimerFairness

(* The talk run: calls overlap freely and all of it happens within 12 s,   *)
(* so the timer threads do nothing that matters.                           *)
TalkSpec ==
    /\ Init /\ [][Next /\ \A c \in Calls : ~TimerCounts(c)]_vars
    /\ CallFairness /\ VoiceFairness /\ WF_vars(GuiThread)
=============================================================================
