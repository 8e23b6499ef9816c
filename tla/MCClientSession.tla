--------------------------- MODULE MCClientSession --------------------------
(***************************************************************************)
(* Instances of ClientSession small enough for TLC.                        *)
(***************************************************************************)
EXTENDS ClientSession, TLC

CONSTANTS
    Called,     \* the client that others call
    MaxMissed

(* Bound: one call at a time and MaxMissed missed calls, at one client.    *)
NoIncomingCall(cl) == cl = Called /\ callThreads[cl] = {}
FewMissed(cl) == cl = Called /\ Len(missed[cl]) < MaxMissed

BoundedEnvironment(cl) ==
    \/ NoIncomingCall(cl) /\ IncomingCallRings(cl)
    \/ \E thread \in callThreads[cl] : CallEnds(cl, thread)
    \/ FewMissed(cl) /\ \E n \in UserNames : AddMissedCall(cl, n)
    \/ LoseConnection(cl) \/ Crash(cl)

BoundedNext ==
    \/ \E s \in Streams : ServerStep(s)
    \/ \E cl \in Clients :
          GuiGoesOn(cl) \/ ShowState(cl) \/ RefreshView(cl) \/ User(cl) \/ BoundedEnvironment(cl)

BoundedSpec ==
    /\ SessionInit /\ [][BoundedNext]_sessionVars
    /\ \A s \in Streams : WF_sessionVars(ServerStep(s))
    /\ \A cl \in Clients : WF_sessionVars(GuiGoesOn(cl))
=============================================================================
