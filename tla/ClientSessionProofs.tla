------------------------ MODULE ClientSessionProofs -------------------------
(***************************************************************************)
(* Proofs about ClientSession for any sets of clients, streams and names.  *)
(***************************************************************************)
EXTENDS ClientSession, DirectoryProofs, SequenceTheorems

USE ClientsAssumption

-----------------------------------------------------------------------------
(* The clients use the server as Directory assumes.                        *)

(* Whoever waits, or is connected, has a stream.                           *)
WaitsOnStream ==
    /\ mstream \in [Clients -> Streams \cup {Absent}]
    /\ gui \in [Clients -> GuiStates]
    /\ hasConnection \in [Clients -> BOOLEAN]
    /\ \A cl \in Clients : ~GuiIdle(cl) \/ hasConnection[cl] => mstream[cl] \in Streams

LEMMA FreshStream ==
    ASSUME \E s \in Streams : link[s] = "none"
    PROVE  NewStream \in Streams /\ link[NewStream] = "none"
BY DEF NewStream

LEMMA WaitsInit == SessionInit => WaitsOnStream
BY DEF SessionInit, WaitsOnStream, GuiStates, GuiIdle

LEMMA WaitsStep ==
    ASSUME WaitsOnStream, [SessionNext]_sessionVars
    PROVE  WaitsOnStream'
<1> USE DEF WaitsOnStream, GuiStates, GuiIdle, GuiTurns, Connected, Waits, Press
<1>1. CASE UNCHANGED session
  BY <1>1 DEF session
<1>2. ASSUME NEW s \in Streams, ServerStep(s) PROVE WaitsOnStream'
  BY <1>1, <1>2 DEF ServerStep
<1>3. ASSUME NEW cl \in Clients, NEW n \in Names, PressSignIn(cl, n) PROVE WaitsOnStream'
  BY <1>3, FreshStream DEF PressSignIn
<1>4. ASSUME NEW cl \in Clients, NEW n \in Names, PressCall(cl, n) PROVE WaitsOnStream'
  <2>1. CASE BackToAuthorization(cl)
    BY <1>1, <2>1 DEF BackToAuthorization
  <2>2. CASE WriteQuestion(cl, "lookup", [type |-> "GetIpByUserName", name |-> n]) /\ hasConnection[cl]
    BY <2>2 DEF WriteQuestion
  <2> QED BY <1>4, <2>1, <2>2 DEF PressCall
<1>5. ASSUME NEW cl \in Clients, PressRefresh(cl) PROVE WaitsOnStream'
  <2>1. CASE BackToAuthorization(cl)
    BY <1>1, <2>1 DEF BackToAuthorization
  <2>2. CASE /\ WriteQuestion(cl, "listing", [type |-> "GetClientsOnline", name |-> EmptyName])
             /\ hasConnection[cl]
    BY <2>2 DEF WriteQuestion
  <2> QED BY <1>5, <2>1, <2>2 DEF PressRefresh
<1>6. ASSUME NEW cl \in Clients, PressExit(cl) PROVE WaitsOnStream'
  BY <1>6 DEF PressExit
<1>7. ASSUME NEW cl \in Clients, GuiGoesOn(cl) PROVE WaitsOnStream'
  BY <1>7 DEF GuiGoesOn, SignInSucceeds, SignInRefused, ReadFails, ReadClients, ReadAddress,
              FinishReturns
<1>8. ASSUME NEW cl \in Clients, Crash(cl) PROVE WaitsOnStream'
  BY <1>8 DEF Crash
<1>9. ASSUME NEW cl \in Clients,
             \/ ShowState(cl) \/ RefreshView(cl) \/ PressClear(cl) \/ IncomingCallRings(cl)
             \/ \E thread \in callThreads[cl] : CallEnds(cl, thread)
             \/ \E n \in Names : AddMissedCall(cl, n)
             \/ LoseConnection(cl)
      PROVE  WaitsOnStream'
  BY <1>1, <1>9 DEF ShowState, RefreshView, PressClear, IncomingCallRings, CallEnds, AddMissedCall,
                    LoseConnection
<1>10. CASE UNCHANGED sessionVars
  BY <1>1, <1>10 DEF sessionVars
<1> QED BY <1>2, <1>3, <1>4, <1>5, <1>6, <1>7, <1>8, <1>9, <1>10 DEF SessionNext, User, Environment

(* Every step of a client or of the server is a step of Directory.         *)
LEMMA DirectoryStep ==
    ASSUME WaitsOnStream, [SessionNext]_sessionVars
    PROVE  [Next]_vars
<1>1. ASSUME NEW s \in Streams, ServerStep(s) PROVE Next
  BY <1>1 DEF ServerStep, Next
<1>2. ASSUME NEW s \in Streams, Client(s) PROVE Next
  BY <1>2 DEF Next
<1>3. ASSUME NEW cl \in Clients, NEW n \in Names, PressSignIn(cl, n) PROVE Next
  BY <1>2, <1>3, FreshStream DEF PressSignIn, Client
<1>4. ASSUME NEW cl \in Clients, NEW for, NEW r \in Requests, hasConnection[cl],
             WriteQuestion(cl, for, r)
      PROVE  [Next]_vars
  <2>1. mstream[cl] \in Streams
    BY <1>4 DEF WaitsOnStream
  <2> QED BY <1>2, <1>4, <2>1 DEF WriteQuestion, Client
<1>5. ASSUME NEW cl \in Clients, NEW n \in Names, PressCall(cl, n) PROVE [Next]_vars
  <2>1. [type |-> "GetIpByUserName", name |-> n] \in Requests
    BY DEF Requests
  <2> QED BY <1>4, <1>5, <2>1 DEF PressCall, BackToAuthorization
<1>6. ASSUME NEW cl \in Clients, PressRefresh(cl) PROVE [Next]_vars
  <2>1. [type |-> "GetClientsOnline", name |-> EmptyName] \in Requests
    BY DEF Requests
  <2> QED BY <1>4, <1>6, <2>1 DEF PressRefresh, BackToAuthorization
<1>7. ASSUME NEW cl \in Clients, PressExit(cl) PROVE [Next]_vars
  BY <1>2, <1>7 DEF PressExit, WaitsOnStream, Client
<1>8. ASSUME NEW cl \in Clients, SignInRefused(cl) \/ ReadFails(cl) PROVE [Next]_vars
  <2>1. mstream[cl] \in Streams
    BY <1>8 DEF SignInRefused, ReadFails, WaitsOnStream, GuiIdle, Waits
  <2> QED BY <1>2, <1>8, <2>1 DEF SignInRefused, ReadFails, Client
<1>9. ASSUME NEW cl \in Clients, LoseConnection(cl) \/ Crash(cl) PROVE [Next]_vars
  <2>1. mstream[cl] \in Streams
    BY <1>9 DEF LoseConnection, Crash, WaitsOnStream
  <2> QED BY <1>2, <1>9, <2>1 DEF LoseConnection, Crash, Client
<1>10. ASSUME NEW cl \in Clients,
              \/ SignInSucceeds(cl) \/ ReadClients(cl) \/ ReadAddress(cl) \/ FinishReturns(cl)
              \/ ShowState(cl) \/ RefreshView(cl) \/ PressClear(cl) \/ IncomingCallRings(cl)
              \/ \E thread \in callThreads[cl] : CallEnds(cl, thread)
              \/ \E n \in Names : AddMissedCall(cl, n)
       PROVE  UNCHANGED vars
  BY <1>10 DEF SignInSucceeds, ReadClients, ReadAddress, FinishReturns, ShowState, RefreshView,
               PressClear, IncomingCallRings, CallEnds, AddMissedCall
<1>11. CASE UNCHANGED sessionVars
  BY <1>11 DEF sessionVars
<1> QED BY <1>1, <1>3, <1>5, <1>6, <1>7, <1>8, <1>9, <1>10, <1>11
    DEF SessionNext, GuiGoesOn, User, Environment

LEMMA WaitsCorrect == SessionSpec => []WaitsOnStream
BY WaitsInit, WaitsStep, PTL DEF SessionSpec

(* ClientSession is composed of the actions of Directory, so its behaviours*)
(* are behaviours of Directory.                                            *)
LEMMA DirectoryImplemented == SessionSpec => Spec
<1>1. SessionInit => Init
  BY DEF SessionInit
<1> QED BY <1>1, WaitsCorrect, DirectoryStep, PTL DEF SessionSpec, Spec

(* So what was proved of Directory holds of real sessions.                 *)
LEMMA DirectoryInvHolds == SessionSpec => []DirectoryInv
BY DirectoryImplemented, InvCorrect, PTL

-----------------------------------------------------------------------------
(* The screen and the missed calls.                                        *)

ShownInv ==
    /\ clientState \in [Clients -> Screens] /\ screen \in [Clients -> Screens]
    /\ missed \in [Clients -> Seq(Names)] /\ missedRows \in [Clients -> Nat]
    /\ ViewStaysInList

LEMMA LengthOf ==
    ASSUME NEW f \in [Clients -> Seq(Names)], NEW cl \in Clients
    PROVE  Len(f[cl]) \in Nat
<1>1. f[cl] \in Seq(Names)
  OBVIOUS
<1> QED BY <1>1, LenProperties

LEMMA ShownInit == SessionInit => ShownInv
<1> SUFFICES ASSUME SessionInit PROVE ShownInv
  OBVIOUS
<1>1. <<>> \in Seq(Names) /\ Len(<<>>) = 0
  BY EmptySeq
<1> QED BY <1>1 DEF SessionInit, ShownInv, ViewStaysInList, Screens

LEMMA Shows ==
    ASSUME ShownInv, NEW cl \in Clients, NEW state \in Screens, Show(cl, state)
    PROVE  /\ screen' \in [Clients -> Screens]
           /\ missed' \in [Clients -> Seq(Names)] /\ missedRows' \in [Clients -> Nat]
           /\ ViewStaysInList'
<1>1. <<>> \in Seq(Names) /\ Len(<<>>) = 0
  BY EmptySeq
<1>2. missed' \in [Clients -> Seq(Names)]
  BY <1>1 DEF Show, ShownInv
<1>3. missedRows' \in [Clients -> Nat]
  BY <1>2, LengthOf DEF Show, ShownInv
<1>4. \A d \in Clients \ {cl} : missed'[d] = missed[d] /\ missedRows'[d] = missedRows[d]
  BY DEF Show, ShownInv
<1>5. missedRows'[cl] <= Len(missed'[cl])
  BY <1>2, LengthOf DEF Show, ShownInv
<1> QED BY <1>2, <1>3, <1>4, <1>5 DEF Show, ShownInv, ViewStaysInList

LEMMA ShownStep ==
    ASSUME ShownInv, [SessionNext]_sessionVars
    PROVE  ShownInv'
<1>1. CASE UNCHANGED shown
  BY <1>1 DEF shown, missedCalls, ShownInv, ViewStaysInList
<1>2. ASSUME NEW cl \in Clients, NEW state \in Screens, SetState(cl, state) PROVE ShownInv'
  BY <1>2, Shows DEF SetState, ShownInv
<1>3. ASSUME NEW cl \in Clients, NEW state \in Screens, SetStateBehind(cl, state) PROVE ShownInv'
  BY <1>3 DEF SetStateBehind, missedCalls, ShownInv, ViewStaysInList
<1>4. {"Authorization", "Online", "Call"} \subseteq Screens
  BY DEF Screens
<1>5. ASSUME NEW s \in Streams, ServerStep(s) PROVE ShownInv'
  BY <1>1, <1>5 DEF ServerStep
<1>6. ASSUME NEW cl \in Clients, GuiGoesOn(cl) PROVE ShownInv'
  BY <1>1, <1>2, <1>4, <1>6 DEF GuiGoesOn, SignInSucceeds, SignInRefused, ReadFails, ReadClients,
                                ReadAddress, FinishReturns
<1>7. ASSUME NEW cl \in Clients, ShowState(cl) PROVE ShownInv'
  <2>1. clientState[cl] \in Screens
    BY DEF ShownInv
  <2> QED BY <1>7, <2>1, Shows DEF ShowState, ShownInv
<1>8. ASSUME NEW cl \in Clients, RefreshView(cl) PROVE ShownInv'
  <2>1. Len(missed[cl]) \in Nat
    BY LengthOf DEF ShownInv
  <2> QED BY <1>8, <2>1 DEF RefreshView, ShownInv, ViewStaysInList
<1>9. ASSUME NEW cl \in Clients, PressClear(cl) PROVE ShownInv'
  <2>1. <<>> \in Seq(Names) /\ Len(<<>>) = 0
    BY EmptySeq
  <2> QED BY <1>9, <2>1 DEF PressClear, ShownInv, ViewStaysInList
<1>10. ASSUME NEW cl \in Clients, NEW n \in Names, AddMissedCall(cl, n) PROVE ShownInv'
  <2>1. missed[cl] \in Seq(Names) /\ Len(missed[cl]) \in Nat /\ missedRows[cl] \in Nat
    BY LengthOf DEF ShownInv
  <2>2. Append(missed[cl], n) \in Seq(Names) /\ Len(Append(missed[cl], n)) = Len(missed[cl]) + 1
    BY <2>1, AppendProperties
  <2>3. /\ missed' \in [Clients -> Seq(Names)] /\ Len(missed'[cl]) = Len(missed[cl]) + 1
        /\ \A d \in Clients \ {cl} : missed'[d] = missed[d]
    BY <1>10, <2>2 DEF AddMissedCall, ShownInv
  <2>4. missedRows[cl] <= Len(missed'[cl])
    BY <2>1, <2>3 DEF ShownInv, ViewStaysInList
  <2> QED BY <1>10, <2>3, <2>4 DEF AddMissedCall, ShownInv, ViewStaysInList
<1>11. ASSUME NEW cl \in Clients, NEW n \in Names, PressSignIn(cl, n) \/ PressCall(cl, n)
       PROVE  ShownInv'
  BY <1>1, <1>2, <1>4, <1>11 DEF PressSignIn, PressCall, BackToAuthorization
<1>12. ASSUME NEW cl \in Clients, PressRefresh(cl) \/ PressExit(cl) PROVE ShownInv'
  BY <1>1, <1>2, <1>4, <1>12 DEF PressRefresh, PressExit, BackToAuthorization
<1>13. ASSUME NEW cl \in Clients,
              IncomingCallRings(cl) \/ \E thread \in callThreads[cl] : CallEnds(cl, thread)
       PROVE  ShownInv'
  BY <1>3, <1>4, <1>13 DEF IncomingCallRings, CallEnds
<1>14. ASSUME NEW cl \in Clients, LoseConnection(cl) PROVE ShownInv'
  BY <1>1, <1>14 DEF LoseConnection
<1>15. ASSUME NEW cl \in Clients, Crash(cl) PROVE ShownInv'
  <2>1. <<>> \in Seq(Names) /\ Len(<<>>) = 0
    BY EmptySeq
  <2> QED BY <1>4, <1>15, <2>1 DEF Crash, ShownInv, ViewStaysInList
<1>16. CASE UNCHANGED sessionVars
  BY <1>1, <1>16 DEF sessionVars
<1> QED BY <1>5, <1>6, <1>7, <1>8, <1>9, <1>10, <1>11, <1>12, <1>13, <1>14, <1>15, <1>16
    DEF SessionNext, User, Environment

(* The view never asks for a missed call that is not in the list, whoever  *)
(* adds to it, clears it, or turns the page (qmlmissedcallsmodel.cpp:8-52).*)
THEOREM ViewStaysInListCorrect == SessionSpec => []ViewStaysInList
<1>1. ShownInv => ViewStaysInList
  BY DEF ShownInv
<1> QED BY <1>1, ShownInit, ShownStep, PTL DEF SessionSpec

-----------------------------------------------------------------------------
(* Questions and answers.                                                  *)

OwnerInv ==
    /\ owner \in [Streams -> Clients \cup {Absent}]
    /\ \A cl \in Clients : mstream[cl] \in Streams =>
          owner[mstream[cl]] = cl /\ link[mstream[cl]] # "none"
    /\ \A s \in Streams : link[s] # "none" => owner[s] \in Clients

(* While the GUI thread waits for the answer to a question, no other is    *)
(* under way.                                                              *)
QuestionInv ==
    /\ question \in [Clients -> Requests \cup {NoRequest}]
    /\ response \in [Streams -> [request: Requests \cup {NoRequest}, userip: Streams \cup {Absent},
                                 usernames: SUBSET Names]]
    /\ \A s \in Streams : link[s] # "open" => answer[s] = "none"
    /\ \A cl \in Clients : gui[cl] = "listing" => question[cl].type = "GetClientsOnline"
    /\ \A cl \in Clients : gui[cl] = "lookup" => question[cl].type = "GetIpByUserName"
    /\ \A cl \in Clients : gui[cl] \in {"listing", "lookup"} =>
          /\ link[mstream[cl]] = "open" /\ request[mstream[cl]] # NoRequest =>
                request[mstream[cl]] = question[cl]
          /\ answer[mstream[cl]] = "answered" => response[mstream[cl]].request = question[cl]

(* Streams are opened by clients only, each by one.                        *)
LEMMA OwnerInit == SessionInit => OwnerInv
BY StreamsAssumption DEF SessionInit, Init, OwnerInv

LEMMA LinkOnly ==
    ASSUME TypeOK, [Next]_vars, NEW s \in Streams, link[s] # "none"
    PROVE  link'[s] # "none"
<1>1. ASSUME NEW t \in Streams, Start(t) \/ Authorization(t) PROVE link' = link
  BY <1>1 DEF Start, Authorization, Authorize, Refuse, GetClientsOnline, GetIpByUserName,
              GetUnknownUserName, EndOfStream
<1>2. ASSUME NEW t \in Streams, Client(t) PROVE link'[s] # "none"
  BY <1>2 DEF Client, Open, Ask, Leave, Drop, Forget, TypeOK
<1>3. CASE UNCHANGED vars
  BY <1>3 DEF vars
<1> QED BY <1>1, <1>2, <1>3 DEF Next

LEMMA OwnerStep ==
    ASSUME TypeOK, WaitsOnStream, OwnerInv, [SessionNext]_sessionVars
    PROVE  OwnerInv'
<1>1. \A s \in Streams : link[s] # "none" => link'[s] # "none"
  BY DirectoryStep, LinkOnly
<1>2. ASSUME NEW s \in Streams, Leave(s) \/ Drop(s)
      PROVE  \A t \in Streams : link[t] = "none" => link'[t] = "none"
  BY <1>2 DEF Ask, Leave, Drop, Forget, TypeOK
<1>3. ASSUME UNCHANGED owner, \A t \in Streams : link[t] = "none" => link'[t] = "none",
             \A cl \in Clients : mstream'[cl] \in {mstream[cl], Absent}
      PROVE  OwnerInv'
  BY <1>1, <1>3, StreamsAssumption DEF OwnerInv, WaitsOnStream
<1>4. ASSUME NEW cl \in Clients, NEW n \in Names, PressSignIn(cl, n) PROVE OwnerInv'
  <2>1. PICK s \in Streams : /\ link[s] = "none" /\ link' = [link EXCEPT ![s] = "open"]
                             /\ mstream' = [mstream EXCEPT ![cl] = s]
                             /\ owner' = [owner EXCEPT ![s] = cl]
    BY <1>4, FreshStream DEF PressSignIn, Open
  <2> QED BY <2>1 DEF OwnerInv, WaitsOnStream, TypeOK
<1>5. ASSUME NEW s \in Streams, ServerStep(s) PROVE OwnerInv'
  <2>1. link' = link
    BY <1>5 DEF ServerStep, Start, Authorization, Authorize, Refuse, GetClientsOnline,
                GetIpByUserName, GetUnknownUserName, EndOfStream
  <2> QED BY <1>3, <1>5, <2>1 DEF ServerStep, session
<1>6. ASSUME NEW cl \in Clients, NEW n \in Names, PressCall(cl, n) PROVE OwnerInv'
  <2>1. CASE BackToAuthorization(cl)
    BY <1>3, <2>1 DEF BackToAuthorization, session, vars
  <2>2. CASE WriteQuestion(cl, "lookup", [type |-> "GetIpByUserName", name |-> n])
    BY <1>3, <2>2 DEF WriteQuestion, Ask, vars
  <2> QED BY <1>6, <2>1, <2>2 DEF PressCall
<1>7. ASSUME NEW cl \in Clients, PressRefresh(cl) PROVE OwnerInv'
  <2>1. CASE BackToAuthorization(cl)
    BY <1>3, <2>1 DEF BackToAuthorization, session, vars
  <2>2. CASE WriteQuestion(cl, "listing", [type |-> "GetClientsOnline", name |-> EmptyName])
    BY <1>3, <2>2 DEF WriteQuestion, Ask, vars
  <2> QED BY <1>7, <2>1, <2>2 DEF PressRefresh
<1>8. ASSUME NEW cl \in Clients, PressExit(cl) PROVE OwnerInv'
  BY <1>2, <1>3, <1>8 DEF PressExit, vars, WaitsOnStream
<1>9. ASSUME NEW cl \in Clients, SignInRefused(cl) \/ ReadFails(cl) PROVE OwnerInv'
  <2>1. mstream[cl] \in Streams
    BY <1>9 DEF SignInRefused, ReadFails, WaitsOnStream, GuiIdle, Waits
  <2> QED BY <1>2, <1>3, <1>9, <2>1 DEF SignInRefused, ReadFails, vars
<1>10. ASSUME NEW cl \in Clients, LoseConnection(cl) \/ Crash(cl) PROVE OwnerInv'
  <2>1. mstream[cl] \in Streams
    BY <1>10 DEF LoseConnection, Crash, WaitsOnStream
  <2>2. \A d \in Clients : mstream'[d] \in {mstream[d], Absent}
    BY <1>10 DEF LoseConnection, Crash, WaitsOnStream, session
  <2> QED BY <1>2, <1>3, <1>10, <2>1, <2>2 DEF LoseConnection, Crash, session, vars
<1>11. ASSUME NEW cl \in Clients,
              \/ SignInSucceeds(cl) \/ ReadClients(cl) \/ ReadAddress(cl) \/ FinishReturns(cl)
              \/ ShowState(cl) \/ RefreshView(cl) \/ PressClear(cl) \/ IncomingCallRings(cl)
              \/ \E thread \in callThreads[cl] : CallEnds(cl, thread)
              \/ \E n \in Names : AddMissedCall(cl, n)
       PROVE  OwnerInv'
  BY <1>3, <1>11 DEF SignInSucceeds, ReadClients, ReadAddress, FinishReturns, ShowState,
         RefreshView, PressClear, IncomingCallRings, CallEnds, AddMissedCall, session, vars
<1>12. CASE UNCHANGED sessionVars
  BY <1>3, <1>12 DEF sessionVars, session, vars
<1> QED BY <1>4, <1>5, <1>6, <1>7, <1>8, <1>9, <1>10, <1>11, <1>12
    DEF SessionNext, GuiGoesOn, User, Environment

LEMMA QuestionInit == SessionInit => QuestionInv
BY StreamsAssumption, NamesAssumption DEF SessionInit, Init, QuestionInv, NoResponse

(* What a client does with its own stream does not touch another's.        *)
LEMMA OwnStream ==
    ASSUME OwnerInv, NEW c \in Clients, NEW d \in Clients, c # d,
           mstream[c] \in Streams, mstream[d] \in Streams
    PROVE  mstream[c] # mstream[d]
BY DEF OwnerInv

LEMMA QuestionOfServer ==
    ASSUME TypeOK, WaitsOnStream, QuestionInv, NEW s \in Streams, ServerStep(s)
    PROVE  QuestionInv'
<1>1. UNCHANGED <<question, gui, mstream, link>>
  BY DEF ServerStep, session, Start, Authorization, Authorize, Refuse, GetClientsOnline,
         GetIpByUserName, GetUnknownUserName, EndOfStream
<1>2. \A t \in Streams \ {s} : request'[t] = request[t] /\ answer'[t] = answer[t] /\ response'[t] = response[t]
  BY DEF ServerStep, Start, Authorization, Authorize, Refuse, GetClientsOnline, GetIpByUserName,
         GetUnknownUserName, EndOfStream, Read, Write, TypeOK, QuestionInv
<1>3. request'[s] \in {request[s], NoRequest}
  BY DEF ServerStep, Start, Authorization, Authorize, Refuse, GetClientsOnline, GetIpByUserName,
         GetUnknownUserName, EndOfStream, Read, TypeOK
<1>4. response' \in [Streams -> [request: Requests \cup {NoRequest}, userip: Streams \cup {Absent},
                                 usernames: SUBSET Names]]
  <2>1. CASE response' = response
    BY <2>1 DEF QuestionInv
  <2>2. CASE request[s] # NoRequest /\ response' = [response EXCEPT ![s] =
                            [request |-> request[s],
                             userip |-> IF request[s].type = "GetIpByUserName"
                                        THEN clientOnline[request[s].name] ELSE Absent,
                             usernames |-> Usernames(s)]]
    <3>1. request[s].name \in Names /\ request[s] \in Requests
      BY <2>2, RequestName DEF TypeOK
    <3>2. Usernames(s) \subseteq Names
      BY DEF Usernames
    <3> QED BY <2>2, <3>1, <3>2 DEF QuestionInv, TypeOK
  <2> QED BY <2>1, <2>2 DEF ServerStep
<1>5. link[s] # "open" => answer'[s] = "none"
  BY DEF ServerStep, Start, Authorization, Authorize, Refuse, GetClientsOnline, GetIpByUserName,
         GetUnknownUserName, EndOfStream, Write, TypeOK, QuestionInv
<1>6. \/ answer'[s] = answer[s] /\ response'[s] = response[s]
      \/ answer'[s] = "none"
      \/ link[s] = "open" /\ request[s] # NoRequest /\ response'[s].request = request[s]
  <2>1. CASE Start(s) \/ EndOfStream(s)
    BY <2>1 DEF ServerStep, Start, EndOfStream
  <2>2. ASSUME NEW type \in {"Authorization", "GetClientsOnline", "GetIpByUserName"}, Read(s, type)
        PROVE  handler[s] = "reading" /\ request[s] # NoRequest
    BY <2>2 DEF Read, NoRequest
  <2>3. CASE handler[s] = "reading" /\ request[s] # NoRequest /\ link[s] = "open"
    BY <2>3 DEF ServerStep, QuestionInv
  <2>4. CASE link[s] # "open"
    BY <1>5, <2>4
  <2> QED BY <2>1, <2>2, <2>3, <2>4
      DEF ServerStep, Authorization, Authorize, Refuse, GetClientsOnline, GetIpByUserName,
          GetUnknownUserName
<1>7. \A t \in Streams : link'[t] # "open" => answer'[t] = "none"
  BY <1>1, <1>2, <1>5 DEF QuestionInv
<1>8. ASSUME NEW cl \in Clients, gui[cl] \in {"listing", "lookup"}
      PROVE  /\ link[mstream[cl]] = "open" /\ request'[mstream[cl]] # NoRequest =>
                   request'[mstream[cl]] = question[cl]
             /\ answer'[mstream[cl]] = "answered" => response'[mstream[cl]].request = question[cl]
  <2>1. mstream[cl] \in Streams
    BY <1>8 DEF WaitsOnStream, GuiIdle
  <2> QED BY <1>2, <1>3, <1>6, <1>8, <2>1 DEF QuestionInv
<1> QED BY <1>1, <1>4, <1>7, <1>8 DEF QuestionInv

(* A client that ends its stream, leaves it, or has its answer.            *)
LEMMA QuestionOfClient ==
    ASSUME TypeOK, WaitsOnStream, OwnerInv, QuestionInv, NEW c \in Clients,
           mstream[c] \in Streams,
           Leave(mstream[c]) \/ Drop(mstream[c]) \/ UNCHANGED vars,
           Consumed(mstream[c]) \/ UNCHANGED response,
           \/ GuiTurns(c, "idle", NoRequest) \/ GuiTurns(c, "finishing", NoRequest)
           \/ UNCHANGED <<gui, question, mstream>> /\ Drop(mstream[c]),
           \A d \in Clients \ {c} : mstream'[d] = mstream[d]
    PROVE  QuestionInv'
<1> DEFINE s == mstream[c]
<1>1. question' \in [Clients -> Requests \cup {NoRequest}]
  BY DEF GuiTurns, QuestionInv
<1>2. response' \in [Streams -> [request: Requests \cup {NoRequest}, userip: Streams \cup {Absent},
                                 usernames: SUBSET Names]]
  BY DEF Consumed, NoResponse, QuestionInv
<1>3. /\ \A t \in Streams \ {s} : /\ link'[t] = link[t] /\ request'[t] = request[t]
                                 /\ answer'[t] = answer[t] /\ response'[t] = response[t]
      /\ \/ link'[s] = link[s] /\ request'[s] = request[s] /\ answer'[s] = answer[s]
         \/ link'[s] = "ended" /\ answer'[s] = "none"
  BY DEF Leave, Drop, Forget, vars, Consumed, TypeOK, QuestionInv
<1>4. \A t \in Streams : link'[t] # "open" => answer'[t] = "none"
  BY <1>3 DEF QuestionInv
<1>5. ASSUME NEW d \in Clients, gui'[d] \in {"listing", "lookup"}
      PROVE  /\ gui'[d] = gui[d] /\ question'[d] = question[d]
             /\ d = c => link'[s] = "ended" /\ answer'[s] = "none" /\ mstream'[d] = s
  <2>1. CASE GuiTurns(c, "idle", NoRequest) \/ GuiTurns(c, "finishing", NoRequest)
    BY <1>5, <2>1 DEF GuiTurns, WaitsOnStream, QuestionInv
  <2>2. CASE UNCHANGED <<gui, question, mstream>> /\ Drop(s)
    BY <1>5, <2>2 DEF Drop, Forget, TypeOK
  <2> QED BY <2>1, <2>2
<1>6. ASSUME NEW d \in Clients, gui'[d] \in {"listing", "lookup"}
      PROVE  /\ link'[mstream'[d]] = "open" /\ request'[mstream'[d]] # NoRequest =>
                   request'[mstream'[d]] = question'[d]
             /\ answer'[mstream'[d]] = "answered" =>
                   response'[mstream'[d]].request = question'[d]
             /\ gui'[d] = "listing" => question'[d].type = "GetClientsOnline"
             /\ gui'[d] = "lookup" => question'[d].type = "GetIpByUserName"
  <2>1. CASE d = c
    BY <1>5, <1>6, <2>1 DEF QuestionInv
  <2>2. CASE d # c
    <3>1. mstream'[d] = mstream[d] /\ mstream[d] \in Streams \ {s}
      BY <1>5, <1>6, <2>2, OwnStream DEF WaitsOnStream, GuiIdle
    <3> QED BY <1>3, <1>5, <1>6, <3>1 DEF QuestionInv
  <2> QED BY <2>1, <2>2
<1> HIDE DEF s
<1> QED BY <1>1, <1>2, <1>4, <1>6 DEF QuestionInv

LEMMA QuestionAsked ==
    ASSUME TypeOK, WaitsOnStream, OwnerInv, QuestionInv, NEW c \in Clients,
           mstream[c] \in Streams,
           \/ WriteQuestion(c, "listing", [type |-> "GetClientsOnline", name |-> EmptyName])
           \/ \E n \in Names :
                 WriteQuestion(c, "lookup", [type |-> "GetIpByUserName", name |-> n])
    PROVE  QuestionInv'
<1> DEFINE s == mstream[c]
<1>1. PICK for \in {"listing", "lookup"}, r \in Requests :
         /\ WriteQuestion(c, for, r)
         /\ r.type = IF for = "listing" THEN "GetClientsOnline" ELSE "GetIpByUserName"
  <2>1. CASE WriteQuestion(c, "listing", [type |-> "GetClientsOnline", name |-> EmptyName])
    <3> DEFINE r == [type |-> "GetClientsOnline", name |-> EmptyName]
    <3>1. r \in Requests /\ r.type = "GetClientsOnline"
      BY DEF Requests
    <3>2. WriteQuestion(c, "listing", r)
      BY <2>1
    <3> QED BY <3>1, <3>2, Zenon
  <2>2. ASSUME NEW n \in Names,
               WriteQuestion(c, "lookup", [type |-> "GetIpByUserName", name |-> n])
        PROVE  \E r \in Requests : WriteQuestion(c, "lookup", r) /\ r.type = "GetIpByUserName"
    <3> DEFINE r == [type |-> "GetIpByUserName", name |-> n]
    <3>1. r \in Requests /\ r.type = "GetIpByUserName"
      BY DEF Requests
    <3>2. WriteQuestion(c, "lookup", r)
      BY <2>2
    <3> QED BY <3>1, <3>2, Zenon
  <2> QED BY <2>1, <2>2
<1>2. /\ gui' = [gui EXCEPT ![c] = for] /\ question' = [question EXCEPT ![c] = r]
      /\ UNCHANGED <<response, mstream, link>>
  BY <1>1 DEF WriteQuestion, GuiTurns, Ask, vars
<1>3. /\ \A t \in Streams \ {s} : request'[t] = request[t] /\ answer'[t] = answer[t]
      /\ answer'[s] = "none"
      /\ link[s] = "open" => request'[s] = r
  BY <1>1 DEF WriteQuestion, Ask, vars, TypeOK, QuestionInv
<1>4. question' \in [Clients -> Requests \cup {NoRequest}]
  BY <1>2 DEF QuestionInv
<1>5. \A t \in Streams : link'[t] # "open" => answer'[t] = "none"
  BY <1>2, <1>3 DEF QuestionInv
<1>6. ASSUME NEW d \in Clients, gui'[d] \in {"listing", "lookup"}
      PROVE  /\ link'[mstream'[d]] = "open" /\ request'[mstream'[d]] # NoRequest =>
                   request'[mstream'[d]] = question'[d]
             /\ answer'[mstream'[d]] = "answered" =>
                   response'[mstream'[d]].request = question'[d]
             /\ gui'[d] = "listing" => question'[d].type = "GetClientsOnline"
             /\ gui'[d] = "lookup" => question'[d].type = "GetIpByUserName"
  <2>1. CASE d = c
    BY <1>1, <1>2, <1>3, <2>1 DEF QuestionInv, WaitsOnStream
  <2>2. CASE d # c
    <3>1. gui[d] = gui'[d] /\ question'[d] = question[d]
      BY <1>2, <2>2 DEF QuestionInv, WaitsOnStream
    <3>2. mstream[d] \in Streams \ {s}
      BY <1>6, <2>2, <3>1, OwnStream DEF WaitsOnStream, GuiIdle
    <3> QED BY <1>2, <1>3, <1>6, <3>1, <3>2 DEF QuestionInv
  <2> QED BY <2>1, <2>2
<1> HIDE DEF s
<1> QED BY <1>2, <1>4, <1>5, <1>6 DEF QuestionInv

LEMMA QuestionOfSignIn ==
    ASSUME TypeOK, WaitsOnStream, OwnerInv, QuestionInv, NEW c \in Clients, NEW n \in Names,
           PressSignIn(c, n)
    PROVE  QuestionInv'
<1>1. PICK s \in Streams : link[s] = "none" /\ Open(s, n)
                           /\ mstream' = [mstream EXCEPT ![c] = s]
                           /\ GuiTurns(c, "authorizing", request'[s])
                           /\ UNCHANGED response
  BY FreshStream DEF PressSignIn
<1>2. request'[s] \in Requests
  BY <1>1 DEF Open, Requests, TypeOK
<1>3. question' \in [Clients -> Requests \cup {NoRequest}]
  BY <1>1, <1>2 DEF GuiTurns, QuestionInv
<1>4. /\ UNCHANGED answer /\ answer[s] = "none"
      /\ \A t \in Streams \ {s} : link'[t] = link[t] /\ request'[t] = request[t]
  BY <1>1 DEF Open, TypeOK, QuestionInv
<1>5. \A t \in Streams : link'[t] # "open" => answer'[t] = "none"
  BY <1>4 DEF QuestionInv
<1>6. ASSUME NEW d \in Clients, gui'[d] \in {"listing", "lookup"}
      PROVE  /\ link'[mstream'[d]] = "open" /\ request'[mstream'[d]] # NoRequest =>
                   request'[mstream'[d]] = question'[d]
             /\ answer'[mstream'[d]] = "answered" =>
                   response'[mstream'[d]].request = question'[d]
             /\ gui'[d] = "listing" => question'[d].type = "GetClientsOnline"
             /\ gui'[d] = "lookup" => question'[d].type = "GetIpByUserName"
  <2>1. d # c /\ gui'[d] = gui[d] /\ question'[d] = question[d] /\ mstream'[d] = mstream[d]
    BY <1>1, <1>6 DEF GuiTurns, WaitsOnStream, QuestionInv
  <2>2. mstream[d] \in Streams \ {s}
    BY <1>1, <1>6, <2>1 DEF WaitsOnStream, GuiIdle, OwnerInv
  <2> QED BY <1>1, <1>4, <1>6, <2>1, <2>2 DEF QuestionInv
<1> QED BY <1>1, <1>3, <1>5, <1>6 DEF QuestionInv

LEMMA QuestionStep ==
    ASSUME TypeOK, WaitsOnStream, OwnerInv, QuestionInv, [SessionNext]_sessionVars
    PROVE  QuestionInv'
<1>1. ASSUME UNCHANGED <<vars, question, response, gui, mstream>> PROVE QuestionInv'
  BY <1>1 DEF QuestionInv, vars
<1>2. ASSUME NEW c \in Clients, NEW n \in Names, PressCall(c, n) PROVE QuestionInv'
  <2>1. CASE BackToAuthorization(c)
    BY <1>1, <2>1 DEF BackToAuthorization, session
  <2>2. CASE ~BackToAuthorization(c)
    BY <1>2, <2>2, QuestionAsked DEF PressCall, WaitsOnStream
  <2> QED BY <2>1, <2>2
<1>3. ASSUME NEW c \in Clients, PressRefresh(c) PROVE QuestionInv'
  <2>1. CASE BackToAuthorization(c)
    BY <1>1, <2>1 DEF BackToAuthorization, session
  <2>2. CASE ~BackToAuthorization(c)
    BY <1>3, <2>2, QuestionAsked DEF PressRefresh, WaitsOnStream
  <2> QED BY <2>1, <2>2
<1>4. ASSUME NEW c \in Clients, PressExit(c) PROVE QuestionInv'
  <2>1. CASE UNCHANGED <<vars, gui, question>>
    BY <1>1, <1>4, <2>1 DEF PressExit
  <2>2. CASE hasConnection[c] /\ Leave(mstream[c]) /\ GuiTurns(c, "finishing", NoRequest)
    BY <1>4, <2>2, QuestionOfClient DEF PressExit, WaitsOnStream
  <2> QED BY <1>4, <2>1, <2>2 DEF PressExit
<1>5. ASSUME NEW c \in Clients, GuiGoesOn(c) PROVE QuestionInv'
  <2>1. mstream[c] \in Streams
    BY <1>5 DEF GuiGoesOn, SignInSucceeds, SignInRefused, ReadFails, ReadClients, ReadAddress,
                FinishReturns, WaitsOnStream, GuiIdle, Waits
  <2>2. /\ Leave(mstream[c]) \/ UNCHANGED vars
        /\ Consumed(mstream[c]) \/ UNCHANGED response
        /\ GuiTurns(c, "idle", NoRequest)
        /\ mstream' = mstream
    BY <1>5 DEF GuiGoesOn, SignInSucceeds, SignInRefused, ReadFails, ReadClients, ReadAddress,
                FinishReturns
  <2> QED BY <2>1, <2>2, QuestionOfClient
<1>6. ASSUME NEW c \in Clients, LoseConnection(c) \/ Crash(c) PROVE QuestionInv'
  <2>1. mstream[c] \in Streams
    BY <1>6 DEF LoseConnection, Crash, WaitsOnStream
  <2>2. CASE LoseConnection(c)
    BY <2>1, <2>2, QuestionOfClient DEF LoseConnection, session
  <2>3. CASE Crash(c)
    <3>1. \A d \in Clients \ {c} : mstream'[d] = mstream[d]
      BY <2>3 DEF Crash, WaitsOnStream
    <3> QED BY <2>1, <2>3, <3>1, QuestionOfClient DEF Crash
  <2> QED BY <1>6, <2>2, <2>3
<1>7. ASSUME NEW c \in Clients,
             \/ ShowState(c) \/ RefreshView(c) \/ PressClear(c) \/ IncomingCallRings(c)
             \/ \E thread \in callThreads[c] : CallEnds(c, thread)
             \/ \E n \in Names : AddMissedCall(c, n)
      PROVE  QuestionInv'
  BY <1>1, <1>7 DEF ShowState, RefreshView, PressClear, IncomingCallRings, CallEnds, AddMissedCall,
                    session
<1>8. CASE UNCHANGED sessionVars
  BY <1>1, <1>8 DEF sessionVars, session
<1> QED BY <1>2, <1>3, <1>4, <1>5, <1>6, <1>7, <1>8, QuestionOfServer, QuestionOfSignIn
    DEF SessionNext, User, Environment

-----------------------------------------------------------------------------
(* Sessions and screens.                                                   *)

(* A client that is connected does not show the Authorization screen, and  *)
(* is not about to.                                                        *)
SignedInShown ==
    \A cl \in Clients : hasConnection[cl] =>
        screen[cl] # "Authorization" /\ clientState[cl] # "Authorization"

LEMMA SignedInInit == SessionInit => SignedInShown
BY DEF SessionInit, SignedInShown

LEMMA SignedInStep ==
    ASSUME WaitsOnStream, ShownInv, QuestionInv, SignedInShown, [SessionNext]_sessionVars
    PROVE  SignedInShown'
<1> USE DEF SignedInShown, ShownInv, WaitsOnStream
<1>1. ASSUME NEW c \in Clients,
             \A d \in Clients \ {c} : /\ hasConnection'[d] = hasConnection[d]
                                      /\ screen'[d] = screen[d]
                                      /\ clientState'[d] = clientState[d],
             \/ ~hasConnection'[c]
             \/ screen'[c] # "Authorization" /\ clientState'[c] # "Authorization"
             \/ UNCHANGED <<hasConnection, screen, clientState>>
      PROVE  SignedInShown'
  BY <1>1
<1>2. CASE UNCHANGED <<hasConnection, screen, clientState>>
  BY <1>2
<1>3. ASSUME NEW c \in Clients, NEW state, SetState(c, state)
      PROVE  /\ screen'[c] = state /\ clientState'[c] = state
             /\ \A d \in Clients \ {c} : screen'[d] = screen[d] /\ clientState'[d] = clientState[d]
  BY <1>3 DEF SetState, Show
<1>4. ASSUME NEW c \in Clients, NEW b \in BOOLEAN, Connected(c, b)
      PROVE  /\ hasConnection'[c] = b
             /\ \A d \in Clients \ {c} : hasConnection'[d] = hasConnection[d]
  BY <1>4 DEF Connected
<1>5. ASSUME NEW s \in Streams, ServerStep(s) PROVE SignedInShown'
  BY <1>2, <1>5 DEF ServerStep, shown, session
<1>6. ASSUME NEW c \in Clients, SignInSucceeds(c) PROVE SignedInShown'
  <2>1. Connected(c, TRUE) /\ SetState(c, "Online")
    BY <1>6 DEF SignInSucceeds
  <2>2. /\ screen'[c] = "Online" /\ clientState'[c] = "Online"
        /\ \A d \in Clients \ {c} : screen'[d] = screen[d] /\ clientState'[d] = clientState[d]
    BY <1>3, <2>1
  <2>3. \A d \in Clients \ {c} : hasConnection'[d] = hasConnection[d]
    BY <1>4, <2>1
  <2> QED BY <1>1, <2>2, <2>3
<1>7. ASSUME NEW c \in Clients, SignInRefused(c) \/ ReadFails(c) \/ FinishReturns(c)
      PROVE  SignedInShown'
  <2>1. Connected(c, FALSE) /\ (UNCHANGED shown \/ SetState(c, "Authorization"))
    BY <1>7 DEF SignInRefused, ReadFails, FinishReturns
  <2>2. \A d \in Clients \ {c} : screen'[d] = screen[d] /\ clientState'[d] = clientState[d]
    BY <1>3, <2>1 DEF shown
  <2>3. ~hasConnection'[c] /\ \A d \in Clients \ {c} : hasConnection'[d] = hasConnection[d]
    BY <1>4, <2>1
  <2> QED BY <1>1, <2>2, <2>3
<1>8. ASSUME NEW c \in Clients, ReadClients(c) PROVE SignedInShown'
  <2>1. response[mstream[c]].request.type = "GetClientsOnline"
    BY <1>8 DEF ReadClients, Waits, QuestionInv
  <2> QED BY <1>2, <1>8, <2>1 DEF ReadClients, shown
<1>9. ASSUME NEW c \in Clients, ReadAddress(c) PROVE SignedInShown'
  BY <1>2, <1>9 DEF ReadAddress, shown
<1>10. ASSUME NEW c \in Clients, ShowState(c) PROVE SignedInShown'
  <2>1. screen'[c] = clientState[c] /\ \A d \in Clients \ {c} : screen'[d] = screen[d]
    BY <1>10 DEF ShowState, Show
  <2>2. UNCHANGED <<hasConnection, clientState>>
    BY <1>10 DEF ShowState, session
  <2> QED BY <2>1, <2>2
<1>11. ASSUME NEW c \in Clients, BackToAuthorization(c) PROVE SignedInShown'
  <2>1. ~hasConnection[c] /\ UNCHANGED hasConnection /\ SetState(c, "Authorization")
    BY <1>11 DEF BackToAuthorization, session
  <2> QED BY <1>1, <1>3, <2>1
<1>12. ASSUME NEW c \in Clients, NEW n \in Names, PressSignIn(c, n) PROVE SignedInShown'
  BY <1>2, <1>12 DEF PressSignIn, shown
<1>13. ASSUME NEW c \in Clients, NEW n \in Names, PressCall(c, n) PROVE SignedInShown'
  <2>1. CASE ~BackToAuthorization(c)
    <3>1. SetState(c, "Call") /\ UNCHANGED hasConnection
      BY <1>13, <2>1 DEF PressCall, WriteQuestion
    <3> QED BY <1>1, <1>3, <3>1
  <2> QED BY <1>11, <2>1
<1>14. ASSUME NEW c \in Clients, PressRefresh(c) PROVE SignedInShown'
  <2>1. CASE ~BackToAuthorization(c)
    BY <1>2, <1>14, <2>1 DEF PressRefresh, WriteQuestion, shown
  <2> QED BY <1>11, <2>1
<1>15. ASSUME NEW c \in Clients, PressExit(c) PROVE SignedInShown'
  <2>1. CASE UNCHANGED <<shown, hasConnection>>
    BY <1>2, <2>1 DEF shown
  <2>2. CASE SetState(c, "Authorization") /\ Connected(c, FALSE)
    <3>1. \A d \in Clients \ {c} : screen'[d] = screen[d] /\ clientState'[d] = clientState[d]
      BY <1>3, <2>2
    <3>2. ~hasConnection'[c] /\ \A d \in Clients \ {c} : hasConnection'[d] = hasConnection[d]
      BY <1>4, <2>2
    <3> QED BY <1>1, <3>1, <3>2
  <2> QED BY <1>15, <2>1, <2>2 DEF PressExit
<1>16. ASSUME NEW c \in Clients, NEW state \in {"Online", "Call"}, SetStateBehind(c, state),
              UNCHANGED hasConnection
       PROVE  SignedInShown'
  BY <1>16 DEF SetStateBehind
<1>17. ASSUME NEW c \in Clients,
              IncomingCallRings(c) \/ \E thread \in callThreads[c] : CallEnds(c, thread)
       PROVE  SignedInShown'
  BY <1>16, <1>17 DEF IncomingCallRings, CallEnds, session
<1>18. ASSUME NEW c \in Clients, Crash(c) PROVE SignedInShown'
  BY <1>18 DEF Crash, Connected
<1>19. ASSUME NEW c \in Clients,
              \/ RefreshView(c) \/ PressClear(c) \/ LoseConnection(c)
              \/ \E n \in Names : AddMissedCall(c, n)
       PROVE  SignedInShown'
  BY <1>2, <1>19 DEF RefreshView, PressClear, LoseConnection, AddMissedCall, shown, session
<1>20. CASE UNCHANGED sessionVars
  BY <1>2, <1>20 DEF sessionVars, shown, session
<1> QED BY <1>5, <1>6, <1>7, <1>8, <1>9, <1>10, <1>12, <1>13, <1>14, <1>15, <1>17, <1>18, <1>19,
           <1>20
    DEF SessionNext, GuiGoesOn, User, Environment

(* An open stream is the current one of a client that knows of it.         *)
CurrentInv ==
    /\ NoSessionIsLeaked
    /\ \A cl \in Clients : gui[cl] = "finishing" => link[mstream[cl]] # "open"

LEMMA CurrentInit == SessionInit => CurrentInv
BY DEF SessionInit, Init, CurrentInv, NoSessionIsLeaked

(* One client ends its stream, or was not using an open one.               *)
LEMMA CurrentOfClient ==
    ASSUME TypeOK, WaitsOnStream, OwnerInv, CurrentInv, NEW c \in Clients,
           \A s \in Streams : link'[s] = "open" =>
              link[s] = "open" /\ (s = mstream[c] =>
                  mstream'[c] = s /\ (hasConnection'[c] \/ gui'[c] = "authorizing")),
           gui'[c] = "finishing" /\ mstream'[c] \in Streams => link'[mstream'[c]] # "open",
           mstream'[c] \in Streams \cup {Absent}, gui'[c] # "finishing" \/ mstream'[c] \in Streams,
           \A d \in Clients \ {c} : /\ mstream'[d] = mstream[d] /\ gui'[d] = gui[d]
                                    /\ hasConnection'[d] = hasConnection[d]
    PROVE  CurrentInv'
<1>1. ASSUME NEW s \in Streams, link'[s] = "open"
      PROVE  \E cl \in Clients : mstream'[cl] = s /\ (hasConnection'[cl] \/ gui'[cl] = "authorizing")
  <2>1. PICK cl \in Clients : mstream[cl] = s /\ (hasConnection[cl] \/ gui[cl] = "authorizing")
    BY <1>1 DEF CurrentInv, NoSessionIsLeaked, Waits
  <2> QED BY <1>1, <2>1
<1>2. ASSUME NEW cl \in Clients, gui'[cl] = "finishing" PROVE link'[mstream'[cl]] # "open"
  <2>1. CASE cl = c
    BY <1>2, <2>1
  <2>2. CASE cl # c
    BY <1>2, <2>2 DEF CurrentInv, WaitsOnStream, GuiIdle
  <2> QED BY <2>1, <2>2
<1> QED BY <1>1, <1>2 DEF CurrentInv, NoSessionIsLeaked, Waits

LEMMA CurrentStep ==
    ASSUME TypeOK, WaitsOnStream, OwnerInv, SignedInShown, CurrentInv, [SessionNext]_sessionVars
    PROVE  CurrentInv'
<1>1. ASSUME UNCHANGED <<link, mstream, gui, hasConnection>> PROVE CurrentInv'
  BY <1>1 DEF CurrentInv, NoSessionIsLeaked, Waits
<1>2. ASSUME NEW s \in Streams, ServerStep(s) PROVE CurrentInv'
  <2>1. link' = link
    BY <1>2 DEF ServerStep, Start, Authorization, Authorize, Refuse, GetClientsOnline,
                GetIpByUserName, GetUnknownUserName, EndOfStream
  <2> QED BY <1>1, <1>2, <2>1 DEF ServerStep, session
<1>3. ASSUME NEW c \in Clients, NEW n \in Names, PressSignIn(c, n) PROVE CurrentInv'
  <2>1. PICK s \in Streams : /\ link[s] = "none" /\ link' = [link EXCEPT ![s] = "open"]
                             /\ mstream' = [mstream EXCEPT ![c] = s]
                             /\ gui' = [gui EXCEPT ![c] = "authorizing"]
                             /\ UNCHANGED hasConnection
    BY <1>3, FreshStream DEF PressSignIn, Open, GuiTurns
  <2>2. ~hasConnection[c] /\ gui[c] = "idle"
    BY <1>3 DEF PressSignIn, Press, GuiIdle, SignedInShown
  <2>3. \A t \in Streams \ {s} : link'[t] = link[t]
    BY <2>1 DEF TypeOK
  <2>4. mstream'[c] = s /\ gui'[c] = "authorizing"
        /\ \A d \in Clients \ {c} : mstream'[d] = mstream[d] /\ gui'[d] = gui[d]
    BY <2>1 DEF WaitsOnStream
  <2>5. ASSUME NEW t \in Streams, link'[t] = "open"
        PROVE  \E cl \in Clients : mstream'[cl] = t /\ (hasConnection'[cl] \/ gui'[cl] = "authorizing")
    <3>1. CASE t = s
      BY <2>4, <3>1
    <3>2. CASE t # s
      <4>1. PICK cl \in Clients : mstream[cl] = t /\ (hasConnection[cl] \/ gui[cl] = "authorizing")
        BY <2>3, <2>5, <3>2 DEF CurrentInv, NoSessionIsLeaked, Waits
      <4> QED BY <2>1, <2>2, <2>4, <4>1
    <3> QED BY <3>1, <3>2
  <2>6. ASSUME NEW cl \in Clients, gui'[cl] = "finishing" PROVE link'[mstream'[cl]] # "open"
    <3>1. cl # c /\ gui[cl] = "finishing" /\ mstream'[cl] = mstream[cl] /\ mstream[cl] \in Streams
      BY <2>4, <2>6 DEF WaitsOnStream, GuiIdle
    <3>2. mstream[cl] # s
      BY <2>1, <3>1 DEF OwnerInv
    <3> QED BY <2>3, <3>1, <3>2 DEF CurrentInv
  <2> QED BY <2>5, <2>6 DEF CurrentInv, NoSessionIsLeaked, Waits
<1>4. ASSUME NEW c \in Clients, SignInSucceeds(c) PROVE CurrentInv'
  BY <1>4, CurrentOfClient DEF SignInSucceeds, Connected, GuiTurns, WaitsOnStream, GuiIdle, Waits,
                               vars
<1>5. ASSUME NEW c \in Clients, SignInRefused(c) \/ ReadFails(c) PROVE CurrentInv'
  <2>1. mstream[c] \in Streams
    BY <1>5 DEF SignInRefused, ReadFails, WaitsOnStream, GuiIdle, Waits
  <2>2. /\ link'[mstream[c]] # "open"
        /\ \A t \in Streams : link'[t] = "open" => link[t] = "open"
    BY <1>5, <2>1 DEF SignInRefused, ReadFails, Leave, Forget, vars, TypeOK
  <2>3. /\ Connected(c, FALSE) /\ GuiTurns(c, "idle", NoRequest) /\ mstream' = mstream
    BY <1>5 DEF SignInRefused, ReadFails
  <2>4. gui'[c] = "idle" /\ \A d \in Clients \ {c} : /\ mstream'[d] = mstream[d] /\ gui'[d] = gui[d]
                                    /\ hasConnection'[d] = hasConnection[d]
    BY <2>3 DEF Connected, GuiTurns, WaitsOnStream
  <2> QED BY <2>1, <2>2, <2>3, <2>4, CurrentOfClient
<1>6. ASSUME NEW c \in Clients, ReadClients(c) \/ ReadAddress(c) PROVE CurrentInv'
  <2>1. /\ gui[c] # "authorizing" /\ UNCHANGED <<link, mstream, hasConnection>>
        /\ gui' = [gui EXCEPT ![c] = "idle"]
    BY <1>6 DEF ReadClients, ReadAddress, Waits, GuiTurns, vars
  <2> QED BY <2>1 DEF CurrentInv, NoSessionIsLeaked, Waits, WaitsOnStream
<1>7. ASSUME NEW c \in Clients, FinishReturns(c) PROVE CurrentInv'
  <2>1. gui[c] = "finishing" /\ link[mstream[c]] # "open"
    BY <1>7 DEF FinishReturns, Waits, CurrentInv
  <2>2. /\ gui'[c] = "idle" /\ UNCHANGED <<link, mstream>>
        /\ \A d \in Clients \ {c} : gui'[d] = gui[d] /\ hasConnection'[d] = hasConnection[d]
    BY <1>7 DEF FinishReturns, vars, Connected, GuiTurns, WaitsOnStream
  <2> QED BY <2>1, <2>2 DEF CurrentInv, NoSessionIsLeaked, Waits
<1>8. ASSUME NEW c \in Clients, NEW for \in {"listing", "lookup"}, NEW r,
             WriteQuestion(c, for, r), gui[c] = "idle"
      PROVE  CurrentInv'
  <2>1. /\ UNCHANGED <<link, mstream, hasConnection>> /\ gui' = [gui EXCEPT ![c] = for]
    BY <1>8 DEF WriteQuestion, Ask, vars, GuiTurns
  <2> QED BY <1>8, <2>1 DEF CurrentInv, NoSessionIsLeaked, Waits, WaitsOnStream
<1>9. ASSUME NEW c \in Clients, NEW n \in Names, PressCall(c, n) PROVE CurrentInv'
  BY <1>1, <1>8, <1>9 DEF PressCall, BackToAuthorization, session, vars, Press, GuiIdle
<1>10. ASSUME NEW c \in Clients, PressRefresh(c) PROVE CurrentInv'
  BY <1>1, <1>8, <1>10 DEF PressRefresh, BackToAuthorization, session, vars, Press, GuiIdle
<1>11. ASSUME NEW c \in Clients, PressExit(c) PROVE CurrentInv'
  <2>1. CASE hasConnection[c] /\ Leave(mstream[c]) /\ GuiTurns(c, "finishing", NoRequest)
             /\ UNCHANGED hasConnection
    <3>1. mstream[c] \in Streams
      BY <2>1 DEF WaitsOnStream
    <3>2. /\ link'[mstream[c]] # "open" /\ mstream' = mstream
          /\ \A t \in Streams : link'[t] = "open" => link[t] = "open"
          /\ \A d \in Clients \ {c} : gui'[d] = gui[d]
      BY <1>11, <2>1, <3>1 DEF PressExit, Leave, Forget, TypeOK, GuiTurns
    <3> QED BY <2>1, <3>1, <3>2, CurrentOfClient
  <2>2. CASE /\ hasConnection[c] => link[mstream[c]] = "ended"
             /\ Connected(c, FALSE) /\ UNCHANGED <<vars, gui, question>>
    <3>1. /\ UNCHANGED <<link, gui, mstream>> /\ gui[c] = "idle"
          /\ \A d \in Clients \ {c} : hasConnection'[d] = hasConnection[d]
      BY <1>11, <2>2 DEF PressExit, vars, Connected, Press, GuiIdle
    <3> QED BY <2>2, <3>1 DEF CurrentInv, NoSessionIsLeaked, Waits
  <2> QED BY <1>11, <2>1, <2>2 DEF PressExit
<1>12. ASSUME NEW c \in Clients, LoseConnection(c) PROVE CurrentInv'
  <2>1. mstream[c] \in Streams /\ link' = [link EXCEPT ![mstream[c]] = "ended"]
    BY <1>12 DEF LoseConnection, Drop, Forget, WaitsOnStream
  <2>2. UNCHANGED <<mstream, gui, hasConnection>>
    BY <1>12 DEF LoseConnection, session
  <2>3. \A t \in Streams : link'[t] = "open" => link[t] = "open"
    BY <2>1 DEF TypeOK
  <2>4. \A cl \in Clients : gui[cl] = "finishing" => mstream[cl] \in Streams
    BY DEF WaitsOnStream, GuiIdle
  <2> QED BY <2>2, <2>3, <2>4 DEF CurrentInv, NoSessionIsLeaked, Waits
<1>13. ASSUME NEW c \in Clients, Crash(c) PROVE CurrentInv'
  <2>1. mstream[c] \in Streams
    BY <1>13 DEF Crash, WaitsOnStream
  <2>2. /\ link'[mstream[c]] # "open"
        /\ \A t \in Streams : link'[t] = "open" => link[t] = "open"
    BY <1>13, <2>1 DEF Crash, Drop, Forget, vars, TypeOK
  <2>3. /\ gui'[c] = "idle" /\ mstream'[c] = Absent
        /\ \A d \in Clients \ {c} : /\ mstream'[d] = mstream[d] /\ gui'[d] = gui[d]
                                    /\ hasConnection'[d] = hasConnection[d]
    BY <1>13 DEF Crash, Connected, GuiTurns, WaitsOnStream
  <2> QED BY <2>1, <2>2, <2>3, CurrentOfClient
<1>14. ASSUME NEW c \in Clients,
              \/ ShowState(c) \/ RefreshView(c) \/ PressClear(c) \/ IncomingCallRings(c)
              \/ \E thread \in callThreads[c] : CallEnds(c, thread)
              \/ \E n \in Names : AddMissedCall(c, n)
       PROVE  CurrentInv'
  BY <1>1, <1>14 DEF ShowState, RefreshView, PressClear, IncomingCallRings, CallEnds, AddMissedCall,
                     session, vars
<1>15. CASE UNCHANGED sessionVars
  BY <1>1, <1>15 DEF sessionVars, session, vars
<1> QED BY <1>2, <1>3, <1>4, <1>5, <1>6, <1>7, <1>9, <1>10, <1>11, <1>12, <1>13, <1>14, <1>15
    DEF SessionNext, GuiGoesOn, User, Environment

-----------------------------------------------------------------------------
(* Who is dialled.                                                         *)

(* A stream on which the user has been authorized, or never will be.       *)
Settled(s) == link[s] # "none" /\ request[s].type # "Authorization"

(* What a stream is called and who owns it does not change any more.       *)
LEMMA StaysSettled ==
    ASSUME TypeOK, WaitsOnStream, [SessionNext]_sessionVars, NEW s \in Streams, Settled(s)
    PROVE  Settled(s)' /\ name'[s] = name[s]
<1>1. [Next]_vars
  BY DirectoryStep
<1>2. ASSUME NEW t \in Streams, Start(t) \/ Authorization(t)
      PROVE  Settled(s)' /\ name'[s] = name[s]
  BY <1>2 DEF Start, Authorization, Authorize, Refuse, GetClientsOnline, GetIpByUserName,
              GetUnknownUserName, EndOfStream, Read, NoRequest, TypeOK, Settled
<1>3. ASSUME NEW t \in Streams, Client(t) PROVE Settled(s)' /\ name'[s] = name[s]
  BY <1>3 DEF Client, Open, Ask, Leave, Drop, Forget, NoRequest, TypeOK, Settled
<1>4. CASE UNCHANGED vars
  BY <1>4 DEF vars, Settled
<1> QED BY <1>1, <1>2, <1>3, <1>4 DEF Next

LEMMA OwnerStays ==
    ASSUME TypeOK, WaitsOnStream, OwnerInv, [SessionNext]_sessionVars,
           NEW s \in Streams, link[s] # "none"
    PROVE  owner'[s] = owner[s]
<1>1. ASSUME NEW c \in Clients, NEW n \in Names, PressSignIn(c, n) PROVE owner'[s] = owner[s]
  BY <1>1, FreshStream DEF PressSignIn, OwnerInv
<1>2. CASE UNCHANGED owner
  BY <1>2
<1>3. ASSUME NEW t \in Streams, ServerStep(t) PROVE owner' = owner
  BY <1>3 DEF ServerStep, session
<1>4. ASSUME NEW c \in Clients, GuiGoesOn(c) PROVE owner' = owner
  BY <1>4 DEF GuiGoesOn, SignInSucceeds, SignInRefused, ReadFails, ReadClients, ReadAddress,
              FinishReturns
<1>5. ASSUME NEW c \in Clients, NEW n \in Names,
             PressRefresh(c) \/ PressExit(c) \/ PressClear(c) \/ PressCall(c, n)
      PROVE  owner' = owner
  BY <1>5 DEF PressRefresh, PressExit, PressClear, PressCall, BackToAuthorization, WriteQuestion,
              session
<1>6. ASSUME NEW c \in Clients, Environment(c) \/ ShowState(c) \/ RefreshView(c)
      PROVE  owner' = owner
  BY <1>6 DEF Environment, ShowState, RefreshView, IncomingCallRings, CallEnds, AddMissedCall,
              LoseConnection, Crash, session
<1>7. CASE UNCHANGED sessionVars
  BY <1>7 DEF sessionVars, session
<1>8. ASSUME NEW c \in Clients, PressRefresh(c) \/ PressExit(c) \/ PressClear(c)
      PROVE  owner' = owner
  BY <1>8 DEF PressRefresh, PressExit, PressClear, BackToAuthorization, WriteQuestion, session
<1> QED BY <1>1, <1>2, <1>3, <1>4, <1>5, <1>6, <1>7, <1>8 DEF SessionNext, User

(* An entry leads to a session that was granted its name, and so does an   *)
(* address in an answer.  An answer leaves no request under way.           *)
AddressInv ==
    /\ \A n \in Names, t \in Streams : clientOnline[n] = t => name[t] = n /\ Settled(t)
    /\ \A s, t \in Streams : response[s].userip = t =>
          name[t] = response[s].request.name /\ Settled(t)
    /\ \A s \in Streams :
          answer[s] = "answered" /\ response[s].request.type = "GetIpByUserName" =>
              response[s].userip \in Streams
    /\ \A s \in Streams : answer[s] # "none" => request[s] = NoRequest

LEMMA AddressInit == SessionInit => AddressInv
BY StreamsAssumption DEF SessionInit, Init, AddressInv, NoResponse, NoRequest

LEMMA AnswerOfServer ==
    ASSUME TypeOK, AddressInv, NEW s \in Streams, Start(s) \/ Authorization(s)
    PROVE  answer'[s] # "none" => request'[s] = NoRequest
<1>1. CASE Start(s) \/ EndOfStream(s)
  BY <1>1 DEF Start, EndOfStream, AddressInv
<1>2. CASE request' = [request EXCEPT ![s] = NoRequest]
  BY <1>2 DEF TypeOK
<1> QED BY <1>1, <1>2 DEF Authorization, Authorize, Refuse, GetClientsOnline, GetIpByUserName,
                           GetUnknownUserName, Read

LEMMA EntryOfServer ==
    ASSUME TypeOK, WaitsOnStream, AddressInv, DirectoryInv, NEW s \in Streams, ServerStep(s),
           NEW n \in Names, NEW t \in Streams, clientOnline'[n] = t
    PROVE  name'[t] = n /\ Settled(t)'
<1>1. [SessionNext]_sessionVars
  BY DEF SessionNext
<1>2. CASE clientOnline'[n] = clientOnline[n]
  <2>1. name[t] = n /\ Settled(t)
    BY <1>2 DEF AddressInv
  <2> QED BY <1>1, <2>1, StaysSettled
<1>3. CASE Authorize(s) /\ n = request[s].name
  <2>1. t = s /\ name'[s] = n /\ request'[s] = NoRequest /\ link' = link
    BY <1>3 DEF Authorize, Read, TypeOK
  <2>2. link[s] # "none"
    BY <1>3 DEF Authorize, Read, DirectoryInv
  <2> QED BY <2>1, <2>2 DEF Settled, NoRequest
<1>4. CASE clientOnline' = [clientOnline EXCEPT ![name[s]] = Absent]
  BY <1>2, <1>4, StreamsAssumption DEF TypeOK
<1>5. CASE clientOnline' = clientOnline
  BY <1>2, <1>5
<1>6. CASE Authorize(s) /\ n # request[s].name
  BY <1>2, <1>6 DEF Authorize, TypeOK
<1> QED BY <1>3, <1>4, <1>5, <1>6 DEF ServerStep, Start, Authorization, Refuse, GetClientsOnline,
                                       GetIpByUserName, GetUnknownUserName, EndOfStream

LEMMA AddressOfServer ==
    ASSUME TypeOK, WaitsOnStream, QuestionInv, AddressInv, DirectoryInv, NEW s \in Streams, ServerStep(s)
    PROVE  AddressInv'
<1>1. \A t \in Streams : Settled(t) => Settled(t)' /\ name'[t] = name[t]
  <2>1. [SessionNext]_sessionVars
    BY DEF SessionNext
  <2> QED BY <2>1, StaysSettled
<1>2. \A t \in Streams \ {s} : answer'[t] = answer[t] /\ response'[t] = response[t] /\ request'[t] = request[t]
  BY DEF ServerStep, Start, Authorization, Authorize, Refuse, GetClientsOnline, GetIpByUserName,
         GetUnknownUserName, EndOfStream, Read, Write, TypeOK, QuestionInv
<1>3. ASSUME response' # response
      PROVE  /\ handler[s] = "reading" /\ request[s] # NoRequest /\ request[s].name \in Names
             /\ response'[s] = [request |-> request[s],
                                userip |-> IF request[s].type = "GetIpByUserName"
                                           THEN clientOnline[request[s].name] ELSE Absent,
                                usernames |-> Usernames(s)]
  BY <1>3, RequestName DEF ServerStep, QuestionInv
<1>4. ASSUME NEW t \in Streams, response'[s].userip = t
      PROVE  name'[t] = response'[s].request.name /\ Settled(t)'
  <2>1. CASE response' = response
    <3>1. name[t] = response[s].request.name /\ Settled(t)
      BY <1>4, <2>1 DEF AddressInv
    <3> QED BY <1>1, <2>1, <3>1
  <2>2. CASE response' # response
    <3>1. clientOnline[request[s].name] = t /\ response'[s].request = request[s]
      BY <1>3, <1>4, <2>2, StreamsAssumption
    <3>2. name[t] = request[s].name /\ Settled(t)
      BY <1>3, <2>2, <3>1 DEF AddressInv
    <3> QED BY <1>1, <3>1, <3>2
  <2> QED BY <2>1, <2>2
<1>5. ASSUME answer'[s] = "answered", response'[s].request.type = "GetIpByUserName"
      PROVE  response'[s].userip \in Streams
  <2>1. CASE UNCHANGED <<answer, response>>
    BY <1>5, <2>1 DEF AddressInv
  <2>2. ASSUME NEW type, Read(s, type), type # "none", link[s] = "open"
        PROVE  /\ request[s].type = type
               /\ response'[s] = [request |-> request[s],
                                  userip |-> IF request[s].type = "GetIpByUserName"
                                             THEN clientOnline[request[s].name] ELSE Absent,
                                  usernames |-> Usernames(s)]
    BY <2>2 DEF Read, NoRequest, ServerStep, QuestionInv
  <2>3. CASE GetIpByUserName(s)
    <3>1. link[s] = "open"
      BY <1>5, <2>3 DEF GetIpByUserName, Write, TypeOK
    <3>2. Read(s, "GetIpByUserName") /\ clientOnline[request[s].name] # Absent
      BY <2>3 DEF GetIpByUserName
    <3>3. request[s].name \in Names
      BY <3>2, RequestName DEF Read, NoRequest
    <3> QED BY <2>2, <3>1, <3>2, <3>3 DEF TypeOK
  <2>4. CASE GetClientsOnline(s)
    <3>1. link[s] = "open"
      BY <1>5, <2>4 DEF GetClientsOnline, Write, TypeOK
    <3> QED BY <1>5, <2>2, <2>4, <3>1 DEF GetClientsOnline
  <2>5. CASE Authorize(s) \/ Refuse(s)
    BY <1>5, <2>5 DEF Authorize, Refuse, Write, TypeOK
  <2>6. CASE GetUnknownUserName(s)
    <3>1. request[s] # NoRequest /\ answer' = answer
      BY <2>6 DEF GetUnknownUserName, Read, NoRequest
    <3> QED BY <1>5, <3>1 DEF AddressInv
  <2>7. CASE Start(s) \/ EndOfStream(s)
    BY <2>1, <2>7 DEF Start, EndOfStream, ServerStep
  <2> QED BY <2>3, <2>4, <2>5, <2>6, <2>7 DEF ServerStep, Authorization
<1>6. answer'[s] # "none" => request'[s] = NoRequest
  BY AnswerOfServer DEF ServerStep
<1>7. \A n \in Names, t \in Streams : clientOnline'[n] = t => name'[t] = n /\ Settled(t)'
  BY EntryOfServer
<1>8. ASSUME NEW r \in Streams, NEW t \in Streams, response'[r].userip = t
      PROVE  name'[t] = response'[r].request.name /\ Settled(t)'
  <2>1. CASE r = s
    BY <1>4, <1>8, <2>1
  <2>2. CASE r # s
    <3>1. name[t] = response[r].request.name /\ Settled(t)
      BY <1>2, <1>8, <2>2 DEF AddressInv
    <3> QED BY <1>1, <1>2, <2>2, <3>1
  <2> QED BY <2>1, <2>2
<1>9. \A r \in Streams :
         /\ answer'[r] = "answered" /\ response'[r].request.type = "GetIpByUserName" =>
              response'[r].userip \in Streams
         /\ answer'[r] # "none" => request'[r] = NoRequest
  BY <1>2, <1>5, <1>6 DEF AddressInv
<1> QED BY <1>7, <1>8, <1>9 DEF AddressInv

(* A step of a client only takes answers away.                             *)
LEMMA AddressKept ==
    ASSUME TypeOK, WaitsOnStream, AddressInv, [SessionNext]_sessionVars,
           UNCHANGED clientOnline,
           \A t \in Streams : response'[t] \in {response[t], NoResponse},
           \A t \in Streams : answer'[t] = "none" \/ (answer'[t] = answer[t] /\ request'[t] = request[t])
    PROVE  AddressInv'
<1>1. \A t \in Streams : Settled(t) => Settled(t)' /\ name'[t] = name[t]
  BY StaysSettled
<1>2. \A n \in Names, t \in Streams : clientOnline'[n] = t => name'[t] = n /\ Settled(t)'
  BY <1>1 DEF AddressInv
<1>3. ASSUME NEW s \in Streams, NEW t \in Streams, response'[s].userip = t
      PROVE  name'[t] = response'[s].request.name /\ Settled(t)'
  <2>1. response'[s] = response[s]
    BY <1>3, StreamsAssumption DEF NoResponse
  <2> QED BY <1>1, <1>3, <2>1 DEF AddressInv
<1>4. \A s \in Streams :
         answer'[s] = "answered" /\ response'[s].request.type = "GetIpByUserName" =>
             response'[s].userip \in Streams
  BY DEF AddressInv, NoResponse, NoRequest
<1>5. \A s \in Streams : answer'[s] # "none" => request'[s] = NoRequest
  BY DEF AddressInv
<1> QED BY <1>2, <1>3, <1>4, <1>5 DEF AddressInv

LEMMA AddressStep ==
    ASSUME DirectoryInv, WaitsOnStream, QuestionInv, AddressInv, [SessionNext]_sessionVars
    PROVE  AddressInv'
<1>0. TypeOK
  BY DEF DirectoryInv
<1>1. CASE UNCHANGED <<vars, response>>
  BY <1>0, <1>1, AddressKept DEF vars
<1>2. ASSUME NEW c \in Clients, NEW n \in Names, PressSignIn(c, n) PROVE AddressInv'
  <2>1. PICK s \in Streams : link[s] = "none" /\ Open(s, n) /\ UNCHANGED response
    BY <1>2, FreshStream DEF PressSignIn
  <2>2. answer[s] = "none" /\ UNCHANGED <<answer, clientOnline>>
    BY <2>1 DEF Open, QuestionInv
  <2>3. \A t \in Streams \ {s} : request'[t] = request[t]
    BY <2>1, <1>0 DEF Open, TypeOK
  <2> QED BY <1>0, <2>1, <2>2, <2>3, AddressKept
<1>3. ASSUME NEW c \in Clients, mstream[c] \in Streams,
             Leave(mstream[c]) \/ Drop(mstream[c]) \/ (\E r \in Requests : Ask(mstream[c], r))
                 \/ UNCHANGED vars,
             Consumed(mstream[c]) \/ UNCHANGED response
      PROVE  AddressInv'
  <2>1. /\ UNCHANGED clientOnline
        /\ \A t \in Streams : answer'[t] = "none" \/ (answer'[t] = answer[t] /\ request'[t] = request[t])
    BY <1>0, <1>3 DEF Leave, Drop, Forget, Ask, vars, TypeOK
  <2>2. \A t \in Streams : response'[t] \in {response[t], NoResponse}
    BY <1>3 DEF Consumed, QuestionInv
  <2> QED BY <1>0, <2>1, <2>2, AddressKept
<1>4. ASSUME NEW c \in Clients, hasConnection[c], NEW for, NEW r \in Requests, WriteQuestion(c, for, r)
      PROVE  AddressInv'
  BY <1>3, <1>4 DEF WriteQuestion, WaitsOnStream
<1>5. ASSUME NEW c \in Clients, NEW n \in Names, PressCall(c, n) PROVE AddressInv'
  <2>1. [type |-> "GetIpByUserName", name |-> n] \in Requests
    BY DEF Requests
  <2> QED BY <1>1, <1>4, <1>5, <2>1 DEF PressCall, BackToAuthorization
<1>6. ASSUME NEW c \in Clients, PressRefresh(c) PROVE AddressInv'
  <2>1. [type |-> "GetClientsOnline", name |-> EmptyName] \in Requests
    BY DEF Requests
  <2> QED BY <1>1, <1>4, <1>6, <2>1 DEF PressRefresh, BackToAuthorization
<1>7. ASSUME NEW c \in Clients, PressExit(c) PROVE AddressInv'
  BY <1>1, <1>3, <1>7 DEF PressExit, WaitsOnStream
<1>8. ASSUME NEW c \in Clients, GuiGoesOn(c) PROVE AddressInv'
  <2>1. mstream[c] \in Streams
    BY <1>8 DEF GuiGoesOn, SignInSucceeds, SignInRefused, ReadFails, ReadClients, ReadAddress,
                FinishReturns, WaitsOnStream, GuiIdle, Waits
  <2> QED BY <1>3, <1>8, <2>1 DEF GuiGoesOn, SignInSucceeds, SignInRefused, ReadFails, ReadClients,
                                  ReadAddress, FinishReturns
<1>9. ASSUME NEW c \in Clients, LoseConnection(c) \/ Crash(c) PROVE AddressInv'
  BY <1>3, <1>9 DEF LoseConnection, Crash, WaitsOnStream
<1>10. ASSUME NEW c \in Clients,
              \/ ShowState(c) \/ RefreshView(c) \/ PressClear(c) \/ IncomingCallRings(c)
              \/ \E thread \in callThreads[c] : CallEnds(c, thread)
              \/ \E n \in Names : AddMissedCall(c, n)
       PROVE  AddressInv'
  BY <1>1, <1>10 DEF ShowState, RefreshView, PressClear, IncomingCallRings, CallEnds, AddMissedCall
<1>11. CASE UNCHANGED sessionVars
  BY <1>1, <1>11 DEF sessionVars
<1> QED BY <1>0, <1>2, <1>5, <1>6, <1>7, <1>8, <1>9, <1>10, <1>11, AddressOfServer
    DEF SessionNext, User, Environment

(* Whom a call was dialled to.                                             *)
Dialling(cl, d) ==
    /\ d.ip.port = ClientPort
    /\ \E s \in Streams : /\ Settled(s) /\ name[s] = d.name
                         /\ d.ip.host = IF owner[s] \in DottedHosts THEN owner[s] ELSE Nothing

Dials == [name: Names, ip: [host: Clients \cup {Nothing}, port: Streams \cup {ClientPort}]]

CallsInv ==
    /\ callThreads \in [Clients -> SUBSET {"in", "out"}]
    /\ dialled \in [Clients -> SUBSET Dials]
    /\ \A cl \in Clients : \A d \in dialled[cl] : Dialling(cl, d)

LEMMA CallsInit == SessionInit => CallsInv
BY DEF SessionInit, CallsInv

LEMMA DialledRight ==
    ASSUME WaitsOnStream, OwnerInv, QuestionInv, AddressInv, NEW c \in Clients, ReadAddress(c)
    PROVE  LET d == [name |-> question[c].name,
                     ip |-> ChangePort(Peer(response[mstream[c]].userip), ClientPort)]
           IN  d \in Dials /\ Dialling(c, d)
<1> DEFINE u == response[mstream[c]].userip
           d == [name |-> question[c].name, ip |-> ChangePort(Peer(u), ClientPort)]
<1>1. /\ mstream[c] \in Streams /\ question[c].type = "GetIpByUserName"
      /\ response[mstream[c]].request = question[c]
  BY DEF ReadAddress, Waits, WaitsOnStream, GuiIdle, QuestionInv
<1>2. question[c].name \in Names
  BY <1>1 DEF QuestionInv, Requests, NoRequest
<1>3. u \in Streams
  BY <1>1 DEF ReadAddress, AddressInv
<1>4. name[u] = question[c].name /\ Settled(u)
  BY <1>1, <1>3 DEF AddressInv
<1>5. owner[u] \in Clients
  BY <1>3, <1>4 DEF OwnerInv, Settled
<1> HIDE DEF u
<1>6. IsValidIp(Peer(u)) <=> owner[u] \in DottedHosts
  BY <1>3 DEF IsValidIp, Peer
<1>7. /\ d.ip.host = IF owner[u] \in DottedHosts THEN owner[u] ELSE Nothing
      /\ d.ip.port = ClientPort /\ d.ip = [host |-> d.ip.host, port |-> d.ip.port]
  BY <1>6 DEF ChangePort, Captured, Peer
<1>8. d.name = question[c].name /\ d = [name |-> d.name, ip |-> d.ip]
  OBVIOUS
<1> HIDE DEF d
<1>9. d \in Dials
  BY <1>2, <1>5, <1>7, <1>8 DEF Dials
<1>10. Dialling(c, d)
  BY <1>3, <1>4, <1>7, <1>8 DEF Dialling
<1> QED BY <1>9, <1>10 DEF d, u

LEMMA CallsStep ==
    ASSUME TypeOK, WaitsOnStream, OwnerInv, QuestionInv, AddressInv, CallsInv,
           [SessionNext]_sessionVars
    PROVE  CallsInv'
<1>1. ASSUME NEW cl \in Clients, NEW d, Dialling(cl, d) PROVE Dialling(cl, d)'
  <2>1. PICK s \in Streams : /\ Settled(s) /\ name[s] = d.name
                             /\ d.ip.host = IF owner[s] \in DottedHosts THEN owner[s] ELSE Nothing
    BY <1>1 DEF Dialling
  <2>2. Settled(s)' /\ name'[s] = name[s] /\ owner'[s] = owner[s]
    BY <2>1, StaysSettled, OwnerStays DEF Settled
  <2> QED BY <1>1, <2>1, <2>2 DEF Dialling
<1>2. ASSUME callThreads' \in [Clients -> SUBSET {"in", "out"}], dialled' \in [Clients -> SUBSET Dials],
             \A cl \in Clients : \A d \in dialled'[cl] : Dialling(cl, d)
      PROVE  CallsInv'
  BY <1>1, <1>2 DEF CallsInv
<1>3. CASE UNCHANGED calls
  BY <1>2, <1>3 DEF calls, CallsInv
<1>4. ASSUME NEW c \in Clients, ReadAddress(c) PROVE CallsInv'
  <2> DEFINE d == [name |-> question[c].name,
                   ip |-> ChangePort(Peer(response[mstream[c]].userip), ClientPort)]
  <2>1. d \in Dials /\ Dialling(c, d)
    BY <1>4, DialledRight
  <2>2. /\ dialled' = [dialled EXCEPT ![c] = @ \cup {d}]
        /\ callThreads' = [callThreads EXCEPT ![c] = @ \cup {"out"}]
    BY <1>4 DEF ReadAddress
  <2> HIDE DEF d
  <2>3. callThreads' \in [Clients -> SUBSET {"in", "out"}] /\ dialled' \in [Clients -> SUBSET Dials]
    BY <2>1, <2>2 DEF CallsInv
  <2>4. \A cl \in Clients : \A e \in dialled'[cl] : Dialling(cl, e)
    BY <2>1, <2>2 DEF CallsInv, Dialling
  <2> QED BY <1>2, <2>3, <2>4
<1>5. ASSUME NEW c \in Clients,
             IncomingCallRings(c) \/ (\E thread \in callThreads[c] : CallEnds(c, thread)) \/ Crash(c)
      PROVE  CallsInv'
  <2>1. callThreads' \in [Clients -> SUBSET {"in", "out"}]
    BY <1>5 DEF IncomingCallRings, CallEnds, Crash, CallsInv
  <2>2. \/ dialled' = dialled
        \/ dialled' = [dialled EXCEPT ![c] = {}]
    BY <1>5 DEF IncomingCallRings, CallEnds, Crash
  <2>3. dialled' \in [Clients -> SUBSET Dials] /\ \A cl \in Clients : dialled'[cl] \subseteq dialled[cl]
    BY <2>2 DEF CallsInv
  <2> QED BY <1>2, <2>1, <2>3 DEF CallsInv
<1>6. ASSUME NEW s \in Streams, ServerStep(s) PROVE CallsInv'
  BY <1>3, <1>6 DEF ServerStep
<1>7. ASSUME NEW c \in Clients, GuiGoesOn(c) PROVE CallsInv'
  BY <1>3, <1>4, <1>7 DEF GuiGoesOn, SignInSucceeds, SignInRefused, ReadFails, ReadClients,
                          FinishReturns
<1>8. ASSUME NEW c \in Clients, NEW n \in Names, PressSignIn(c, n) \/ PressCall(c, n) PROVE CallsInv'
  BY <1>3, <1>8 DEF PressSignIn, PressCall, BackToAuthorization, WriteQuestion
<1>9. ASSUME NEW c \in Clients, PressRefresh(c) \/ PressExit(c) \/ PressClear(c) PROVE CallsInv'
  BY <1>3, <1>9 DEF PressRefresh, PressExit, PressClear, BackToAuthorization, WriteQuestion
<1>10. ASSUME NEW c \in Clients,
              \/ ShowState(c) \/ RefreshView(c) \/ LoseConnection(c)
              \/ \E n \in Names : AddMissedCall(c, n)
       PROVE  CallsInv'
  BY <1>3, <1>10 DEF ShowState, RefreshView, LoseConnection, AddMissedCall
<1>11. CASE UNCHANGED sessionVars
  BY <1>3, <1>11 DEF sessionVars
<1> QED BY <1>5, <1>6, <1>7, <1>8, <1>9, <1>10, <1>11 DEF SessionNext, User, Environment

-----------------------------------------------------------------------------
(* Nobody waits in vain.  A client that is signed in and not waiting has   *)
(* the last answer, so that it can ask again or leave; a handler that gave *)
(* one other than a refusal reads on.                                      *)
NotForgotten(cl) ==
    /\ gui[cl] \in {"authorizing", "listing", "lookup"} =>
          \/ answer[mstream[cl]] \in Awaited(gui[cl])
          \/ StreamFailed(mstream[cl])
          \/ request[mstream[cl]] # NoRequest /\ handler[mstream[cl]] \in {"none", "reading"}
    /\ Waits(cl, "finishing") => link[mstream[cl]] = "ended"
    /\ gui[cl] = "authorizing" /\ link[mstream[cl]] = "open" /\ request[mstream[cl]] # NoRequest
          => request[mstream[cl]].type = "Authorization"
    /\ hasConnection[cl] /\ GuiIdle(cl) /\ link[mstream[cl]] = "open"
          => answer[mstream[cl]] \in {"granted", "answered"}

AnswerInv ==
    /\ \A cl \in Clients : NotForgotten(cl)
    /\ \A s \in Streams : answer[s] \in {"granted", "answered"} => handler[s] = "reading"

LEMMA AnswerInit == SessionInit => AnswerInv
BY DEF SessionInit, Init, AnswerInv, NotForgotten, GuiIdle, Waits

(* What happens on other streams does not matter to a client.              *)
LEMMA StaysRemembered ==
    ASSUME WaitsOnStream, NEW d \in Clients, NotForgotten(d),
           gui'[d] = gui[d], mstream'[d] = mstream[d], hasConnection'[d] = hasConnection[d],
           mstream[d] \in Streams =>
              /\ link'[mstream[d]] = link[mstream[d]] /\ request'[mstream[d]] = request[mstream[d]]
              /\ answer'[mstream[d]] = answer[mstream[d]]
              /\ handler'[mstream[d]] = handler[mstream[d]]
    PROVE  NotForgotten(d)'
<1>1. CASE mstream[d] \in Streams
  BY <1>1 DEF NotForgotten, StreamFailed, Waits, GuiIdle
<1>2. CASE mstream[d] \notin Streams
  BY <1>2 DEF NotForgotten, Waits, GuiIdle, WaitsOnStream
<1> QED BY <1>1, <1>2

(* The handler answers what it reads, as long as there is somebody to      *)
(* answer, or returns.                                                     *)
LEMMA AnswerFromHandler ==
    ASSUME DirectoryInv, WaitsOnStream, OwnerInv, QuestionInv, AddressInv, AnswerInv,
           NEW s \in Streams, ServerStep(s)
    PROVE  AnswerInv'
<1> USE DEF StreamFailed
<1>0. TypeOK
  BY DEF DirectoryInv
<1>1. UNCHANGED <<gui, mstream, hasConnection, link>>
  BY DEF ServerStep, session, Start, Authorization, Authorize, Refuse, GetClientsOnline,
         GetIpByUserName, GetUnknownUserName, EndOfStream
<1>2. \A t \in Streams \ {s} :
         request'[t] = request[t] /\ answer'[t] = answer[t] /\ handler'[t] = handler[t]
  BY <1>0 DEF ServerStep, Start, Authorization, Authorize, Refuse, GetClientsOnline, GetIpByUserName,
              GetUnknownUserName, EndOfStream, Read, Write, TypeOK
<1>3. CASE Start(s)
  <2>1. /\ handler[s] = "none" /\ handler'[s] = "reading"
        /\ UNCHANGED <<request, answer>>
    BY <1>0, <1>3 DEF Start, TypeOK
  <2>2. ASSUME NEW cl \in Clients PROVE NotForgotten(cl)'
    <3>1. NotForgotten(cl)
      BY DEF AnswerInv
    <3>2. CASE mstream[cl] = s
      BY <1>1, <2>1, <3>1, <3>2 DEF NotForgotten, Waits, GuiIdle
    <3>3. CASE mstream[cl] # s
      BY <1>1, <1>2, <3>1, <3>3, StaysRemembered
    <3> QED BY <3>2, <3>3
  <2> QED BY <1>2, <2>1, <2>2 DEF AnswerInv
<1>4. CASE EndOfStream(s)
  <2>1. link[s] = "ended" /\ answer'[s] = "none"
    BY <1>4 DEF EndOfStream, QuestionInv
  <2>2. ASSUME NEW cl \in Clients PROVE NotForgotten(cl)'
    <3>1. NotForgotten(cl)
      BY DEF AnswerInv
    <3>2. CASE mstream[cl] = s
      BY <1>1, <2>1, <3>1, <3>2 DEF NotForgotten, Waits, GuiIdle
    <3>3. CASE mstream[cl] # s
      BY <1>1, <1>2, <3>1, <3>3, StaysRemembered
    <3> QED BY <3>2, <3>3
  <2> QED BY <1>2, <2>1, <2>2 DEF AnswerInv
<1>5. CASE Authorize(s) \/ Refuse(s) \/ GetClientsOnline(s) \/ GetIpByUserName(s)
           \/ GetUnknownUserName(s)
  <2>1. /\ request[s] # NoRequest /\ request'[s] = NoRequest /\ handler[s] = "reading"
        /\ answer[s] = "none" /\ link[s] \in {"open", "ended"}
    <3>1. request[s] # NoRequest /\ request'[s] = NoRequest /\ handler[s] = "reading"
      BY <1>0, <1>5 DEF Authorize, Refuse, GetClientsOnline, GetIpByUserName, GetUnknownUserName,
                        Read, NoRequest, TypeOK
    <3> QED BY <1>0, <3>1 DEF AddressInv, DirectoryInv, TypeOK, Answers
  <2>2. \/ /\ request[s].type = "Authorization"
           /\ \/ handler'[s] = "reading" /\ answer'[s] = IF link[s] = "open" THEN "granted" ELSE "none"
              \/ handler'[s] = "cancelled" /\ answer'[s] = IF link[s] = "open" THEN "refused" ELSE "none"
        \/ /\ request[s].type # "Authorization"
           /\ \/ handler'[s] = "reading" /\ answer'[s] = IF link[s] = "open" THEN "answered" ELSE "none"
              \/ handler'[s] = "cancelled" /\ answer'[s] = "none"
    BY <1>0, <1>5, <2>1 DEF Authorize, Refuse, GetClientsOnline, GetIpByUserName, GetUnknownUserName,
                            Read, Write, TypeOK
  <2>3. ASSUME NEW cl \in Clients PROVE NotForgotten(cl)'
    <3>1. NotForgotten(cl)
      BY DEF AnswerInv
    <3>2. CASE mstream[cl] = s /\ link[s] = "ended"
      BY <1>1, <3>1, <3>2 DEF NotForgotten, Waits, GuiIdle
    <3>3. CASE mstream[cl] = s /\ link[s] = "open"
      <4>1. gui[cl] \in {"listing", "lookup"} => request[s].type # "Authorization"
        BY <2>1, <3>3 DEF QuestionInv
      <4>2. gui[cl] = "authorizing" => request[s].type = "Authorization"
        BY <2>1, <3>1, <3>3 DEF NotForgotten
      <4>3. ~Waits(cl, "finishing") /\ ~(hasConnection[cl] /\ GuiIdle(cl))
        BY <2>1, <3>1, <3>3 DEF NotForgotten
      <4>4. mstream'[cl] = s /\ link'[s] = "open" /\ gui'[cl] = gui[cl]
        BY <1>1, <3>3
      <4>5. \/ handler'[s] = "cancelled" /\ answer'[s] = "none"
            \/ request[s].type = "Authorization" /\ answer'[s] \in {"granted", "refused"}
            \/ request[s].type # "Authorization" /\ answer'[s] = "answered"
        BY <2>2, <3>3
      <4>6. CASE gui[cl] \in {"listing", "lookup"}
        BY <4>1, <4>4, <4>5, <4>6 DEF NotForgotten, Awaited, Waits, GuiIdle
      <4>7. CASE gui[cl] = "authorizing"
        BY <2>1, <4>2, <4>4, <4>5, <4>7 DEF NotForgotten, Awaited, Waits, GuiIdle
      <4>8. CASE gui[cl] \notin {"authorizing", "listing", "lookup"}
        BY <1>1, <4>3, <4>4, <4>8 DEF NotForgotten, Waits, GuiIdle
      <4> QED BY <4>6, <4>7, <4>8
    <3>4. CASE mstream[cl] # s
      BY <1>1, <1>2, <3>1, <3>4, StaysRemembered
    <3> QED BY <2>1, <3>2, <3>3, <3>4
  <2> QED BY <1>2, <2>2, <2>3 DEF AnswerInv
<1> QED BY <1>3, <1>4, <1>5 DEF ServerStep, Authorization

(* One client acts on its own stream; what it knows then is its own affair.*)
LEMMA AnswerOfClient ==
    ASSUME WaitsOnStream, OwnerInv, AnswerInv, NEW c \in Clients, NEW s \in Streams,
           mstream[c] = s \/ link[s] = "none",
           \A t \in Streams \ {s} :
              link'[t] = link[t] /\ request'[t] = request[t] /\ answer'[t] = answer[t],
           answer'[s] \in {"none", answer[s]}, UNCHANGED handler,
           \A d \in Clients \ {c} : /\ mstream'[d] = mstream[d] /\ gui'[d] = gui[d]
                                    /\ hasConnection'[d] = hasConnection[d],
           NotForgotten(c)'
    PROVE  AnswerInv'
<1>1. ASSUME NEW d \in Clients \ {c} PROVE NotForgotten(d)'
  <2>1. mstream[d] \in Streams => mstream[d] # s
    BY <1>1, OwnStream DEF OwnerInv
  <2> QED BY <1>1, <2>1, StaysRemembered DEF AnswerInv
<1>2. \A t \in Streams : answer'[t] \in {"granted", "answered"} => handler'[t] = "reading"
  BY DEF AnswerInv
<1> QED BY <1>1, <1>2 DEF AnswerInv

LEMMA AnswerStep ==
    ASSUME DirectoryInv, WaitsOnStream, OwnerInv, QuestionInv, AddressInv, AnswerInv,
           [SessionNext]_sessionVars
    PROVE  AnswerInv'
<1>0. TypeOK
  BY DEF DirectoryInv
<1>1. CASE UNCHANGED <<vars, session>>
  BY <1>1 DEF vars, session, AnswerInv, NotForgotten, StreamFailed, Waits, GuiIdle
<1>2. ASSUME NEW c \in Clients, NEW n \in Names, PressSignIn(c, n) PROVE AnswerInv'
  <2>1. PICK s \in Streams : /\ link[s] = "none" /\ Open(s, n)
                             /\ mstream' = [mstream EXCEPT ![c] = s]
                             /\ GuiTurns(c, "authorizing", request'[s])
                             /\ UNCHANGED hasConnection
    BY <1>2, FreshStream DEF PressSignIn
  <2>2. /\ UNCHANGED <<answer, handler>> /\ handler[s] = "none"
        /\ request'[s].type = "Authorization" /\ request'[s] # NoRequest
        /\ \A t \in Streams \ {s} : link'[t] = link[t] /\ request'[t] = request[t]
    BY <1>0, <2>1 DEF Open, TypeOK, NoRequest, DirectoryInv
  <2>3. /\ gui'[c] = "authorizing" /\ mstream'[c] = s
        /\ \A d \in Clients \ {c} : mstream'[d] = mstream[d] /\ gui'[d] = gui[d]
    BY <2>1 DEF GuiTurns, WaitsOnStream
  <2>4. NotForgotten(c)'
    BY <2>2, <2>3 DEF NotForgotten, Waits, GuiIdle
  <2> QED BY <2>1, <2>2, <2>3, <2>4, AnswerOfClient
<1>3. ASSUME NEW c \in Clients, hasConnection[c], gui[c] = "idle",
             NEW for \in {"listing", "lookup"}, NEW r \in Requests, WriteQuestion(c, for, r)
      PROVE  AnswerInv'
  <2> DEFINE s == mstream[c]
  <2>1. s \in Streams
    BY <1>3 DEF WaitsOnStream
  <2>2. /\ UNCHANGED <<hasConnection, mstream, link, handler>> /\ gui'[c] = for
        /\ \A d \in Clients \ {c} : gui'[d] = gui[d]
    BY <1>3 DEF WriteQuestion, Ask, vars, GuiTurns, WaitsOnStream
  <2>3. CASE link[s] = "open"
    <3>1. answer[s] \in {"granted", "answered"} /\ handler[s] = "reading"
      BY <1>3, <2>1, <2>3 DEF AnswerInv, NotForgotten, GuiIdle
    <3>2. /\ request' = [request EXCEPT ![s] = r] /\ answer' = [answer EXCEPT ![s] = "none"]
          /\ r # NoRequest
      BY <1>3, <2>3 DEF WriteQuestion, Ask, Requests, NoRequest
    <3>3. NotForgotten(c)'
      BY <1>0, <1>3, <2>1, <2>2, <3>1, <3>2 DEF NotForgotten, Waits, GuiIdle, TypeOK
    <3> QED BY <1>0, <2>1, <2>2, <3>2, <3>3, AnswerOfClient DEF TypeOK
  <2>4. CASE link[s] # "open"
    <3>1. link[s] = "ended" /\ UNCHANGED vars
      BY <1>0, <1>3, <2>1, <2>4 DEF WriteQuestion, TypeOK, OwnerInv
    <3>2. NotForgotten(c)'
      BY <1>3, <2>2, <3>1 DEF NotForgotten, StreamFailed, Waits, GuiIdle, vars
    <3> QED BY <2>1, <2>2, <3>1, <3>2, AnswerOfClient DEF vars
  <2> QED BY <2>3, <2>4
<1>4. ASSUME NEW c \in Clients, NEW n \in Names, PressCall(c, n) PROVE AnswerInv'
  <2>1. [type |-> "GetIpByUserName", name |-> n] \in Requests
    BY DEF Requests
  <2> QED BY <1>1, <1>3, <1>4, <2>1 DEF PressCall, BackToAuthorization, Press, GuiIdle
<1>5. ASSUME NEW c \in Clients, PressRefresh(c) PROVE AnswerInv'
  <2>1. [type |-> "GetClientsOnline", name |-> EmptyName] \in Requests
    BY DEF Requests
  <2> QED BY <1>1, <1>3, <1>5, <2>1 DEF PressRefresh, BackToAuthorization, Press, GuiIdle
<1>6. ASSUME NEW c \in Clients, mstream[c] \in Streams, UNCHANGED <<handler, mstream>>,
             Leave(mstream[c]) \/ Drop(mstream[c]),
             \A d \in Clients \ {c} : gui'[d] = gui[d] /\ hasConnection'[d] = hasConnection[d]
      PROVE  AnswerInv'
  <2> DEFINE s == mstream[c]
  <2>1. /\ link'[s] = "ended" /\ answer'[s] = "none"
        /\ \A t \in Streams \ {s} :
              link'[t] = link[t] /\ request'[t] = request[t] /\ answer'[t] = answer[t]
    BY <1>0, <1>6 DEF Leave, Drop, Forget, TypeOK
  <2>2. NotForgotten(c)'
    BY <1>6, <2>1 DEF NotForgotten, StreamFailed, Waits, GuiIdle
  <2> QED BY <1>6, <2>1, <2>2, AnswerOfClient
<1>7. ASSUME NEW c \in Clients, mstream[c] \in Streams, UNCHANGED <<vars, mstream>>,
             gui'[c] = "idle",
             ~hasConnection'[c] \/ answer[mstream[c]] \in {"granted", "answered"},
             \A d \in Clients \ {c} : gui'[d] = gui[d] /\ hasConnection'[d] = hasConnection[d]
      PROVE  AnswerInv'
  <2>1. NotForgotten(c)'
    BY <1>7 DEF NotForgotten, Waits, GuiIdle, vars
  <2> QED BY <1>7, <2>1, AnswerOfClient DEF vars
<1>8. ASSUME NEW c \in Clients, NEW b \in BOOLEAN, Connected(c, b)
      PROVE  /\ hasConnection'[c] = b
             /\ \A d \in Clients \ {c} : hasConnection'[d] = hasConnection[d]
  BY <1>8 DEF Connected, WaitsOnStream
<1>9. ASSUME NEW c \in Clients, NEW to, NEW r, GuiTurns(c, to, r)
      PROVE  gui'[c] = to /\ \A d \in Clients \ {c} : gui'[d] = gui[d]
  BY <1>9 DEF GuiTurns, WaitsOnStream
<1>10. ASSUME NEW c \in Clients, PressExit(c) PROVE AnswerInv'
  <2>1. CASE hasConnection[c] /\ Leave(mstream[c]) /\ GuiTurns(c, "finishing", NoRequest)
             /\ UNCHANGED <<hasConnection, mstream>>
    <3>1. mstream[c] \in Streams /\ UNCHANGED handler
      BY <2>1 DEF WaitsOnStream, Leave, Forget
    <3> QED BY <1>6, <1>9, <2>1, <3>1
  <2>2. CASE Connected(c, FALSE) /\ UNCHANGED <<vars, gui, mstream>> /\ gui[c] = "idle"
    <3>1. ~hasConnection'[c] /\ \A d \in Clients \ {c} : hasConnection'[d] = hasConnection[d]
      BY <1>8, <2>2
    <3>2. CASE mstream[c] \in Streams
      BY <1>7, <2>2, <3>1, <3>2
    <3>3. CASE mstream[c] \notin Streams
      <4>1. ~hasConnection[c]
        BY <3>3 DEF WaitsOnStream
      <4> QED BY <2>2, <3>1, <4>1 DEF AnswerInv, NotForgotten, StreamFailed, Waits, GuiIdle, vars
    <3> QED BY <3>2, <3>3
  <2> QED BY <1>10, <2>1, <2>2 DEF PressExit, Press, GuiIdle
<1>11. ASSUME NEW c \in Clients, GuiGoesOn(c) PROVE AnswerInv'
  <2>1. mstream[c] \in Streams /\ mstream' = mstream
    BY <1>11 DEF GuiGoesOn, SignInSucceeds, SignInRefused, ReadFails, ReadClients, ReadAddress,
                 FinishReturns, WaitsOnStream, GuiIdle, Waits
  <2>2. gui'[c] = "idle" /\ \A d \in Clients \ {c} : gui'[d] = gui[d]
    BY <1>9, <1>11 DEF GuiGoesOn, SignInSucceeds, SignInRefused, ReadFails, ReadClients,
                       ReadAddress, FinishReturns
  <2>3. CASE SignInSucceeds(c) \/ ReadClients(c) \/ ReadAddress(c)
    <3>1. /\ UNCHANGED vars /\ answer[mstream[c]] \in {"granted", "answered"}
          /\ Connected(c, TRUE) \/ UNCHANGED hasConnection
      BY <2>3 DEF SignInSucceeds, ReadClients, ReadAddress
    <3>2. \A d \in Clients \ {c} : hasConnection'[d] = hasConnection[d]
      BY <1>8, <3>1
    <3> QED BY <1>7, <2>1, <2>2, <3>1, <3>2
  <2>4. CASE SignInRefused(c) \/ ReadFails(c) \/ FinishReturns(c)
    <3>1. /\ Leave(mstream[c]) \/ UNCHANGED vars
          /\ Connected(c, FALSE)
      BY <2>4 DEF SignInRefused, ReadFails, FinishReturns
    <3>2. ~hasConnection'[c] /\ \A d \in Clients \ {c} : hasConnection'[d] = hasConnection[d]
      BY <1>8, <3>1
    <3>3. UNCHANGED handler
      BY <3>1 DEF Leave, Forget, vars
    <3> QED BY <1>6, <1>7, <2>1, <2>2, <3>1, <3>2, <3>3
  <2> QED BY <1>11, <2>3, <2>4 DEF GuiGoesOn
<1>12. ASSUME NEW c \in Clients, LoseConnection(c) PROVE AnswerInv'
  <2>1. /\ mstream[c] \in Streams /\ Drop(mstream[c]) /\ UNCHANGED <<handler, mstream>>
        /\ UNCHANGED <<gui, hasConnection>>
    BY <1>12 DEF LoseConnection, WaitsOnStream, Drop, Forget, session
  <2> QED BY <1>6, <2>1
<1>13. ASSUME NEW c \in Clients, Crash(c) PROVE AnswerInv'
  <2>1. mstream[c] \in Streams
    BY <1>13 DEF Crash, WaitsOnStream
  <2>2. /\ gui'[c] = "idle" /\ ~hasConnection'[c]
        /\ \A d \in Clients \ {c} : /\ mstream'[d] = mstream[d] /\ gui'[d] = gui[d]
                                    /\ hasConnection'[d] = hasConnection[d]
    BY <1>13 DEF Crash, GuiTurns, Connected, WaitsOnStream
  <2>3. /\ answer'[mstream[c]] \in {"none", answer[mstream[c]]} /\ UNCHANGED handler
        /\ \A t \in Streams \ {mstream[c]} :
              link'[t] = link[t] /\ request'[t] = request[t] /\ answer'[t] = answer[t]
    BY <1>0, <1>13, <2>1 DEF Crash, Drop, Forget, vars, TypeOK
  <2>4. NotForgotten(c)'
    BY <2>2 DEF NotForgotten, Waits, GuiIdle
  <2> QED BY <2>1, <2>2, <2>3, <2>4, AnswerOfClient
<1>14. ASSUME NEW c \in Clients,
              \/ ShowState(c) \/ RefreshView(c) \/ PressClear(c) \/ IncomingCallRings(c)
              \/ \E thread \in callThreads[c] : CallEnds(c, thread)
              \/ \E n \in Names : AddMissedCall(c, n)
       PROVE  AnswerInv'
  BY <1>1, <1>14 DEF ShowState, RefreshView, PressClear, IncomingCallRings, CallEnds, AddMissedCall
<1>15. CASE UNCHANGED sessionVars
  BY <1>1, <1>15 DEF sessionVars
<1> QED BY <1>2, <1>4, <1>5, <1>10, <1>11, <1>12, <1>13, <1>14, <1>15, AnswerFromHandler
    DEF SessionNext, User, Environment

-----------------------------------------------------------------------------
(* The list of users, which only an answer or a new start changes.         *)
ListedInv == listed \in [Clients -> SUBSET Names]

LEMMA ListedStep ==
    ASSUME WaitsOnStream, QuestionInv, ListedInv, [SessionNext]_sessionVars
    PROVE  ListedInv'
<1> USE DEF ListedInv
<1>1. ASSUME NEW c \in Clients, AddClientToModel(c), mstream[c] \in Streams
      PROVE  ListedInv'
  <2>1. response[mstream[c]].usernames \subseteq Names
    BY <1>1 DEF QuestionInv
  <2> QED BY <1>1, <2>1 DEF AddClientToModel
<1>2. ASSUME NEW c \in Clients, SignInSucceeds(c) \/ ReadClients(c)
      PROVE  ListedInv'
  <2>1. mstream[c] \in Streams
    BY <1>2 DEF SignInSucceeds, ReadClients, Waits, WaitsOnStream, GuiIdle
  <2> QED BY <1>1, <1>2, <2>1 DEF SignInSucceeds, ReadClients
<1>3. ASSUME NEW c \in Clients,
             SignInRefused(c) \/ ReadFails(c) \/ ReadAddress(c) \/ FinishReturns(c)
      PROVE  ListedInv'
  BY <1>3 DEF SignInRefused, ReadFails, ReadAddress, FinishReturns
<1>4. ASSUME NEW c \in Clients, User(c)
      PROVE  ListedInv'
  BY <1>4 DEF User, PressRefresh, PressExit, PressClear, PressSignIn, PressCall, WriteQuestion,
              BackToAuthorization, session
<1>5. ASSUME NEW c \in Clients, Environment(c) \/ ShowState(c) \/ RefreshView(c)
      PROVE  ListedInv'
  BY <1>5 DEF Environment, IncomingCallRings, CallEnds, AddMissedCall, LoseConnection, Crash,
              ShowState, RefreshView, session
<1>6. ASSUME NEW s \in Streams, ServerStep(s)
      PROVE  ListedInv'
  BY <1>6 DEF ServerStep, session
<1>7. CASE UNCHANGED sessionVars
  BY <1>7 DEF sessionVars, session
<1> QED BY <1>2, <1>3, <1>4, <1>5, <1>6, <1>7 DEF SessionNext, GuiGoesOn

-----------------------------------------------------------------------------
(* What holds of every session: all of the above together.                 *)
SessionInv ==
    /\ DirectoryInv /\ WaitsOnStream /\ ShownInv /\ OwnerInv /\ QuestionInv /\ ListedInv
    /\ SignedInShown /\ CurrentInv /\ AddressInv /\ CallsInv /\ AnswerInv

LEMMA SessionInvCorrect == SessionSpec => []SessionInv
<1>1. SessionInit => SessionInv
  <2>1. SessionInit => DirectoryInv
    BY InvInit DEF SessionInit
  <2>2. SessionInit => ListedInv
    BY DEF SessionInit, ListedInv
  <2> QED BY <2>1, <2>2, WaitsInit, ShownInit, OwnerInit, QuestionInit, SignedInInit, CurrentInit,
             AddressInit, CallsInit, AnswerInit DEF SessionInv
<1>2. SessionInv /\ [SessionNext]_sessionVars => SessionInv'
  <2> SUFFICES ASSUME SessionInv, [SessionNext]_sessionVars PROVE SessionInv'
    OBVIOUS
  <2> USE DEF SessionInv
  <2>1. TypeOK
    BY DEF DirectoryInv
  <2>2. DirectoryInv'
    BY DirectoryStep, InvStep
  <2>3. WaitsOnStream' /\ ShownInv' /\ OwnerInv' /\ QuestionInv' /\ ListedInv'
    BY <2>1, WaitsStep, ShownStep, OwnerStep, QuestionStep, ListedStep
  <2>4. SignedInShown' /\ CurrentInv' /\ AddressInv' /\ CallsInv' /\ AnswerInv'
    BY <2>1, SignedInStep, CurrentStep, AddressStep, CallsStep, AnswerStep
  <2> QED BY <2>2, <2>3, <2>4
<1> QED BY <1>1, <1>2, PTL DEF SessionSpec

(* Every variable of the sessions and of the server keeps its type.        *)
THEOREM SessionTypeCorrect == SessionSpec => []SessionTypeOK
<1>1. SessionInv => SessionTypeOK
  BY DEF SessionInv, DirectoryInv, WaitsOnStream, ShownInv, OwnerInv, QuestionInv, ListedInv, CallsInv,
         Dials, SessionTypeOK
<1> QED BY <1>1, SessionInvCorrect, PTL

(* No failed question, refusal, sign-out, crash or new sign-in leaves a    *)
(* stream open that its client does not know of (client.cpp:32-186).       *)
THEOREM NoSessionIsLeakedCorrect == SessionSpec => []NoSessionIsLeaked
<1>1. SessionInv => NoSessionIsLeaked
  BY DEF SessionInv, CurrentInv
<1> QED BY <1>1, SessionInvCorrect, PTL

(* The sign-in button is not offered to a client that is connected,        *)
(* although call threads set the state that is shown (client.cpp:32-46).   *)
THEOREM AuthorizationMeansSignedOutCorrect == SessionSpec => []AuthorizationMeansSignedOut
<1>1. SessionInv => AuthorizationMeansSignedOut
  BY DEF SessionInv, SignedInShown, AuthorizationMeansSignedOut, Press
<1> QED BY <1>1, SessionInvCorrect, PTL

(* A GUI thread and a handler never both wait for the other: whoever waits *)
(* has an answer, a failure, or a message on its way to a handler that     *)
(* reads it (client.cpp:32-186, server.cpp:14-69).                         *)
THEOREM NoMutualWaitCorrect == SessionSpec => []NoMutualWait
<1>1. SessionInv => NoMutualWait
  BY DEF SessionInv, AnswerInv, NotForgotten, NoMutualWait
<1> QED BY <1>1, SessionInvCorrect, PTL

(* A call is dialled to the host of a client that signed in under the name *)
(* the user chose, at the configured port, however late the answer comes   *)
(* (client.cpp:111-140, server.cpp:31-60, utils.cpp:34).                   *)
THEOREM DialsTheUserCorrect == SessionSpec => []DialsTheUser
<1>1. SessionInv => DialsTheUser
  BY DEF SessionInv, CallsInv, Dialling, DialsTheUser
<1> QED BY <1>1, SessionInvCorrect, PTL
=============================================================================
