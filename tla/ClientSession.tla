---------------------------- MODULE ClientSession ---------------------------
(***************************************************************************)
(* The clients' sessions with the directory server (client.cpp), composed  *)
(* with the server's handlers (Directory).  Each client has a GUI thread,  *)
(* which serves one button at a time and blocks in Write, Read and Finish, *)
(* and call threads, which set the displayed state behind its back.  Of    *)
(* the calls only this much is kept; PeerToPeer has the rest.  A client    *)
(* may lose its connection or crash and start anew at any time.            *)
(***************************************************************************)
EXTENDS Directory, Addresses, Integers, Sequences

CONSTANTS
    Clients,      \* client processes
    ClientPort    \* mP2PClientSidePort

(* Every client has a host of its own, and every stream a port of its own, *)
(* a number: context->peer() tells them.                                   *)
ASSUME ClientsAssumption == /\ Clients \subseteq Hosts /\ Absent \notin Clients
                            /\ Streams \cap (LongPorts \cup {Nothing}) = {}

VARIABLES
    clientState,     \* the displayed state; "Call" stands for the call screens
    screen,          \* the screen the QML loaders show
    hasConnection,   \* mHasConnection
    mstream,         \* mstream, or Absent
    gui,             \* what the GUI thread waits for
    question,        \* the request it waits with
    response,        \* of each stream: what the last response answered
    owner,           \* of each stream: the client that opened it
    listed,          \* the users in the client's list (QMLClientsOnlineModel)
    callThreads,     \* the call threads of the client
    dialled,         \* the calls that were dialled: whom and where
    missed,          \* mMissedCalls
    missedRows       \* how many of them the view on the Online screen knows of

missedCalls == <<missed, missedRows>>
shown == <<clientState, screen, missedCalls>>
session == <<hasConnection, mstream, gui, question, owner, listed>>
calls == <<callThreads, dialled>>
sessionVars == <<vars, shown, session, response, calls>>

Screens == {"Authorization", "Online", "Call"}
GuiStates == {"idle", "authorizing", "listing", "lookup", "finishing"}
NoResponse == [request |-> NoRequest, userip |-> Absent, usernames |-> {}]

SessionInit ==
    /\ Init
    /\ clientState = [cl \in Clients |-> "Authorization"]
    /\ screen = [cl \in Clients |-> "Authorization"]
    /\ hasConnection = [cl \in Clients |-> FALSE]
    /\ mstream = [cl \in Clients |-> Absent]
    /\ gui = [cl \in Clients |-> "idle"]
    /\ question = [cl \in Clients |-> NoRequest]
    /\ response = [s \in Streams |-> NoResponse]
    /\ owner = [s \in Streams |-> Absent]
    /\ listed = [cl \in Clients |-> {}]
    /\ callThreads = [cl \in Clients |-> {}]
    /\ dialled = [cl \in Clients |-> {}]
    /\ missed = [cl \in Clients |-> <<>>] /\ missedRows = [cl \in Clients |-> 0]

-----------------------------------------------------------------------------
(* The displayed state.  Leaving the Online screen destroys it, and with   *)
(* it the list of missed calls (MissedCalls.qml, onDestruction).           *)
Show(cl, state) ==
    /\ screen' = [screen EXCEPT ![cl] = state]
    /\ missed' = IF screen[cl] = "Online" /\ state # "Online"
                 THEN [missed EXCEPT ![cl] = <<>>] ELSE missed
    /\ missedRows' = [missedRows EXCEPT ![cl] = IF state = "Online" THEN Len(missed'[cl]) ELSE 0]

(* setState from the GUI thread, and from a call thread.                   *)
SetState(cl, state) == clientState' = [clientState EXCEPT ![cl] = state] /\ Show(cl, state)

SetStateBehind(cl, state) ==
    /\ clientState' = [clientState EXCEPT ![cl] = state]
    /\ UNCHANGED <<screen, missedCalls>>

GuiIdle(cl) == gui[cl] = "idle"
Press(cl, where) == GuiIdle(cl) /\ screen[cl] = where
Waits(cl, for) == gui[cl] = for

GuiTurns(cl, to, r) ==
    gui' = [gui EXCEPT ![cl] = to] /\ question' = [question EXCEPT ![cl] = r]

Consumed(s) == response' = [response EXCEPT ![s] = NoResponse]

(* addClientToModel leaves the user's own name out.  The list keeps its    *)
(* names, whatever becomes of the connection, until the next one comes.    *)
AddClientToModel(cl) ==
    listed' = [listed EXCEPT ![cl] = response[mstream[cl]].usernames \ {name[mstream[cl]]}]

Connected(cl, b) == hasConnection' = [hasConnection EXCEPT ![cl] = b]

-----------------------------------------------------------------------------
(* sendAuthorizationRequest.                                               *)

NewStream == CHOOSE s \in Streams : link[s] = "none"

PressSignIn(cl, n) ==
    /\ \E s \in Streams : link[s] = "none"
    /\ Press(cl, "Authorization")
    /\ \E s \in {NewStream} :
          /\ Open(s, n)
          /\ mstream' = [mstream EXCEPT ![cl] = s]
          /\ owner' = [owner EXCEPT ![s] = cl]
          /\ GuiTurns(cl, "authorizing", request'[s])
    /\ UNCHANGED <<shown, hasConnection, listed, response, calls>>

SignInSucceeds(cl) ==
    /\ Waits(cl, "authorizing") /\ answer[mstream[cl]] = "granted"
    /\ Connected(cl, TRUE) /\ AddClientToModel(cl) /\ SetState(cl, "Online")
    /\ GuiTurns(cl, "idle", NoRequest) /\ Consumed(mstream[cl])
    /\ UNCHANGED <<vars, mstream, owner, calls>>

SignInRefused(cl) ==
    /\ Waits(cl, "authorizing") /\ answer[mstream[cl]] = "refused"
    /\ Leave(mstream[cl])
    /\ Connected(cl, FALSE) /\ GuiTurns(cl, "idle", NoRequest) /\ Consumed(mstream[cl])
    /\ UNCHANGED <<shown, mstream, owner, listed, calls>>

-----------------------------------------------------------------------------
(* A Write or a Read that fails: the stream is dead, or the handler has    *)
(* returned without an answer.                                             *)

StreamFailed(s) == link[s] = "ended" \/ (handler[s] = "cancelled" /\ answer[s] = "none")

(* Mutant: a failed question leaves mHasConnection as it is.               *)
ReadFailsUnnoticed(cl) ==
    /\ gui[cl] \in {"authorizing", "listing", "lookup"} /\ StreamFailed(mstream[cl])
    /\ IF link[mstream[cl]] = "open" THEN Leave(mstream[cl]) ELSE UNCHANGED vars
    /\ IF Waits(cl, "authorizing") THEN UNCHANGED shown ELSE SetState(cl, "Authorization")
    /\ GuiTurns(cl, "idle", NoRequest) /\ Consumed(mstream[cl])
    /\ UNCHANGED <<hasConnection, mstream, owner, listed, calls>>

ReadFails(cl) ==
    /\ gui[cl] \in {"authorizing", "listing", "lookup"} /\ StreamFailed(mstream[cl])
    /\ IF link[mstream[cl]] = "open" THEN Leave(mstream[cl]) ELSE UNCHANGED vars
    /\ IF Waits(cl, "authorizing") THEN UNCHANGED shown ELSE SetState(cl, "Authorization")
    /\ Connected(cl, FALSE) /\ GuiTurns(cl, "idle", NoRequest) /\ Consumed(mstream[cl])
    /\ UNCHANGED <<mstream, owner, listed, calls>>

(* Write of a question: on a dead stream it, or the Read after it, fails.  *)
WriteQuestion(cl, for, r) ==
    /\ IF link[mstream[cl]] = "open" THEN Ask(mstream[cl], r) ELSE UNCHANGED vars
    /\ GuiTurns(cl, for, r)
    /\ UNCHANGED <<hasConnection, mstream, owner, listed, response, calls>>

(* Without a connection a question leads back to the Authorization screen. *)
BackToAuthorization(cl) ==
    /\ ~hasConnection[cl]
    /\ SetState(cl, "Authorization")
    /\ UNCHANGED <<vars, session, response, calls>>

-----------------------------------------------------------------------------
(* sendClientsOnlineRequest.                                               *)

PressRefresh(cl) ==
    /\ Press(cl, "Online")
    /\ \/ BackToAuthorization(cl)
       \/ /\ hasConnection[cl]
          /\ WriteQuestion(cl, "listing", [type |-> "GetClientsOnline", name |-> EmptyName])
          /\ UNCHANGED shown

ReadClients(cl) ==
    /\ Waits(cl, "listing") /\ answer[mstream[cl]] = "answered"
    /\ IF response[mstream[cl]].request.type = "GetClientsOnline"
       THEN AddClientToModel(cl) /\ UNCHANGED shown
       ELSE SetState(cl, "Authorization") /\ UNCHANGED listed
    /\ GuiTurns(cl, "idle", NoRequest) /\ Consumed(mstream[cl])
    /\ UNCHANGED <<vars, hasConnection, mstream, owner, calls>>

-----------------------------------------------------------------------------
(* sendIdByUserNameRequest, from the list of users or of missed calls.     *)

(* The names that the two lists on the screen get from their models.       *)
Selectable(cl) ==
    listed[cl] \cup {missed[cl][i] : i \in {j \in DOMAIN missed[cl] : j <= missedRows[cl]}}

PressCall(cl, n) ==
    /\ Press(cl, "Online")
    /\ \/ BackToAuthorization(cl)
       \/ /\ hasConnection[cl]
          /\ n \in Selectable(cl)
          /\ WriteQuestion(cl, "lookup", [type |-> "GetIpByUserName", name |-> n])
          /\ SetState(cl, "Call")

(* context->peer(): the host is the client's, the port that of its stream. *)
Peer(s) == [host |-> owner[s], port |-> s]

ReadAddress(cl) ==
    /\ Waits(cl, "lookup") /\ answer[mstream[cl]] = "answered"
    /\ dialled' = [dialled EXCEPT ![cl] = @ \cup
                      {[name |-> question[cl].name,
                        ip |-> ChangePort(Peer(response[mstream[cl]].userip), ClientPort)]}]
    /\ callThreads' = [callThreads EXCEPT ![cl] = @ \cup {"out"}]
    /\ GuiTurns(cl, "idle", NoRequest) /\ Consumed(mstream[cl])
    /\ UNCHANGED <<vars, shown, hasConnection, mstream, owner, listed>>

-----------------------------------------------------------------------------
(* exit: Finish blocks until the server's handler has returned.            *)

(* Mutant: exit only turns the page.                                       *)
PressExitSilently(cl) ==
    /\ Press(cl, "Online")
    /\ SetState(cl, "Authorization") /\ Connected(cl, FALSE)
    /\ UNCHANGED <<vars, mstream, gui, question, owner, listed, response, calls>>

(* Mutant: Finish without WritesDone.                                      *)
PressExitStillOpen(cl) ==
    /\ Press(cl, "Online") /\ hasConnection[cl]
    /\ GuiTurns(cl, "finishing", NoRequest)
    /\ UNCHANGED <<vars, shown, hasConnection, mstream, owner, listed, response, calls>>

PressExit(cl) ==
    /\ Press(cl, "Online")
    /\ \/ /\ hasConnection[cl] /\ link[mstream[cl]] = "open"
          /\ Leave(mstream[cl]) /\ GuiTurns(cl, "finishing", NoRequest)
          /\ UNCHANGED <<shown, hasConnection>>
       \/ /\ hasConnection[cl] => link[mstream[cl]] = "ended"
          /\ SetState(cl, "Authorization") /\ Connected(cl, FALSE)
          /\ UNCHANGED <<vars, gui, question>>
    /\ UNCHANGED <<mstream, owner, listed, response, calls>>

FinishReturns(cl) ==
    /\ Waits(cl, "finishing") /\ handler[mstream[cl]] \in {"ok", "cancelled"}
    /\ SetState(cl, "Authorization") /\ Connected(cl, FALSE)
    /\ GuiTurns(cl, "idle", NoRequest)
    /\ UNCHANGED <<vars, mstream, owner, listed, response, calls>>

-----------------------------------------------------------------------------
(* Calls and missed calls, as far as they matter here.                     *)

IncomingCallRings(cl) ==
    /\ "in" \notin callThreads[cl]
    /\ callThreads' = [callThreads EXCEPT ![cl] = @ \cup {"in"}]
    /\ SetStateBehind(cl, "Call")
    /\ UNCHANGED <<vars, session, response, dialled>>

(* Mutant: a thread that ended is not forgotten.                           *)
CallEndsUnjoined(cl, thread) ==
    /\ thread \in callThreads[cl]
    /\ callThreads' = [callThreads EXCEPT ![cl] = (@ \ {thread}) \cup {"ended"}]
    /\ SetStateBehind(cl, "Online")
    /\ UNCHANGED <<vars, session, response, dialled>>

CallEnds(cl, thread) ==
    /\ thread \in callThreads[cl]
    /\ callThreads' = [callThreads EXCEPT ![cl] = @ \ {thread}]
    /\ dialled' = IF thread = "out" THEN [dialled EXCEPT ![cl] = {}] ELSE dialled
    /\ SetStateBehind(cl, "Online")
    /\ UNCHANGED <<vars, session, response>>

ShowState(cl) ==
    /\ GuiIdle(cl) /\ screen[cl] # clientState[cl]
    /\ Show(cl, clientState[cl])
    /\ UNCHANGED <<vars, clientState, session, response, calls>>

(* addMissedCall, by the handler of a call that found the client busy: the *)
(* list grows at once, the view is told by a signal queued to its thread.  *)
AddMissedCall(cl, n) ==
    /\ callThreads[cl] # {}
    /\ missed' = [missed EXCEPT ![cl] = Append(@, n)]
    /\ UNCHANGED <<vars, clientState, screen, missedRows, session, response, calls>>

RefreshView(cl) ==
    /\ Press(cl, "Online") /\ missedRows[cl] # Len(missed[cl])
    /\ missedRows' = [missedRows EXCEPT ![cl] = Len(missed[cl])]
    /\ UNCHANGED <<vars, clientState, screen, missed, session, response, calls>>

(* Mutant: clear without beginResetModel and endResetModel.                *)
PressClearUnseen(cl) ==
    /\ Press(cl, "Online")
    /\ missed' = [missed EXCEPT ![cl] = <<>>]
    /\ UNCHANGED <<vars, clientState, screen, missedRows, session, response, calls>>

PressClear(cl) ==
    /\ Press(cl, "Online")
    /\ missed' = [missed EXCEPT ![cl] = <<>>]
    /\ missedRows' = [missedRows EXCEPT ![cl] = 0]
    /\ UNCHANGED <<vars, clientState, screen, session, response, calls>>

-----------------------------------------------------------------------------
(* The server's side: a step of a handler fills its local `response'.      *)
Usernames(s) == IF request[s].type = "GetClientsOnline" \/ answer'[s] = "granted"
                THEN {n \in Names : clientOnline'[n] # Absent} ELSE {}

ServerStep(s) ==
    /\ Start(s) \/ Authorization(s)
    /\ response' = IF handler[s] = "reading" /\ request[s] # NoRequest /\ link[s] = "open"
                   THEN [response EXCEPT ![s] =
                            [request |-> request[s],
                             userip |-> IF request[s].type = "GetIpByUserName"
                                        THEN clientOnline[request[s].name] ELSE Absent,
                             usernames |-> Usernames(s)]]
                   ELSE response
    /\ UNCHANGED <<shown, session, calls>>

(* The connection dies, or the client process, which then starts anew.     *)
LoseConnection(cl) ==
    /\ mstream[cl] # Absent /\ Drop(mstream[cl]) /\ Consumed(mstream[cl])
    /\ UNCHANGED <<shown, session, calls>>

Crash(cl) ==
    /\ mstream[cl] # Absent
    /\ IF link[mstream[cl]] = "open" THEN Drop(mstream[cl]) ELSE UNCHANGED vars
    /\ clientState' = [clientState EXCEPT ![cl] = "Authorization"]
    /\ screen' = [screen EXCEPT ![cl] = "Authorization"]
    /\ missed' = [missed EXCEPT ![cl] = <<>>] /\ missedRows' = [missedRows EXCEPT ![cl] = 0]
    /\ Connected(cl, FALSE) /\ mstream' = [mstream EXCEPT ![cl] = Absent]
    /\ GuiTurns(cl, "idle", NoRequest)
    /\ callThreads' = [callThreads EXCEPT ![cl] = {}]
    /\ dialled' = [dialled EXCEPT ![cl] = {}] /\ listed' = [listed EXCEPT ![cl] = {}]
    /\ Consumed(mstream[cl])
    /\ UNCHANGED owner

-----------------------------------------------------------------------------
GuiGoesOn(cl) ==
    \/ SignInSucceeds(cl) \/ SignInRefused(cl) \/ ReadFails(cl)
    \/ ReadClients(cl) \/ ReadAddress(cl) \/ FinishReturns(cl)

User(cl) ==
    \/ PressRefresh(cl) \/ PressExit(cl) \/ PressClear(cl)
    \/ \E n \in Names : PressSignIn(cl, n) \/ PressCall(cl, n)

Environment(cl) ==
    \/ IncomingCallRings(cl)
    \/ \E thread \in callThreads[cl] : CallEnds(cl, thread)
    \/ \E n \in Names : AddMissedCall(cl, n)
    \/ LoseConnection(cl) \/ Crash(cl)

SessionNext ==
    \/ \E s \in Streams : ServerStep(s)
    \/ \E cl \in Clients : GuiGoesOn(cl) \/ ShowState(cl) \/ RefreshView(cl) \/ User(cl) \/ Environment(cl)

SessionSpec == SessionInit /\ [][SessionNext]_sessionVars

(* The server's threads run, and so does the GUI thread once the answer it *)
(* waits for is there, or the failure.  Users, callers and the network owe *)
(* nothing.                                                                *)
FairSessionSpec ==
    /\ SessionSpec
    /\ \A s \in Streams : WF_sessionVars(ServerStep(s))
    /\ \A cl \in Clients : WF_sessionVars(GuiGoesOn(cl))

-----------------------------------------------------------------------------
(* Every variable stays in its type, those of the server included.         *)
SessionTypeOK ==
    /\ TypeOK
    /\ clientState \in [Clients -> Screens] /\ screen \in [Clients -> Screens]
    /\ hasConnection \in [Clients -> BOOLEAN]
    /\ mstream \in [Clients -> Streams \cup {Absent}]
    /\ gui \in [Clients -> GuiStates]
    /\ question \in [Clients -> Requests \cup {NoRequest}]
    /\ response \in [Streams -> [request: Requests \cup {NoRequest},
                                 userip: Streams \cup {Absent},
                                 usernames: SUBSET Names]]
    /\ owner \in [Streams -> Clients \cup {Absent}]
    /\ listed \in [Clients -> SUBSET Names]
    /\ callThreads \in [Clients -> SUBSET {"in", "out"}]
    /\ dialled \in [Clients -> SUBSET [name: Names, ip: [host: Clients \cup {Nothing},
                                                         port: Streams \cup {ClientPort}]]]
    /\ missed \in [Clients -> Seq(Names)] /\ missedRows \in [Clients -> Nat]

(* No session is leaked: an open stream is the current one of a client     *)
(* that knows it is connected, or is about to (mHasConnection).  A failed  *)
(* question, a refusal, a sign-out and a new sign-in leave none behind     *)
(* that would keep a name at the server.                                   *)
NoSessionIsLeaked ==
    \A s \in Streams : link[s] = "open" =>
        \E cl \in Clients : mstream[cl] = s /\ (hasConnection[cl] \/ Waits(cl, "authorizing"))

(* The Authorization screen means signed out, although call threads turn   *)
(* pages too: the sign-in button never replaces mstream and mContext under *)
(* a session (client.cpp:40-43).                                           *)
AuthorizationMeansSignedOut ==
    \A cl \in Clients : Press(cl, "Authorization") => ~hasConnection[cl]

(* No GUI thread waits in Read for a handler that waits in Read for it, or *)
(* has returned unnoticed: whoever waits for an answer has one of the kind *)
(* it waits for, or a failed stream, or a message under way to a handler   *)
(* that still reads; and Finish is called on a stream that was closed      *)
(* (client.cpp:45, 101, 126, 162, server.cpp:19-64).                       *)
Awaited(for) == IF for = "authorizing" THEN {"granted", "refused"} ELSE {"answered"}

NoMutualWait ==
    \A cl \in Clients :
        /\ gui[cl] \in {"authorizing", "listing", "lookup"} =>
              \/ answer[mstream[cl]] \in Awaited(gui[cl])
              \/ StreamFailed(mstream[cl])
              \/ request[mstream[cl]] # NoRequest /\ handler[mstream[cl]] \in {"none", "reading"}
        /\ Waits(cl, "finishing") => link[mstream[cl]] = "ended"

(* Who is dialled is the user who was asked for: the host of a client that *)
(* signed in under that name, with the configured port.  A client that is  *)
(* not reached by an IPv4 address is dialled without a host                *)
(* (utils.cpp:34).                                                         *)
DialsTheUser ==
    \A cl \in Clients : \A d \in dialled[cl] :
        /\ d.ip.port = ClientPort
        /\ \E s \in Streams : /\ name[s] = d.name
                             /\ d.ip.host = IF owner[s] \in DottedHosts THEN owner[s] ELSE Nothing

(* The view never asks for a missed call that is not in the list:          *)
(* QMLMissedCallsModel::data reads mMissedCalls[vecIndex] unchecked        *)
(* (qmlmissedcallsmodel.cpp:41), while gRPC threads add to the list, the   *)
(* user clears it and the Online screen comes and goes.                    *)
ViewStaysInList == \A cl \in Clients : missedRows[cl] <= Len(missed[cl])

(* The GUI thread comes back from every Write, Read and Finish             *)
(* (client.cpp:45, 101, 126, 162).                                         *)
GuiComesBack == \A cl \in Clients : ~GuiIdle(cl) ~> GuiIdle(cl)

=============================================================================
