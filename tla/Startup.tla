------------------------------- MODULE Startup ------------------------------
(***************************************************************************)
(* How the directory server (Server/main.cpp) and the clients              *)
(* (Client/Sources/main.cpp) start on one machine.  Both make the log      *)
(* directory, give the logger its appenders and parse the command line,    *)
(* the client in this order, the server the other way round.  Then a       *)
(* thread of its own starts the gRPC server and waits in it.               *)
(***************************************************************************)
EXTENDS CommandArgs, FiniteSets

CONSTANTS
    Servers,     \* the processes that run Server/main.cpp
    MaxPort      \* 65535, scaled down

Clients == Processes \ Servers

VARIABLES
    stage,       \* how far the main thread is
    appenders,   \* the appenders that the logger has
    logsDir,     \* the directory Logs exists
    listener,    \* the thread that runs the gRPC server
    bound,       \* the ports at which a process listens
    lines        \* what was logged, and the appenders it reached

startVars == <<parserVars, stage, appenders, logsDir, listener, bound, lines>>

Stages == {"off", "dir", "file", "console", "parse", "settings", "construct", "run", "ended"}
ListenerStates == {"none", "spawned", "built", "waiting"}
Appenders == {"file", "console"}

StartInit ==
    /\ ParserInit
    /\ stage = [p \in Processes |-> "off"]
    /\ appenders = [p \in Processes |-> {}]
    /\ logsDir = FALSE
    /\ listener = [p \in Processes |-> "none"]
    /\ bound = [p \in Processes |-> {}]
    /\ lines = [p \in Processes |-> {}]

Goto(p, from, to) == stage[p] = from /\ stage' = [stage EXCEPT ![p] = to]

(* LOG: without a logger nothing happens.                                  *)
Log(p, what) == lines' = [lines EXCEPT ![p] = @ \cup {[what |-> what, reached |-> appenders[p]]}]

-----------------------------------------------------------------------------
(* main of the server parses first, and starts its thread.                 *)

StartServer(p) ==
    /\ p \in Servers /\ Goto(p, "off", "parse")
    /\ UNCHANGED <<parserVars, appenders, logsDir, listener, bound, lines>>

StartClient(p) ==
    /\ p \in Clients /\ Goto(p, "off", "dir")
    /\ UNCHANGED <<parserVars, appenders, logsDir, listener, bound, lines>>

ParseArguments(p) ==
    /\ stage[p] = "parse" /\ parsing[p] \notin {"done", "thrown", "crashed"}
    /\ Parse(p)
    /\ UNCHANGED <<stage, appenders, logsDir, listener, bound, lines>>

LeaveParser(p) ==
    /\ parsing[p] = "done"
    /\ Goto(p, "parse", IF p \in Servers THEN "dir" ELSE "settings")
    /\ UNCHANGED <<parserVars, appenders, logsDir, listener, bound, lines>>

(* Nobody catches what the parser throws.                                  *)
Terminate(p) ==
    /\ parsing[p] \in {"thrown", "crashed"}
    /\ Goto(p, "parse", "ended")
    /\ UNCHANGED <<parserVars, appenders, logsDir, listener, bound, lines>>

MakeLogDir(p) ==
    /\ Goto(p, "dir", "file")
    /\ logsDir' = TRUE
    /\ UNCHANGED <<parserVars, appenders, listener, bound, lines>>

InitLogger(p) ==
    /\ Goto(p, "file", "console")
    /\ appenders' = [appenders EXCEPT ![p] = {"file"}]
    /\ UNCHANGED <<parserVars, logsDir, listener, bound, lines>>

AddConsoleAppender(p) ==
    /\ Goto(p, "console", IF p \in Servers THEN "construct" ELSE "parse")
    /\ appenders' = [appenders EXCEPT ![p] = @ \cup {"console"}]
    /\ UNCHANGED <<parserVars, logsDir, listener, bound, lines>>

LogSettings(p) ==
    /\ p \in Clients /\ Goto(p, "settings", "construct")
    /\ Log(p, "settings")
    /\ UNCHANGED <<parserVars, appenders, logsDir, listener, bound>>

(* Mutant: the client is constructed before the logger has its appenders.  *)
ConstructEarly(p) ==
    /\ stage[p] \in {"file", "console", "construct"} /\ listener[p] = "none"
    /\ listener' = [listener EXCEPT ![p] = "spawned"]
    /\ stage' = [stage EXCEPT ![p] = IF @ = "construct" THEN "run" ELSE @]
    /\ UNCHANGED <<parserVars, appenders, logsDir, bound, lines>>

(* Server::Server, or Client::Client with its PeerToPeer.                  *)
Construct(p) ==
    /\ Goto(p, "construct", "run")
    /\ listener' = [listener EXCEPT ![p] = "spawned"]
    /\ UNCHANGED <<parserVars, appenders, logsDir, bound, lines>>

-----------------------------------------------------------------------------
(* runServer.                                                              *)

ListenerGoto(p, from, to) == listener[p] = from /\ listener' = [listener EXCEPT ![p] = to]

PortOf(p) == IF p \in Servers THEN settings[p].port ELSE settings[p].serverSidePort
IsPort(n) == n \in 0 .. MaxPort
Taken(n) == \E q \in Processes : n \in bound[q]

(* A port that is taken can be shared or not, as gRPC was built.           *)
BuildAndStart(p) ==
    /\ ListenerGoto(p, "spawned", "built")
    /\ \/ IsPort(PortOf(p)) /\ bound' = [bound EXCEPT ![p] = {PortOf(p)}]
       \/ (Taken(PortOf(p)) \/ ~IsPort(PortOf(p))) /\ UNCHANGED bound
    /\ UNCHANGED <<parserVars, stage, appenders, logsDir, lines>>

(* Mutant: a server that could not be started is waited for.               *)
WaitForNone(p) ==
    /\ ListenerGoto(p, "built", "waiting")
    /\ Log(p, "listening") /\ UNCHANGED stage
    /\ UNCHANGED <<parserVars, appenders, logsDir, bound>>

(* "Server listening on port" is logged unseen; without a server, Wait is  *)
(* called on a null pointer and ends the process.                          *)
Wait(p) ==
    /\ listener[p] = "built"
    /\ Log(p, "listening")
    /\ IF bound[p] # {}
       THEN ListenerGoto(p, "built", "waiting") /\ UNCHANGED stage
       ELSE ListenerGoto(p, "built", "none") /\ stage' = [stage EXCEPT ![p] = "ended"]
    /\ UNCHANGED <<parserVars, appenders, logsDir, bound>>

(* The user closes the window or stops the server.                         *)
Quit(p) ==
    /\ listener[p] = "waiting"
    /\ stage' = [stage EXCEPT ![p] = "ended"]
    /\ listener' = [listener EXCEPT ![p] = "none"]
    /\ bound' = [bound EXCEPT ![p] = {}]
    /\ UNCHANGED <<parserVars, appenders, logsDir, lines>>

-----------------------------------------------------------------------------
Main(p) ==
    \/ StartServer(p) \/ StartClient(p) \/ ParseArguments(p) \/ LeaveParser(p)
    \/ Terminate(p) \/ MakeLogDir(p) \/ InitLogger(p) \/ AddConsoleAppender(p)
    \/ LogSettings(p) \/ Construct(p)

Listener(p) == BuildAndStart(p) \/ Wait(p)

StartNext == \E p \in Processes : Main(p) \/ Listener(p) \/ Quit(p)

(* The threads of a process run.                                           *)
StartSpec ==
    /\ StartInit /\ [][StartNext]_startVars
    /\ \A p \in Processes : WF_startVars(Main(p)) /\ WF_startVars(Listener(p))

-----------------------------------------------------------------------------
(* Every variable stays in its type (SettingsAreTheLastGiven has settings). *)
StartTypeOK ==
    /\ argv \in [Processes -> ArgumentLists]
    /\ argc \in [Processes -> Int] /\ index \in [Processes -> Nat]
    /\ parsing \in [Processes -> {"before", "loop", "done", "thrown", "crashed"}]
    /\ stage \in [Processes -> Stages] /\ listener \in [Processes -> ListenerStates]
    /\ appenders \in [Processes -> SUBSET Appenders]
    /\ logsDir \in BOOLEAN
    /\ bound \in [Processes -> SUBSET (0 .. MaxPort)]
    /\ lines \in [Processes -> SUBSET [what: {"settings", "listening"}, reached: SUBSET Appenders]]

(* No line is dropped or half written: whatever thread logs it, the logger *)
(* has all its appenders, and nobody adds one while another thread goes    *)
(* through them (Client/Sources/main.cpp:29-43, Logger.h:50-56).           *)
LoggerIsReadyFirst ==
    \A p \in Processes : /\ \A line \in lines[p] : line.reached = Appenders
                         /\ listener[p] # "none" => appenders[p] = Appenders

(* The other end of a connection: clients connect to mServerPort, and dial *)
(* other clients at mPeerToPeerClientSidePort.                             *)
Untouched(p, o) == Given(p, o) = {}
Up(p) == listener[p] = "waiting"

(* The defaults fit together: where an option was not given, the server is *)
(* where the clients look for it and a client where the others dial it,    *)
(* and whoever waits for connections does have the port                    *)
(* (commandArgsParser.cpp:10-13).                                          *)
DefaultsMeet ==
    \A p, q \in Processes : Up(q) /\ parsing[p] = "done" =>
        /\ bound[q] # {}
        /\ q \in Servers /\ Untouched(p, "-server_port") /\ Untouched(q, "-server_port")
              => settings[p].port \in bound[q]
        /\ q \in Clients /\ Untouched(p, "-p2p_clientside_port") /\ Untouched(q, "-p2p_serverside_port")
              => settings[p].clientSidePort \in bound[q]

(* Every start comes to an end: the process waits for connections or is    *)
(* gone; the parser's loop ends.                                           *)
StartEnds == \A p \in Processes : stage[p] # "off" ~> Up(p) \/ stage[p] = "ended"
=============================================================================
