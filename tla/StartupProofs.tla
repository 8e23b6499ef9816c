---------------------------- MODULE StartupProofs ---------------------------
(***************************************************************************)
(* Proofs about Startup and the parser of the command line, for any        *)
(* processes, command lines, ports and sizes of an int.                    *)
(***************************************************************************)
EXTENDS Startup, TLAPS

USE ArgsAssumption

-----------------------------------------------------------------------------
(* The parser.                                                             *)

(* What is settled of the command line when the parser stands at index.    *)
GivenBefore(p, o) == {i \in Given(p, o) : i < index[p]}

LastBefore(p, o, default) ==
    IF GivenBefore(p, o) = {} THEN default ELSE argv[p][2 + Latest(GivenBefore(p, o))]

PortBefore(p, o, default) ==
    IF GivenBefore(p, o) = {} THEN default ELSE ToInt(ReadNumber[LastBefore(p, o, Null)])

AsTaken(p) ==
    [host |-> LastBefore(p, "-server_ip", DefaultHost),
     port |-> PortBefore(p, "-server_port", DefaultServerPort),
     clientSidePort |-> PortBefore(p, "-p2p_clientside_port", DefaultPeerPort),
     serverSidePort |-> PortBefore(p, "-p2p_serverside_port", DefaultPeerPort)]

(* The parser stands at the first text of a pair, or at the end of argv.   *)
PlaceInv ==
    /\ argv \in [Processes -> ArgumentLists]
    /\ argc \in [Processes -> Int] /\ index \in [Processes -> Nat]
    /\ parsing \in [Processes -> {"before", "loop", "done", "thrown", "crashed"}]
    /\ \A p \in Processes :
         /\ index[p] % 2 = 1 /\ index[p] <= Len(argv[p])
         /\ argc[p] = Len(argv[p]) + 1 - index[p]
         /\ parsing[p] = "done" => index[p] = Len(argv[p])

(* The pairs before that have been taken, and nothing else.                *)
TakenInv ==
    /\ settings = [p \in Processes |-> AsTaken(p)]
    /\ \A p \in Processes :
         /\ \A i \in 1 .. index[p] - 1 : i % 2 = 1 => Argument(p, i) \in Options
         /\ 0 \notin {settings[p].port, settings[p].clientSidePort, settings[p].serverSidePort}

LEMMA Lengths ==
    ASSUME PlaceInv, NEW p \in Processes
    PROVE  Len(argv[p]) \in Nat \ {0} /\ index[p] \in Nat /\ argc[p] \in Int
BY DEF PlaceInv

LEMMA ParserInvInit == ParserInit => PlaceInv /\ TakenInv
<1> SUFFICES ASSUME ParserInit PROVE PlaceInv /\ TakenInv
  OBVIOUS
<1>1. \A p \in Processes : Len(argv[p]) \in Nat \ {0} /\ index[p] = 1 /\ argc[p] = Len(argv[p])
  BY DEF ParserInit
<1>2. PlaceInv
  BY <1>1 DEF ParserInit, PlaceInv
<1>3. \A p \in Processes, o \in Options : GivenBefore(p, o) = {}
  BY <1>1 DEF GivenBefore, Given
<1>4. \A p \in Processes : AsTaken(p) = Defaults
  BY <1>3 DEF AsTaken, LastBefore, PortBefore, Defaults, Options
<1>5. settings = [p \in Processes |-> Defaults]
  BY DEF ParserInit
<1> QED BY <1>1, <1>2, <1>4, <1>5 DEF TakenInv, Defaults

(* The last of a set of places.                                            *)
LEMMA LastIsNew ==
    ASSUME NEW S \in SUBSET Nat, NEW k \in Nat, \A i \in S : i < k
    PROVE  Latest(S \cup {k}) = k
<1>1. \A j \in S \cup {k} : j <= k
  OBVIOUS
<1>2. \A i \in S \cup {k} : (\A j \in S \cup {k} : j <= i) => i = k
  OBVIOUS
<1> QED BY <1>1, <1>2 DEF Latest

(* A pair of an option and a value is next.                                *)
AtPair(p) == InLoop(p) /\ index[p] + 1 < Len(argv[p])

LEMMA GivenNext ==
    ASSUME PlaceInv, NEW p \in Processes, AtPair(p), NextPair(p), NEW o \in Options
    PROVE  GivenBefore(p, o)' = IF Argument(p, index[p]) = o THEN GivenBefore(p, o) \cup {index[p]}
                                                            ELSE GivenBefore(p, o)
<1>1. argv' = argv /\ index'[p] = index[p] + 2
  BY DEF NextPair, PlaceInv
<1>2. Len(argv[p]) \in Nat /\ index[p] \in Nat /\ index[p] % 2 = 1 /\ index[p] + 1 < Len(argv[p])
  BY Lengths DEF AtPair, PlaceInv
<1>3. Given(p, o)' = Given(p, o)
  BY <1>1 DEF Given, Argument
<1>4. \A i \in Nat : i % 2 = 1 /\ i < index[p] + 2 => i <= index[p]
  BY <1>2
<1>5. \A i \in Given(p, o) : i \in Nat /\ i % 2 = 1
  BY <1>2 DEF Given
<1>6. index[p] \in Given(p, o) <=> Argument(p, index[p]) = o
  <2>1. index[p] \in 1 .. Len(argv[p]) - 1
    BY <1>2
  <2> QED BY <1>2, <2>1 DEF Given
<1>7. \A i \in Given(p, o) : i < index[p] + 2 <=> i < index[p] \/ i = index[p]
  BY <1>2, <1>4, <1>5
<1>8. GivenBefore(p, o)' = {i \in Given(p, o) : i < index[p] + 2}
  BY <1>1, <1>3 DEF GivenBefore
<1> QED BY <1>6, <1>7, <1>8 DEF GivenBefore

LEMMA LastNext ==
    ASSUME PlaceInv, NEW p \in Processes, AtPair(p), NextPair(p), NEW o \in Options, NEW CONSTANT d
    PROVE  /\ LastBefore(p, o, d)' = IF Argument(p, index[p]) = o THEN Value(p)
                                                                ELSE LastBefore(p, o, d)
           /\ PortBefore(p, o, d)' = IF Argument(p, index[p]) = o THEN ToInt(ReadNumber[Value(p)])
                                                                ELSE PortBefore(p, o, d)
<1>1. argv' = argv
  BY DEF NextPair
<1>2. Value(p) = argv[p][2 + index[p]]
  BY Lengths DEF Value, Argument, AtPair
<1>3. CASE Argument(p, index[p]) = o
  <2>1. GivenBefore(p, o)' = GivenBefore(p, o) \cup {index[p]}
    BY <1>3, GivenNext
  <2>2. GivenBefore(p, o) \in SUBSET Nat /\ \A i \in GivenBefore(p, o) : i < index[p]
    BY Lengths DEF GivenBefore, Given
  <2> DEFINE S == GivenBefore(p, o)
             k == index[p]
  <2>3. Latest(S \cup {k}) = k
    <3>1. k \in Nat
      BY Lengths
    <3> HIDE DEF S, k
    <3> QED BY <2>2, <3>1, LastIsNew DEF S, k
  <2>4. GivenBefore(p, o)' # {}
    BY <2>1
  <2>5. \A e : LastBefore(p, o, e)' = argv[p][2 + k]
    BY <1>1, <2>1, <2>3, <2>4 DEF LastBefore
  <2> QED BY <1>2, <1>3, <2>4, <2>5 DEF PortBefore
<1>4. CASE Argument(p, index[p]) # o
  <2>1. GivenBefore(p, o)' = GivenBefore(p, o)
    BY <1>4, GivenNext
  <2> QED BY <1>1, <1>4, <2>1 DEF LastBefore, PortBefore
<1> QED BY <1>3, <1>4

LEMMA OtherParser ==
    ASSUME NEW q \in Processes, argv' = argv, index'[q] = index[q]
    PROVE  AsTaken(q)' = AsTaken(q)
BY DEF AsTaken, LastBefore, PortBefore, GivenBefore, Given, Argument

(* What may be taken of a pair.                                            *)
Takes(p, o, s, v) ==
    \/ o = "-server_ip" /\ s = "host" /\ v = Value(p)
    \/ o = "-server_port" /\ s = "port" /\ v = ToInt(ReadNumber[Value(p)]) /\ v # 0
    \/ o = "-p2p_clientside_port" /\ s = "clientSidePort" /\ v = ToInt(ReadNumber[Value(p)]) /\ v # 0
    \/ o = "-p2p_serverside_port" /\ s = "serverSidePort" /\ v = ToInt(ReadNumber[Value(p)]) /\ v # 0

LEMMA TakePlace ==
    ASSUME PlaceInv, NEW p \in Processes, AtPair(p), NextPair(p)
    PROVE  PlaceInv'
<1>1. /\ argv' = argv /\ parsing' = parsing
      /\ index' = [index EXCEPT ![p] = @ + 2] /\ argc' = [argc EXCEPT ![p] = @ - 2]
  BY DEF NextPair
<1>2. /\ Len(argv[p]) \in Nat /\ index[p] \in Nat /\ argc[p] \in Int
      /\ index[p] % 2 = 1 /\ index[p] + 1 < Len(argv[p])
      /\ argc[p] = Len(argv[p]) + 1 - index[p]
  BY Lengths DEF AtPair, PlaceInv
<1>3. (index[p] + 2) % 2 = 1 /\ argc[p] - 2 = Len(argv[p]) + 1 - (index[p] + 2)
  BY <1>2
<1>4. index' \in [Processes -> Nat] /\ argc' \in [Processes -> Int]
  BY <1>1, <1>2 DEF PlaceInv
<1> DEFINE Placed(n, i, a) == i % 2 = 1 /\ i <= n /\ a = n + 1 - i
<1>5. ASSUME NEW q \in Processes
      PROVE  /\ index'[q] % 2 = 1 /\ index'[q] <= Len(argv'[q])
             /\ argc'[q] = Len(argv'[q]) + 1 - index'[q]
             /\ parsing'[q] = "done" => index'[q] = Len(argv'[q])
  <2>1. CASE q = p
    <3>1. index'[q] = index[p] + 2 /\ argc'[q] = argc[p] - 2 /\ parsing'[q] = "loop"
      BY <1>1, <2>1 DEF PlaceInv, AtPair, InLoop
    <3>2. Placed(Len(argv[p]), index[p] + 2, argc[p] - 2)
      BY <1>2, <1>3
    <3> QED BY <1>1, <2>1, <3>1, <3>2
  <2>2. CASE q # p
    BY <1>1, <2>2 DEF PlaceInv
  <2> QED BY <2>1, <2>2
<1> QED BY <1>1, <1>4, <1>5 DEF PlaceInv

LEMMA TakeStep ==
    ASSUME PlaceInv, TakenInv, NEW p \in Processes, AtPair(p), NEW o \in Options, NEW s, NEW v,
           Argument(p, index[p]) = o, Takes(p, o, s, v), Take(p, s, v)
    PROVE  TakenInv'
<1>1. NextPair(p) /\ settings' = [settings EXCEPT ![p][s] = v] /\ argv' = argv
  BY DEF Take, NextPair
<1>2. \A q \in Processes \ {p} : AsTaken(q)' = AsTaken(q) /\ index'[q] = index[q]
  BY <1>1, OtherParser DEF NextPair, PlaceInv
<1>3. settings[p] = AsTaken(p)
  BY DEF TakenInv
<1>4. AsTaken(p)' = [settings[p] EXCEPT ![s] = v]
  <2>1. /\ LastBefore(p, "-server_ip", DefaultHost)' =
              IF o = "-server_ip" THEN Value(p) ELSE settings[p].host
        /\ PortBefore(p, "-server_port", DefaultServerPort)' =
              IF o = "-server_port" THEN ToInt(ReadNumber[Value(p)]) ELSE settings[p].port
        /\ PortBefore(p, "-p2p_clientside_port", DefaultPeerPort)' =
              IF o = "-p2p_clientside_port" THEN ToInt(ReadNumber[Value(p)])
                                            ELSE settings[p].clientSidePort
        /\ PortBefore(p, "-p2p_serverside_port", DefaultPeerPort)' =
              IF o = "-p2p_serverside_port" THEN ToInt(ReadNumber[Value(p)])
                                            ELSE settings[p].serverSidePort
    BY <1>1, <1>3, LastNext DEF AsTaken, Options
  <2>2. settings[p] = [host |-> settings[p].host, port |-> settings[p].port,
                       clientSidePort |-> settings[p].clientSidePort,
                       serverSidePort |-> settings[p].serverSidePort]
    BY <1>3 DEF AsTaken
  <2> QED BY <2>1, <2>2 DEF AsTaken, Takes
<1>5. settings' = [q \in Processes |-> AsTaken(q)']
  BY <1>1, <1>2, <1>4 DEF TakenInv
<1>6. /\ \A q \in Processes \ {p} : settings'[q] = settings[q]
      /\ settings'[p] = [settings[p] EXCEPT ![s] = v]
  BY <1>1 DEF TakenInv
<1>7. \A q \in Processes :
         0 \notin {settings'[q].port, settings'[q].clientSidePort, settings'[q].serverSidePort}
  <2>1. 0 \notin {settings'[p].port, settings'[p].clientSidePort, settings'[p].serverSidePort}
    BY <1>3, <1>6 DEF TakenInv, Takes, AsTaken
  <2> QED BY <1>6, <2>1 DEF TakenInv
<1>8. ASSUME NEW q \in Processes, NEW i \in 1 .. index'[q] - 1, i % 2 = 1
      PROVE  Argument(q, i)' \in Options
  <2>1. Argument(q, i)' = Argument(q, i)
    BY <1>1 DEF Argument
  <2>2. CASE q # p
    BY <1>2, <1>8, <2>1, <2>2 DEF TakenInv
  <2>3. CASE q = p
    <3>1. index'[p] = index[p] + 2 /\ index[p] \in Nat /\ index[p] % 2 = 1
      BY <1>1, Lengths DEF NextPair, PlaceInv
    <3>2. i \in 1 .. index[p] - 1 \/ i = index[p]
      BY <1>8, <2>3, <3>1
    <3> QED BY <1>8, <2>1, <2>3, <3>2 DEF TakenInv
  <2> QED BY <2>2, <2>3
<1> QED BY <1>5, <1>7, <1>8 DEF TakenInv

LEMMA InLoopPlace ==
    ASSUME PlaceInv, NEW p \in Processes, InLoop(p)
    PROVE  index[p] < Len(argv[p])
BY Lengths DEF PlaceInv, InLoop

LEMMA ParserStep ==
    ASSUME PlaceInv, TakenInv, NEW p \in Processes, Parse(p)
    PROVE  PlaceInv' /\ TakenInv'
<1>1. ASSUME UNCHANGED <<argv, argc, index, settings>>,
             \E to \in {"loop", "thrown", "crashed", "done"} :
                /\ parsing' = [parsing EXCEPT ![p] = to]
                /\ to = "done" => parsing[p] = "loop" /\ argc[p] - 1 <= 0
      PROVE  PlaceInv' /\ TakenInv'
  <2>1. \A q \in Processes : AsTaken(q)' = AsTaken(q)
    BY <1>1, OtherParser
  <2>2. TakenInv'
    BY <1>1, <2>1 DEF TakenInv, Argument
  <2>3. \A q \in Processes : Len(argv[q]) \in Nat \ {0} /\ index[q] \in Nat
    BY Lengths
  <2>4. PlaceInv'
    BY <1>1, <2>3 DEF PlaceInv
  <2> QED BY <2>2, <2>4
<1>2. CASE BeginParsing(p) \/ EndParsing(p)
  BY <1>1, <1>2 DEF BeginParsing, EndParsing
<1>3. CASE Throw(p)
  BY <1>1, <1>3 DEF Throw
<1>4. ASSUME NEW o \in Options, NEW s, NEW v, Option(p, o), Value(p) # Null, Takes(p, o, s, v),
             Take(p, s, v)
      PROVE  PlaceInv' /\ TakenInv'
  <2>1. AtPair(p)
    BY <1>4 DEF AtPair, Option, Value, Argument
  <2>2. NextPair(p)
    BY <1>4 DEF Take
  <2> QED BY <1>4, <2>1, <2>2, TakePlace, TakeStep DEF Option
<1>5. CASE ParseServerIp(p)
  <2>1. CASE Take(p, "host", Value(p)) /\ Option(p, "-server_ip")
             /\ IsValidIp([host |-> Value(p), port |-> DefaultServerPort])
    <3>1. Value(p) # Null
      BY <2>1 DEF IsValidIp
    <3> QED BY <1>4, <2>1, <3>1 DEF Takes, Options
  <2> QED BY <1>3, <1>5, <2>1 DEF ParseServerIp
<1>6. ASSUME NEW o \in Options, NEW s, Option(p, o), ParsePort(p, s),
             <<o, s>> \in {<<"-server_port", "port">>, <<"-p2p_clientside_port", "clientSidePort">>,
                           <<"-p2p_serverside_port", "serverSidePort">>}
      PROVE  PlaceInv' /\ TakenInv'
  <2>1. CASE Value(p) = Null
    BY <1>1, <1>6, <2>1 DEF ParsePort
  <2>2. CASE Value(p) # Null /\ ToInt(ReadNumber[Value(p)]) = 0
    BY <1>3, <1>6, <2>2 DEF ParsePort
  <2>3. CASE Value(p) # Null /\ ToInt(ReadNumber[Value(p)]) # 0
    <3>1. Take(p, s, ToInt(ReadNumber[Value(p)]))
      BY <1>6, <2>3 DEF ParsePort
    <3>2. Takes(p, o, s, ToInt(ReadNumber[Value(p)]))
      BY <1>6, <2>3 DEF Takes
    <3> QED BY <1>4, <1>6, <2>3, <3>1, <3>2
  <2> QED BY <2>1, <2>2, <2>3
<1>7. CASE \/ ParseServerPort(p) \/ ParsePeerToPeerClientSidePort(p)
           \/ ParsePeerToPeerServerSidePort(p)
  BY <1>6, <1>7 DEF ParseServerPort, ParsePeerToPeerClientSidePort, ParsePeerToPeerServerSidePort,
                    Options
<1>8. CASE ParseUnknown(p)
  BY <1>3, <1>8 DEF ParseUnknown
<1> QED BY <1>2, <1>5, <1>7, <1>8 DEF Parse

-----------------------------------------------------------------------------
(* The start of a process.                                                 *)

ThreadsType ==
    /\ stage \in [Processes -> Stages] /\ listener \in [Processes -> ListenerStates]
    /\ appenders \in [Processes -> SUBSET Appenders]
    /\ logsDir \in BOOLEAN
    /\ bound \in [Processes -> SUBSET (0 .. MaxPort)]
    /\ lines \in [Processes -> SUBSET [what: {"settings", "listening"}, reached: SUBSET Appenders]]

(* What the main thread has behind it.                                     *)
MainInv(p) ==
    /\ stage[p] \in {"settings", "construct", "run"} => parsing[p] = "done" /\ appenders[p] = Appenders
    /\ stage[p] \in {"dir", "file", "console"} /\ p \in Servers => parsing[p] = "done"
    /\ stage[p] = "console" => appenders[p] = {"file"}
    /\ stage[p] = "parse" /\ p \notin Servers => appenders[p] = Appenders
    /\ listener[p] # "none" => stage[p] = "run"
    /\ \A line \in lines[p] : line.reached = Appenders

(* Where a process listens.                                                *)
BoundInv(p) ==
    /\ bound[p] \subseteq {PortOf(p)}
    /\ listener[p] \in {"none", "spawned"} => bound[p] = {}
    /\ listener[p] = "waiting" => bound[p] # {}

StartInv ==
    /\ PlaceInv /\ TakenInv /\ ThreadsType
    /\ \A p \in Processes : MainInv(p) /\ BoundInv(p)

LEMMA StartInvInit == StartInit => StartInv
BY ParserInvInit DEF StartInit, ParserInit, StartInv, ThreadsType, MainInv, BoundInv, Stages,
                     ListenerStates, Appenders, Clients

(* A step of one process other than a step of its parser.                  *)
LEMMA OneProcess ==
    ASSUME StartInv, NEW p \in Processes, UNCHANGED parserVars, ThreadsType',
           \A q \in Processes \ {p} :
              /\ stage'[q] = stage[q] /\ listener'[q] = listener[q] /\ appenders'[q] = appenders[q]
              /\ bound'[q] = bound[q] /\ lines'[q] = lines[q],
           MainInv(p)', BoundInv(p)'
    PROVE  StartInv'
<1>1. PlaceInv' /\ TakenInv'
  <2>1. \A q \in Processes : AsTaken(q)' = AsTaken(q)
    BY OtherParser DEF parserVars
  <2> QED BY <2>1 DEF StartInv, parserVars, PlaceInv, TakenInv, Argument
<1>2. \A q \in Processes \ {p} : MainInv(q)' /\ BoundInv(q)'
  BY DEF StartInv, MainInv, BoundInv, parserVars, PortOf
<1> QED BY <1>1, <1>2 DEF StartInv

LEMMA StartStep ==
    ASSUME StartInv, [StartNext]_startVars
    PROVE  StartInv'
<1> USE DEF Goto, ListenerGoto
<1>1. ASSUME NEW p \in Processes, ParseArguments(p) PROVE StartInv'
  <2>1. PlaceInv' /\ TakenInv'
    BY <1>1, ParserStep DEF ParseArguments, StartInv
  <2>2. /\ stage[p] = "parse" /\ listener[p] = "none"
        /\ \A q \in Processes \ {p} : parsing'[q] = parsing[q] /\ settings'[q] = settings[q]
    BY <1>1 DEF ParseArguments, StartInv, MainInv, Parse, BeginParsing, EndParsing, ParseServerIp,
                ParseServerPort, ParsePeerToPeerClientSidePort, ParsePeerToPeerServerSidePort,
                ParsePort, ParseUnknown, Throw, Take, NextPair, TakenInv, PlaceInv
  <2>3. UNCHANGED <<stage, appenders, logsDir, listener, bound, lines>>
    BY <1>1 DEF ParseArguments
  <2>4. \A q \in Processes : MainInv(q)' /\ BoundInv(q)'
    BY <2>2, <2>3 DEF StartInv, MainInv, BoundInv, PortOf
  <2> QED BY <2>1, <2>3, <2>4 DEF StartInv, ThreadsType
<1>2. ASSUME NEW p \in Processes,
             \/ StartServer(p) \/ StartClient(p) \/ LeaveParser(p) \/ Terminate(p) \/ MakeLogDir(p)
      PROVE  StartInv'
  <2>1. PICK to \in Stages :
          /\ stage' = [stage EXCEPT ![p] = to]
          /\ UNCHANGED <<parserVars, appenders, listener, bound, lines>> /\ logsDir' \in BOOLEAN
          /\ \/ stage[p] = "off" /\ p \in Servers /\ to = "parse"
             \/ stage[p] = "off" /\ p \notin Servers /\ to = "dir"
             \/ stage[p] = "parse" /\ parsing[p] = "done"
                   /\ to = IF p \in Servers THEN "dir" ELSE "settings"
             \/ stage[p] = "parse" /\ to = "ended"
             \/ stage[p] = "dir" /\ to = "file"
    BY <1>2 DEF StartServer, StartClient, LeaveParser, Terminate, MakeLogDir, Stages, Clients,
                StartInv, ThreadsType
  <2>2. stage'[p] = to /\ \A q \in Processes \ {p} : stage'[q] = stage[q]
    BY <2>1 DEF StartInv, ThreadsType
  <2>3. ThreadsType'
    BY <2>1 DEF StartInv, ThreadsType
  <2>4. MainInv(p)' /\ BoundInv(p)'
    BY <2>1, <2>2 DEF StartInv, MainInv, BoundInv, PortOf, parserVars
  <2> QED BY <2>1, <2>2, <2>3, <2>4, OneProcess
<1>3. ASSUME NEW p \in Processes, InitLogger(p) \/ AddConsoleAppender(p) PROVE StartInv'
  <2>1. /\ UNCHANGED <<parserVars, logsDir, listener, bound, lines>>
        /\ \/ /\ stage[p] = "file" /\ stage' = [stage EXCEPT ![p] = "console"]
              /\ appenders' = [appenders EXCEPT ![p] = {"file"}]
           \/ /\ stage[p] = "console"
              /\ stage' = [stage EXCEPT ![p] = IF p \in Servers THEN "construct" ELSE "parse"]
              /\ appenders' = [appenders EXCEPT ![p] = Appenders]
    BY <1>3 DEF InitLogger, AddConsoleAppender, StartInv, MainInv, Appenders, ThreadsType
  <2>2. ThreadsType'
    BY <2>1 DEF StartInv, ThreadsType, Appenders, Stages
  <2>3. \A q \in Processes \ {p} : stage'[q] = stage[q] /\ appenders'[q] = appenders[q]
    BY <2>1 DEF StartInv, ThreadsType
  <2>4. MainInv(p)' /\ BoundInv(p)'
    BY <2>1 DEF StartInv, ThreadsType, MainInv, BoundInv, PortOf, parserVars
  <2> QED BY <2>1, <2>2, <2>3, <2>4, OneProcess
<1>4. ASSUME NEW p \in Processes, LogSettings(p) \/ Construct(p) PROVE StartInv'
  <2>1. /\ UNCHANGED <<parserVars, appenders, logsDir, bound>>
        /\ \/ /\ stage[p] = "settings" /\ stage' = [stage EXCEPT ![p] = "construct"]
              /\ Log(p, "settings") /\ UNCHANGED listener
           \/ /\ stage[p] = "construct" /\ stage' = [stage EXCEPT ![p] = "run"]
              /\ listener' = [listener EXCEPT ![p] = "spawned"] /\ UNCHANGED lines
    BY <1>4 DEF LogSettings, Construct
  <2>2. ThreadsType'
    BY <2>1 DEF StartInv, ThreadsType, Stages, ListenerStates, Log
  <2>3. \A q \in Processes \ {p} :
           stage'[q] = stage[q] /\ listener'[q] = listener[q] /\ lines'[q] = lines[q]
    BY <2>1 DEF StartInv, ThreadsType, Log
  <2>4. MainInv(p)' /\ BoundInv(p)'
    BY <2>1 DEF StartInv, ThreadsType, MainInv, BoundInv, PortOf, parserVars, Log
  <2> QED BY <2>1, <2>2, <2>3, <2>4, OneProcess
<1>5. ASSUME NEW p \in Processes, BuildAndStart(p) PROVE StartInv'
  <2>1. /\ UNCHANGED <<parserVars, stage, appenders, logsDir, lines>>
        /\ listener[p] = "spawned" /\ listener' = [listener EXCEPT ![p] = "built"]
        /\ \/ UNCHANGED bound
           \/ bound' = [bound EXCEPT ![p] = {PortOf(p)}] /\ PortOf(p) \in 0 .. MaxPort
    BY <1>5 DEF BuildAndStart, IsPort
  <2>2. ThreadsType'
    BY <2>1 DEF StartInv, ThreadsType, ListenerStates
  <2>3. \A q \in Processes \ {p} : listener'[q] = listener[q] /\ bound'[q] = bound[q]
    BY <2>1 DEF StartInv, ThreadsType
  <2>4. MainInv(p)' /\ BoundInv(p)'
    BY <2>1 DEF StartInv, ThreadsType, MainInv, BoundInv, PortOf, parserVars
  <2> QED BY <2>1, <2>2, <2>3, <2>4, OneProcess
<1>6. ASSUME NEW p \in Processes, Wait(p) PROVE StartInv'
  <2>1. /\ UNCHANGED <<parserVars, appenders, logsDir, bound>> /\ Log(p, "listening")
        /\ listener[p] = "built"
        /\ \/ /\ bound[p] # {} /\ UNCHANGED stage /\ listener' = [listener EXCEPT ![p] = "waiting"]
           \/ /\ bound[p] = {} /\ stage' = [stage EXCEPT ![p] = "ended"]
              /\ listener' = [listener EXCEPT ![p] = "none"]
    BY <1>6 DEF Wait
  <2>2. ThreadsType'
    BY <2>1 DEF StartInv, ThreadsType, Stages, ListenerStates, Log
  <2>3. \A q \in Processes \ {p} :
           stage'[q] = stage[q] /\ listener'[q] = listener[q] /\ lines'[q] = lines[q]
    BY <2>1 DEF StartInv, ThreadsType, Log
  <2>4. MainInv(p)' /\ BoundInv(p)'
    BY <2>1 DEF StartInv, ThreadsType, MainInv, BoundInv, PortOf, parserVars, Log
  <2> QED BY <2>1, <2>2, <2>3, <2>4, OneProcess
<1>7. ASSUME NEW p \in Processes, Quit(p) PROVE StartInv'
  <2>1. ThreadsType'
    BY <1>7 DEF Quit, StartInv, ThreadsType, Stages, ListenerStates
  <2>2. \A q \in Processes \ {p} :
           stage'[q] = stage[q] /\ listener'[q] = listener[q] /\ bound'[q] = bound[q]
    BY <1>7 DEF Quit, StartInv, ThreadsType
  <2>3. MainInv(p)' /\ BoundInv(p)'
    BY <1>7 DEF Quit, StartInv, ThreadsType, MainInv, BoundInv, PortOf, parserVars
  <2> QED BY <1>7, <2>1, <2>2, <2>3, OneProcess DEF Quit
<1>8. CASE UNCHANGED startVars
  <2>1. \A q \in Processes : AsTaken(q)' = AsTaken(q)
    BY <1>8, OtherParser DEF startVars, parserVars
  <2>2. PlaceInv' /\ TakenInv'
    BY <1>8, <2>1 DEF StartInv, startVars, parserVars, PlaceInv, TakenInv, Argument
  <2> QED BY <1>8, <2>2 DEF StartInv, startVars, parserVars, ThreadsType, MainInv, BoundInv, PortOf
<1> QED BY <1>1, <1>2, <1>3, <1>4, <1>5, <1>6, <1>7, <1>8 DEF StartNext, Main, Listener

LEMMA StartInvCorrect == StartSpec => []StartInv
BY StartInvInit, StartStep, PTL DEF StartSpec

-----------------------------------------------------------------------------
(* Every variable keeps its type.                                          *)
THEOREM StartTypeCorrect == StartSpec => []StartTypeOK
<1>1. StartInv => StartTypeOK
  BY DEF StartInv, PlaceInv, ThreadsType, StartTypeOK
<1> QED BY <1>1, StartInvCorrect, PTL

(* The parser stays in argv, whatever is on the command line               *)
(* (commandArgsParser.cpp:16-26).                                          *)
THEOREM ReadsWithinArgvCorrect == StartSpec => []ReadsWithinArgv
<1>1. StartInv => ReadsWithinArgv
  BY InLoopPlace DEF StartInv, ReadsWithinArgv
<1> QED BY <1>1, StartInvCorrect, PTL

LEMMA SettledAtEnd ==
    ASSUME StartInv, NEW p \in Processes, parsing[p] = "done"
    PROVE  /\ index[p] = Len(argv[p])
           /\ settings[p] =
                [host |-> LastGiven(p, "-server_ip", DefaultHost),
                 port |-> PortGiven(p, "-server_port", DefaultServerPort),
                 clientSidePort |-> PortGiven(p, "-p2p_clientside_port", DefaultPeerPort),
                 serverSidePort |-> PortGiven(p, "-p2p_serverside_port", DefaultPeerPort)]
<1>1. index[p] = Len(argv[p]) /\ Len(argv[p]) \in Nat
  BY Lengths DEF StartInv, PlaceInv
<1>2. \A o \in Options : GivenBefore(p, o) = Given(p, o)
  BY <1>1 DEF GivenBefore, Given
<1>3. settings[p] = AsTaken(p)
  BY DEF StartInv, TakenInv
<1>4. ASSUME NEW o \in Options, NEW d
      PROVE  LastBefore(p, o, d) = LastGiven(p, o, d) /\ PortBefore(p, o, d) = PortGiven(p, o, d)
  BY <1>2 DEF LastBefore, PortBefore, LastGiven, PortGiven
<1>5. {"-server_ip", "-server_port", "-p2p_clientside_port", "-p2p_serverside_port"} \subseteq Options
  BY DEF Options
<1> QED BY <1>1, <1>3, <1>4, <1>5 DEF AsTaken

(* A command line that the parser accepts means what it says, however long *)
(* it is (commandArgsParser.cpp:16-95).                                    *)
THEOREM SettingsCorrect == StartSpec => []SettingsAreTheLastGiven
<1>1. ASSUME StartInv, NEW p \in Processes, parsing[p] = "done"
      PROVE  /\ Len(argv[p]) % 2 = 1
             /\ \A i \in 1 .. Len(argv[p]) - 1 : i % 2 = 1 => Argument(p, i) \in Options
             /\ 0 \notin {settings[p].port, settings[p].clientSidePort, settings[p].serverSidePort}
  BY <1>1, SettledAtEnd DEF StartInv, PlaceInv, TakenInv
<1>2. StartInv => SettingsAreTheLastGiven
  BY <1>1, SettledAtEnd DEF SettingsAreTheLastGiven
<1> QED BY <1>2, StartInvCorrect, PTL

(* Nothing is logged before the logger has its appenders, nor can be       *)
(* (Client/Sources/main.cpp:29-43, Server/main.cpp:32-49).                 *)
THEOREM LoggerIsReadyFirstCorrect == StartSpec => []LoggerIsReadyFirst
<1>1. StartInv => LoggerIsReadyFirst
  BY DEF StartInv, MainInv, LoggerIsReadyFirst
<1> QED BY <1>1, StartInvCorrect, PTL

(* Where an option was not given, servers listen where clients look for    *)
(* them, whatever else was given (commandArgsParser.cpp:10-13).            *)
THEOREM DefaultsMeetCorrect == StartSpec => []DefaultsMeet
<1>1. ASSUME StartInv, NEW p \in Processes, NEW q \in Processes, Up(q), parsing[p] = "done"
      PROVE  /\ bound[q] # {}
             /\ q \in Servers /\ Untouched(p, "-server_port") /\ Untouched(q, "-server_port")
                   => settings[p].port \in bound[q]
             /\ q \in Clients /\ Untouched(p, "-p2p_clientside_port")
                   /\ Untouched(q, "-p2p_serverside_port")
                   => settings[p].clientSidePort \in bound[q]
  <2>1. bound[q] = {PortOf(q)} /\ bound[q] # {} /\ parsing[q] = "done"
    BY <1>1 DEF StartInv, BoundInv, MainInv, Up
  <2>2. ASSUME NEW r \in Processes, parsing[r] = "done"
        PROVE  /\ Untouched(r, "-server_port") => settings[r].port = DefaultServerPort
               /\ Untouched(r, "-p2p_clientside_port") => settings[r].clientSidePort = DefaultPeerPort
               /\ Untouched(r, "-p2p_serverside_port") => settings[r].serverSidePort = DefaultPeerPort
    <3>0. settings[r] =
                [host |-> LastGiven(r, "-server_ip", DefaultHost),
                 port |-> PortGiven(r, "-server_port", DefaultServerPort),
                 clientSidePort |-> PortGiven(r, "-p2p_clientside_port", DefaultPeerPort),
                 serverSidePort |-> PortGiven(r, "-p2p_serverside_port", DefaultPeerPort)]
      BY <1>1, <2>2, SettledAtEnd
    <3>1. /\ settings[r].port = PortGiven(r, "-server_port", DefaultServerPort)
          /\ settings[r].clientSidePort = PortGiven(r, "-p2p_clientside_port", DefaultPeerPort)
          /\ settings[r].serverSidePort = PortGiven(r, "-p2p_serverside_port", DefaultPeerPort)
      BY <3>0
    <3> QED BY <3>1 DEF Untouched, PortGiven
  <2> QED BY <1>1, <2>1, <2>2 DEF PortOf, Clients
<1>2. StartInv => DefaultsMeet
  BY <1>1 DEF DefaultsMeet
<1> QED BY <1>2, StartInvCorrect, PTL
=============================================================================
