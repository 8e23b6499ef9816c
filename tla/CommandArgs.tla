------------------------------ MODULE CommandArgs ---------------------------
(***************************************************************************)
(* The parser of the command line (Tools/Sources/commandArgsParser.cpp),   *)
(* one run of it per process.  A text of the command line is abstracted to *)
(* what the parser can tell of it: which option it is, whether it is a     *)
(* host, and the number that strtol reads at its beginning.                *)
(***************************************************************************)
EXTENDS Addresses, Integers, Sequences

CONSTANTS
    Processes,        \* the processes that are started
    ArgumentLists,    \* the command lines, argv[0] included
    ReadNumber,       \* strtol, of every text that may be read
    Null,             \* argv[argc]
    IntModulus,       \* 2^32, scaled down
    DefaultHost, DefaultServerPort, DefaultPeerPort   \* 0.0.0.0, 5000, 5001

Options == {"-server_ip", "-server_port", "-p2p_clientside_port", "-p2p_serverside_port"}

ASSUME ArgsAssumption ==
    /\ IntModulus \in Nat \ {0}
    /\ DefaultServerPort \in Int \ {0} /\ DefaultPeerPort \in Int \ {0}
    /\ \A list \in ArgumentLists : Len(list) \in Nat \ {0}
    /\ Null \notin DottedHosts

VARIABLES
    argv,       \* the command line of a process
    argc,       \* what the constructor has left of argc
    index,      \* its position in argv
    parsing,    \* "before", "loop", "done", or how it was left
    settings    \* mServerHost and the three ports

parserVars == <<argv, argc, index, parsing, settings>>

Defaults == [host |-> DefaultHost, port |-> DefaultServerPort,
             clientSidePort |-> DefaultPeerPort, serverSidePort |-> DefaultPeerPort]

ParserInit ==
    /\ argv \in [Processes -> ArgumentLists]
    /\ argc = [p \in Processes |-> Len(argv[p])]
    /\ index = [p \in Processes |-> 1]
    /\ parsing = [p \in Processes |-> "before"]
    /\ settings = [p \in Processes |-> Defaults]

(* static_cast<int>                                                        *)
ToInt(n) == LET m == n % IntModulus
            IN IF m >= IntModulus \div 2 THEN m - IntModulus ELSE m

(* argv[i], counted from 0; what lies beyond argv[argc] is not ours.       *)
Argument(p, i) == IF i < Len(argv[p]) THEN argv[p][i + 1] ELSE Null

-----------------------------------------------------------------------------
BeginParsing(p) ==
    /\ parsing[p] = "before"
    /\ parsing' = [parsing EXCEPT ![p] = "loop"]
    /\ UNCHANGED <<argv, argc, index, settings>>

(* The loop condition is false.                                            *)
EndParsing(p) ==
    /\ parsing[p] = "loop" /\ argc[p] - 1 <= 0
    /\ parsing' = [parsing EXCEPT ![p] = "done"]
    /\ UNCHANGED <<argv, argc, index, settings>>

InLoop(p) == parsing[p] = "loop" /\ argc[p] - 1 > 0
Option(p, o) == InLoop(p) /\ Argument(p, index[p]) = o
Value(p) == Argument(p, index[p] + 1)

Throw(p) == /\ parsing' = [parsing EXCEPT ![p] = "thrown"]
            /\ UNCHANGED <<argv, argc, index, settings>>

(* Mutant: argc counts the pairs.                                          *)
NextPairOffByOne(p) ==
    /\ index' = [index EXCEPT ![p] = @ + 2]
    /\ argc' = [argc EXCEPT ![p] = @ - 1]
    /\ UNCHANGED <<argv, parsing>>

(* Mutant: the loop never gets on.                                         *)
NextPairForgotten(p) == UNCHANGED <<index, argc, argv, parsing>>

NextPair(p) ==
    /\ index' = [index EXCEPT ![p] = @ + 2]
    /\ argc' = [argc EXCEPT ![p] = @ - 2]
    /\ UNCHANGED <<argv, parsing>>

Take(p, setting, value) ==
    settings' = [settings EXCEPT ![p][setting] = value] /\ NextPair(p)

(* The host is checked together with a port that is valid.  A null pointer *)
(* becomes an empty text.                                                  *)
ParseServerIp(p) ==
    /\ Option(p, "-server_ip")
    /\ IF IsValidIp([host |-> Value(p), port |-> DefaultServerPort])
       THEN Take(p, "host", Value(p)) ELSE Throw(p)

(* strtol of a null pointer ends the process.                              *)
ParsePort(p, setting) ==
    IF Value(p) = Null
    THEN /\ parsing' = [parsing EXCEPT ![p] = "crashed"]
         /\ UNCHANGED <<argv, argc, index, settings>>
    ELSE IF ToInt(ReadNumber[Value(p)]) = 0 THEN Throw(p)
         ELSE Take(p, setting, ToInt(ReadNumber[Value(p)]))

ParseServerPort(p) == Option(p, "-server_port") /\ ParsePort(p, "port")

ParsePeerToPeerClientSidePort(p) ==
    Option(p, "-p2p_clientside_port") /\ ParsePort(p, "clientSidePort")

(* Mutant: copied from the function above.                                 *)
ParseServerSidePortCopied(p) ==
    Option(p, "-p2p_serverside_port") /\ ParsePort(p, "clientSidePort")

ParsePeerToPeerServerSidePort(p) ==
    Option(p, "-p2p_serverside_port") /\ ParsePort(p, "serverSidePort")

ParseUnknown(p) == InLoop(p) /\ Argument(p, index[p]) \notin Options /\ Throw(p)

Parse(p) ==
    \/ BeginParsing(p) \/ EndParsing(p)
    \/ ParseServerIp(p) \/ ParseServerPort(p)
    \/ ParsePeerToPeerClientSidePort(p) \/ ParsePeerToPeerServerSidePort(p)
    \/ ParseUnknown(p)

-----------------------------------------------------------------------------
(* The parser stays in argv: what it compares is an argument, what it      *)
(* takes for its value is an argument or the null pointer after the last   *)
(* (commandArgsParser.cpp:16-26, for an odd and an even number).           *)
ReadsWithinArgv == \A p \in Processes : InLoop(p) => index[p] < Len(argv[p])

(* The places of argv where an option is given.                            *)
Given(p, o) == {i \in 1 .. Len(argv[p]) - 1 : i % 2 = 1 /\ Argument(p, i) = o}
Latest(places) == CHOOSE i \in places : \A j \in places : j <= i
LastGiven(p, o, default) ==
    IF Given(p, o) = {} THEN default ELSE argv[p][2 + Latest(Given(p, o))]
PortGiven(p, o, default) ==
    IF Given(p, o) = {} THEN default ELSE ToInt(ReadNumber[LastGiven(p, o, Null)])

(* A command line that is accepted means what it says: it consists of      *)
(* pairs of an option and a value, the last value given for an option      *)
(* counts, what is not given has its default, and no port is 0             *)
(* (commandArgsParser.h:4-8).                                              *)
SettingsAreTheLastGiven ==
    \A p \in Processes : parsing[p] = "done" =>
        /\ Len(argv[p]) % 2 = 1
        /\ \A i \in 1 .. Len(argv[p]) - 1 : i % 2 = 1 => Argument(p, i) \in Options
        /\ settings[p] =
             [host |-> LastGiven(p, "-server_ip", DefaultHost),
              port |-> PortGiven(p, "-server_port", DefaultServerPort),
              clientSidePort |-> PortGiven(p, "-p2p_clientside_port", DefaultPeerPort),
              serverSidePort |-> PortGiven(p, "-p2p_serverside_port", DefaultPeerPort)]
        /\ 0 \notin {settings[p].port, settings[p].clientSidePort, settings[p].serverSidePort}
=============================================================================
