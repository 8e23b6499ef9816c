------------------------------ MODULE Directory -----------------------------
(***************************************************************************)
(* The directory server (Server/server.cpp): the map of users online and   *)
(* one Authorization handler per client stream, each on a thread of gRPC.  *)
(* The client's end of a stream is modelled as Client uses it (client.cpp):*)
(* it authorizes first, then asks one question at a time and waits for the *)
(* answer.  The address of a session, context->peer(), is abstracted to    *)
(* the stream itself.  Each operation on the map is one step: m_clientOnline*)
(* has no lock, and what a torn std::map does is beyond the model.         *)
(***************************************************************************)
EXTENDS FiniteSets

CONSTANTS
    Streams,     \* authorization streams; each is opened at most once
    Names,       \* the names users may enter, "" among them
    EmptyName,   \* "", the initial value of the handler's `name'
    Absent,      \* no entry in the map
    Lost         \* a name whose session is gone (refinement only)

ASSUME StreamsAssumption == /\ Absent \notin Streams /\ Lost \notin Streams
                            /\ Absent # Lost
ASSUME NamesAssumption == EmptyName \in Names

VARIABLES
    clientOnline,   \* m_clientOnline: the stream (address) of a name, or Absent
    handler,        \* the handler of a stream: running, or how it returned
    name,           \* its local `name'
    link,           \* the stream: "none", "open", or "ended" on the client's side
    request,        \* the client's message under way
    answer          \* the handler's answer under way

vars == <<clientOnline, handler, name, link, request, answer>>

Requests == [type: {"Authorization", "GetIpByUserName"}, name: Names]
            \cup [type: {"GetClientsOnline"}, name: {EmptyName}]
NoRequest == [type |-> "none", name |-> EmptyName]
Answers == {"none", "granted", "refused", "answered"}
HandlerStates == {"none", "reading", "ok", "cancelled"}

Init ==
    /\ clientOnline = [n \in Names |-> Absent]
    /\ handler = [s \in Streams |-> "none"]
    /\ name = [s \in Streams |-> EmptyName]
    /\ link = [s \in Streams |-> "none"]
    /\ request = [s \in Streams |-> NoRequest]
    /\ answer = [s \in Streams |-> "none"]

-----------------------------------------------------------------------------
(* The client's side of a stream.                                          *)

Open(s, n) ==
    /\ link[s] = "none"
    /\ link' = [link EXCEPT ![s] = "open"]
    /\ request' = [request EXCEPT ![s] = [type |-> "Authorization", name |-> n]]
    /\ UNCHANGED <<clientOnline, handler, name, answer>>

(* The user can call whoever the client lists, however long ago that was.  *)
Ask(s, r) ==
    /\ link[s] = "open" /\ answer[s] \in {"granted", "answered"}
    /\ r.type # "Authorization"
    /\ request' = [request EXCEPT ![s] = r]
    /\ answer' = [answer EXCEPT ![s] = "none"]
    /\ UNCHANGED <<clientOnline, handler, name, link>>

(* The client's end of the stream is gone, and an answer under way with it.*)
Forget(s) ==
    /\ link' = [link EXCEPT ![s] = "ended"]
    /\ answer' = [answer EXCEPT ![s] = "none"]
    /\ UNCHANGED <<clientOnline, handler, name>>

(* Client::exit, and the clean-up after a refusal or a failed read.        *)
Leave(s) ==
    /\ link[s] = "open"
    /\ answer[s] # "none" \/ handler[s] = "cancelled"
    /\ Forget(s)
    /\ UNCHANGED request

(* The client crashes or the connection dies; the message under way may be *)
(* lost with it.  The server's keepalive notices.                          *)
Drop(s) ==
    /\ link[s] = "open"
    /\ Forget(s)
    /\ request' \in {request, [request EXCEPT ![s] = NoRequest]}

-----------------------------------------------------------------------------
(* The handler.                                                            *)

Start(s) ==
    /\ link[s] # "none" /\ handler[s] = "none"
    /\ handler' = [handler EXCEPT ![s] = "reading"]
    /\ UNCHANGED <<clientOnline, name, link, request, answer>>

Read(s, type) ==
    /\ handler[s] = "reading" /\ request[s].type = type
    /\ request' = [request EXCEPT ![s] = NoRequest]

(* An answer reaches the client only if the stream is still open; Write's  *)
(* result is ignored.                                                      *)
Write(s, a) == answer' = [answer EXCEPT ![s] = IF link[s] = "open" THEN a ELSE "none"]

(* Mutant: the entry is assigned, not inserted.                            *)
AuthorizeAnyway(s) ==
    /\ Read(s, "Authorization")
    /\ clientOnline' = [clientOnline EXCEPT ![request[s].name] = s]
    /\ name' = [name EXCEPT ![s] = request[s].name]
    /\ Write(s, "granted")
    /\ UNCHANGED <<handler, link>>

Authorize(s) ==
    /\ Read(s, "Authorization")
    /\ clientOnline[request[s].name] = Absent
    /\ clientOnline' = [clientOnline EXCEPT ![request[s].name] = s]
    /\ name' = [name EXCEPT ![s] = request[s].name]
    /\ Write(s, "granted")
    /\ UNCHANGED <<handler, link>>

Refuse(s) ==
    /\ Read(s, "Authorization")
    /\ clientOnline[request[s].name] # Absent
    /\ Write(s, "refused")
    /\ handler' = [handler EXCEPT ![s] = "cancelled"]
    /\ UNCHANGED <<clientOnline, name, link>>

GetClientsOnline(s) ==
    /\ Read(s, "GetClientsOnline")
    /\ Write(s, "answered")
    /\ UNCHANGED <<clientOnline, handler, name, link>>

GetIpByUserName(s) ==
    /\ Read(s, "GetIpByUserName")
    /\ clientOnline[request[s].name] # Absent
    /\ Write(s, "answered")
    /\ UNCHANGED <<clientOnline, handler, name, link>>

(* Mutant: an unknown name is passed over.                                 *)
PassOverUnknownUserName(s) ==
    /\ Read(s, "GetIpByUserName")
    /\ clientOnline[request[s].name] = Absent
    /\ UNCHANGED <<clientOnline, handler, name, link, answer>>

(* An unknown name: return CANCELLED at once, past the erase at the end.   *)
GetUnknownUserName(s) ==
    /\ Read(s, "GetIpByUserName")
    /\ clientOnline[request[s].name] = Absent
    /\ handler' = [handler EXCEPT ![s] = "cancelled"]
    /\ UNCHANGED <<clientOnline, name, link, answer>>

(* Mutant: the handler returns without the erase.                          *)
EndOfStreamKeepsEntry(s) ==
    /\ handler[s] = "reading" /\ request[s] = NoRequest /\ link[s] = "ended"
    /\ handler' = [handler EXCEPT ![s] = "ok"]
    /\ UNCHANGED <<clientOnline, name, link, request, answer>>

(* Read fails on a stream that ended: the entry of `name' is erased, which *)
(* is "" if this stream never got to authorize.                            *)
EndOfStream(s) ==
    /\ handler[s] = "reading" /\ request[s] = NoRequest /\ link[s] = "ended"
    /\ clientOnline' = [clientOnline EXCEPT ![name[s]] = Absent]
    /\ handler' = [handler EXCEPT ![s] = "ok"]
    /\ UNCHANGED <<name, link, request, answer>>

-----------------------------------------------------------------------------
Authorization(s) ==
    \/ Authorize(s) \/ Refuse(s) \/ GetClientsOnline(s)
    \/ GetIpByUserName(s) \/ GetUnknownUserName(s) \/ EndOfStream(s)

Client(s) ==
    \/ \E n \in Names : Open(s, n)
    \/ \E r \in Requests : Ask(s, r)
    \/ Leave(s) \/ Drop(s)

Next == \E s \in Streams : Start(s) \/ Authorization(s) \/ Client(s)

Spec == Init /\ [][Next]_vars

(* gRPC starts handlers and their threads run; clients owe nothing.        *)
FairSpec == Spec /\ \A s \in Streams : WF_vars(Start(s)) /\ WF_vars(Authorization(s))

-----------------------------------------------------------------------------
(* Every variable stays in its type.                                       *)
TypeOK ==
    /\ clientOnline \in [Names -> Streams \cup {Absent}]
    /\ handler \in [Streams -> HandlerStates]
    /\ name \in [Streams -> Names]
    /\ link \in [Streams -> {"none", "open", "ended"}]
    /\ request \in [Streams -> Requests \cup {NoRequest}]
    /\ answer \in [Streams -> Answers]

(* A user who is signed in can be found and called: the entry of the name  *)
(* is there and leads to the user's own session.  Whoever else signs in,   *)
(* fails to, leaves or is cut off, in whatever order, does not touch it.   *)
(* The user "" is not safe: a stream that ends before it authorized erases *)
(* that entry (server.cpp:18 and 64).                                      *)
SessionKeepsItsName ==
    \A s \in Streams : handler[s] = "reading" /\ name[s] # EmptyName
                          => clientOnline[name[s]] = s

(* An entry without a session comes from a failed lookup only: a handler   *)
(* that read its stream to the end has taken its entry along.              *)
EndedSessionLeavesNoEntry ==
    \A n \in Names \ {EmptyName} :
        clientOnline[n] # Absent => handler[clientOnline[n]] \in {"reading", "cancelled"}

(* server.cpp keeps "list of users online" (client-server.proto:28): every *)
(* name in the list belongs to a session that is still served.  A lookup   *)
(* of a name that has just left returns without erasing the caller.        *)
ListedUsersAreOnline ==
    \A n \in Names : clientOnline[n] # Absent => handler[clientOnline[n]] = "reading"

(* A user who left or was cut off disappears from the list, unless the     *)
(* handler was cancelled by a failed lookup.                               *)
DepartedUserIsRemoved ==
    \A s \in Streams : link[s] = "ended" ~>
        \/ handler[s] = "cancelled"
        \/ handler[s] = "ok" /\ \A n \in Names \ {EmptyName} : clientOnline[n] # s

-----------------------------------------------------------------------------
(* The directory implements the registry of names.                         *)
UserNames == Names \ {EmptyName}

Holder(n) == IF clientOnline[n] # Absent /\ handler[clientOnline[n]] # "reading"
             THEN Lost ELSE clientOnline[n]

Registry == INSTANCE NameRegistry
    WITH Sessions <- Streams, Free <- Absent,
         holder <- [n \in UserNames |-> Holder(n)],
         served <- {s \in Streams : name[s] # EmptyName}

(* A name is granted to one session at a time and given back only by it.   *)
ImplementsRegistry == Registry!Spec

=============================================================================
