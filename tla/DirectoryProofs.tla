--------------------------- MODULE DirectoryProofs --------------------------
(***************************************************************************)
(* Proofs about Directory for any sets of streams and names.               *)
(***************************************************************************)
EXTENDS Directory, TLAPS

(* A stream that has yet to authorize has no name.  A name belongs to one  *)
(* session while it is served, and an entry to a session that was granted  *)
(* its name and did not end regularly.                                     *)
DirectoryInv ==
    /\ TypeOK
    /\ \A s \in Streams :
         /\ link[s] = "none" => handler[s] = "none"
         /\ handler[s] = "none" => name[s] = EmptyName
         /\ request[s].type = "Authorization" => name[s] = EmptyName
    /\ SessionKeepsItsName
    /\ \A n \in UserNames : clientOnline[n] # Absent =>
         /\ name[clientOnline[n]] = n
         /\ handler[clientOnline[n]] \in {"reading", "cancelled"}

LEMMA TypeInit == Init => TypeOK
BY NamesAssumption DEF Init, TypeOK, HandlerStates, Answers

LEMMA TypeClient ==
    ASSUME TypeOK, NEW s \in Streams, Client(s)
    PROVE  TypeOK'
<1> USE NamesAssumption DEF TypeOK, Answers, Forget
<1>1. ASSUME NEW n \in Names, Open(s, n)
      PROVE  TypeOK'
  <2>1. [type |-> "Authorization", name |-> n] \in Requests
    BY DEF Requests
  <2> QED BY <1>1, <2>1 DEF Open
<1>2. ASSUME NEW r \in Requests, Ask(s, r)
      PROVE  TypeOK'
  BY <1>2 DEF Ask
<1>3. CASE Leave(s)
  BY <1>3 DEF Leave
<1>4. CASE Drop(s)
  BY <1>4 DEF Drop
<1> QED BY <1>1, <1>2, <1>3, <1>4 DEF Client

LEMMA RequestName ==
    ASSUME TypeOK, NEW s \in Streams, request[s] # NoRequest
    PROVE  request[s].name \in Names
BY NamesAssumption DEF TypeOK, Requests

LEMMA TypeHandler ==
    ASSUME TypeOK, NEW s \in Streams, Start(s) \/ Authorization(s)
    PROVE  TypeOK'
<1> USE NamesAssumption DEF TypeOK, HandlerStates
<1>1. CASE Start(s)
  BY <1>1 DEF Start
<1>2. CASE Authorize(s)
  <2>1. request[s].name \in Names
    BY <1>2, RequestName DEF Authorize, Read, NoRequest
  <2>2. answer' \in [Streams -> Answers]
    BY <1>2 DEF Authorize, Write, Answers
  <2> QED BY <1>2, <2>1, <2>2 DEF Authorize, Read
<1>3. CASE Refuse(s)
  BY <1>3 DEF Refuse, Read, Write, Answers
<1>4. CASE GetClientsOnline(s)
  <2>1. answer' \in [Streams -> Answers]
    BY <1>4 DEF GetClientsOnline, Write, Answers
  <2> QED BY <1>4, <2>1 DEF GetClientsOnline, Read
<1>5. CASE GetIpByUserName(s)
  BY <1>5 DEF GetIpByUserName, Read, Write, Answers
<1>6. CASE GetUnknownUserName(s)
  BY <1>6 DEF GetUnknownUserName, Read
<1>7. CASE EndOfStream(s)
  BY <1>7 DEF EndOfStream
<1> QED BY <1>1, <1>2, <1>3, <1>4, <1>5, <1>6, <1>7 DEF Authorization

LEMMA TypeStep == TypeOK /\ [Next]_vars => TypeOK'
<1> SUFFICES ASSUME TypeOK, [Next]_vars PROVE TypeOK'
  OBVIOUS
<1>1. CASE UNCHANGED vars
  BY <1>1 DEF vars, TypeOK
<1> QED BY <1>1, TypeClient, TypeHandler DEF Next

(* Every variable keeps its type, whatever the streams and names.          *)
THEOREM TypeCorrect == Spec => []TypeOK
BY TypeInit, TypeStep, PTL DEF Spec

-----------------------------------------------------------------------------
LEMMA InvInit == Init => DirectoryInv
BY TypeInit, NamesAssumption DEF Init, DirectoryInv, SessionKeepsItsName, UserNames, NoRequest

LEMMA InvStep == DirectoryInv /\ [Next]_vars => DirectoryInv'
<1> SUFFICES ASSUME DirectoryInv, [Next]_vars PROVE DirectoryInv'
  OBVIOUS
<1> USE StreamsAssumption, NamesAssumption DEF DirectoryInv, SessionKeepsItsName, UserNames
<1>0. TypeOK /\ TypeOK'
  BY TypeStep
<1>1. /\ clientOnline \in [Names -> Streams \cup {Absent}]
      /\ handler \in [Streams -> HandlerStates]
      /\ name \in [Streams -> Names]
      /\ link \in [Streams -> {"none", "open", "ended"}]
      /\ request \in [Streams -> Requests \cup {NoRequest}]
  BY <1>0 DEF TypeOK
<1>2. ASSUME NEW s \in Streams, NEW n \in Names, Open(s, n)
      PROVE  DirectoryInv'
  BY <1>0, <1>1, <1>2 DEF Open
<1>3. ASSUME NEW s \in Streams, NEW r \in Requests, Ask(s, r)
      PROVE  DirectoryInv'
  BY <1>0, <1>1, <1>3 DEF Ask
<1>4. ASSUME NEW s \in Streams, Leave(s) \/ Drop(s)
      PROVE  DirectoryInv'
  BY <1>0, <1>1, <1>4 DEF Leave, Drop, Forget, NoRequest
<1>5. ASSUME NEW s \in Streams, Start(s)
      PROVE  DirectoryInv'
  BY <1>0, <1>1, <1>5 DEF Start
<1>6. ASSUME NEW s \in Streams, Authorize(s)
      PROVE  DirectoryInv'
  <2>1. request[s].name \in Names /\ name[s] = EmptyName
    BY <1>0, <1>6, RequestName DEF Authorize, Read, NoRequest
  <2> QED BY <1>0, <1>1, <1>6, <2>1 DEF Authorize, Read, NoRequest
<1>7. ASSUME NEW s \in Streams, Refuse(s)
      PROVE  DirectoryInv'
  <2>1. name[s] = EmptyName
    BY <1>7 DEF Refuse, Read
  <2> QED BY <1>0, <1>1, <1>7, <2>1 DEF Refuse, Read, NoRequest
<1>8. ASSUME NEW s \in Streams, GetClientsOnline(s) \/ GetIpByUserName(s)
      PROVE  DirectoryInv'
  BY <1>0, <1>1, <1>8 DEF GetClientsOnline, GetIpByUserName, Read, NoRequest
<1>9. ASSUME NEW s \in Streams, GetUnknownUserName(s)
      PROVE  DirectoryInv'
  BY <1>0, <1>1, <1>9 DEF GetUnknownUserName, Read, NoRequest
<1>10. ASSUME NEW s \in Streams, EndOfStream(s)
       PROVE  DirectoryInv'
  BY <1>0, <1>1, <1>10 DEF EndOfStream
<1>11. CASE UNCHANGED vars
  BY <1>0, <1>11 DEF vars
<1> QED
  BY <1>2, <1>3, <1>4, <1>5, <1>6, <1>7, <1>8, <1>9, <1>10, <1>11 DEF Next, Client, Authorization

LEMMA InvCorrect == Spec => []DirectoryInv
BY InvInit, InvStep, PTL DEF Spec

(* A served user's entry is there and is the user's own, whatever the      *)
(* other sessions do.                                                      *)
THEOREM SessionKeepsItsNameCorrect == Spec => []SessionKeepsItsName
<1>1. DirectoryInv => SessionKeepsItsName
  BY DEF DirectoryInv
<1> QED BY <1>1, InvCorrect, PTL

(* A handler that read its stream to the end leaves no entry behind.       *)
THEOREM NoEntryLeftBehind == Spec => []EndedSessionLeavesNoEntry
<1>1. DirectoryInv => EndedSessionLeavesNoEntry
  BY DEF DirectoryInv, EndedSessionLeavesNoEntry, UserNames
<1> QED BY <1>1, InvCorrect, PTL

-----------------------------------------------------------------------------
(* The refinement.  A step of the directory changes at most one entry, and *)
(* the holder of a name with it.                                           *)
LEMMA RegistryInit == Init => Registry!Init
BY DEF Init, Registry!Init, Holder, UserNames

LEMMA RegistryStep == DirectoryInv /\ [Next]_vars =>
    [Registry!Next]_<<[n \in UserNames |-> Holder(n)], {s \in Streams : name[s] # EmptyName}>>
<1> DEFINE holder == [n \in UserNames |-> Holder(n)]
           served == {s \in Streams : name[s] # EmptyName}
<1> SUFFICES ASSUME DirectoryInv, [Next]_vars
             PROVE  Registry!Next \/ UNCHANGED <<holder, served>>
  OBVIOUS
<1> USE StreamsAssumption, NamesAssumption
<1>0. /\ clientOnline \in [Names -> Streams \cup {Absent}]
      /\ handler \in [Streams -> HandlerStates]
      /\ name \in [Streams -> Names]
  BY DEF DirectoryInv, TypeOK
<1>1. ASSUME UNCHANGED <<clientOnline, handler, name>>
      PROVE  UNCHANGED <<holder, served>>
  BY <1>1 DEF Holder
<1>2. ASSUME NEW s \in Streams, Client(s)
      PROVE  UNCHANGED <<clientOnline, handler, name>>
  BY <1>2 DEF Client, Open, Ask, Leave, Drop, Forget
<1>3. ASSUME NEW s \in Streams, Start(s)
      PROVE  UNCHANGED <<holder, served>>
  <2>1. \A n \in UserNames : Holder(n)' = Holder(n)
    BY <1>0, <1>3 DEF Start, Holder, DirectoryInv, UserNames
  <2> QED BY <1>3, <2>1 DEF Start
<1>4. ASSUME NEW s \in Streams, Authorize(s)
      PROVE  Registry!Next \/ UNCHANGED <<holder, served>>
  <2>0. PICK n \in Names : n = request[s].name
    BY <1>4, RequestName DEF Authorize, Read, NoRequest, DirectoryInv
  <2>1. name[s] = EmptyName /\ handler[s] = "reading"
    BY <1>4 DEF Authorize, Read, DirectoryInv
  <2>2. \A m \in UserNames \ {n} : Holder(m)' = Holder(m)
    BY <1>0, <1>4, <2>0 DEF Authorize, Holder, UserNames
  <2>3. CASE n = EmptyName
    <3>1. served' = served
      BY <1>0, <1>4, <2>0, <2>1, <2>3 DEF Authorize
    <3> QED BY <2>2, <2>3, <3>1 DEF UserNames
  <2>4. CASE n # EmptyName
    <3>1. n \in UserNames /\ Holder(n) = Absent /\ Holder(n)' = s
      BY <1>0, <1>4, <2>0, <2>1, <2>4 DEF Authorize, Holder, UserNames
    <3>2. holder' = [holder EXCEPT ![n] = s]
      BY <2>2, <3>1
    <3>3. served' = served \cup {s} /\ s \notin served
      BY <1>0, <1>4, <2>0, <2>1, <2>4 DEF Authorize
    <3>4. Registry!Grant(s, n)
      BY <3>1, <3>2, <3>3 DEF Registry!Grant
    <3> QED BY <3>1, <3>4 DEF Registry!Next
  <2> QED BY <2>3, <2>4
<1>5. ASSUME NEW s \in Streams, Refuse(s) \/ GetUnknownUserName(s)
      PROVE  Registry!Next \/ UNCHANGED <<holder, served>>
  <2>1. served' = served /\ handler[s] = "reading" /\ clientOnline' = clientOnline
    BY <1>5 DEF Refuse, GetUnknownUserName, Read
  <2>2. handler' = [handler EXCEPT ![s] = "cancelled"]
    BY <1>5 DEF Refuse, GetUnknownUserName
  <2>3. \A m \in UserNames : clientOnline[m] # s => Holder(m)' = Holder(m)
    BY <1>0, <2>1, <2>2 DEF Holder, UserNames
  <2>4. CASE \E n \in UserNames : clientOnline[n] = s
    <3>1. PICK n \in UserNames : clientOnline[n] = s
      BY <2>4
    <3>2. \A m \in UserNames \ {n} : clientOnline[m] # s
      BY <3>1 DEF DirectoryInv
    <3>3. Holder(n) = s /\ Holder(n)' = Lost
      BY <1>0, <2>1, <2>2, <3>1 DEF Holder, UserNames, HandlerStates
    <3>4. holder' = [holder EXCEPT ![n] = Lost]
      BY <2>3, <3>2, <3>3
    <3>5. Registry!Lose(s, n)
      BY <2>1, <3>3, <3>4 DEF Registry!Lose
    <3> QED BY <3>5 DEF Registry!Next
  <2>5. CASE \A n \in UserNames : clientOnline[n] # s
    BY <2>1, <2>3, <2>5
  <2> QED BY <2>4, <2>5
<1>6. ASSUME NEW s \in Streams, GetClientsOnline(s) \/ GetIpByUserName(s)
      PROVE  UNCHANGED <<clientOnline, handler, name>>
  BY <1>6 DEF GetClientsOnline, GetIpByUserName
<1>7. ASSUME NEW s \in Streams, EndOfStream(s)
      PROVE  Registry!Next \/ UNCHANGED <<holder, served>>
  <2>0. PICK n \in Names : n = name[s]
    BY <1>0
  <2>1. served' = served /\ handler[s] = "reading"
    BY <1>7 DEF EndOfStream
  <2>2. \A m \in UserNames \ {n} : clientOnline[m] # s
    BY <2>0 DEF DirectoryInv
  <2>3. \A m \in UserNames \ {n} : Holder(m)' = Holder(m)
    BY <1>0, <1>7, <2>0, <2>2 DEF EndOfStream, Holder, UserNames
  <2>4. CASE n = EmptyName
    BY <2>1, <2>3, <2>4 DEF UserNames
  <2>5. CASE n # EmptyName
    <3>1. n \in UserNames /\ clientOnline[n] = s
      BY <2>0, <2>1, <2>5 DEF DirectoryInv, SessionKeepsItsName, UserNames
    <3>2. Holder(n) = s /\ Holder(n)' = Absent
      BY <1>0, <1>7, <2>0, <2>1, <3>1 DEF EndOfStream, Holder, UserNames
    <3>3. holder' = [holder EXCEPT ![n] = Absent]
      BY <2>3, <3>1, <3>2
    <3>4. Registry!Release(s, n)
      BY <2>1, <3>1, <3>2, <3>3 DEF Registry!Release
    <3> QED BY <3>1, <3>4 DEF Registry!Next
  <2> QED BY <2>4, <2>5
<1>8. ASSUME UNCHANGED vars
      PROVE  UNCHANGED <<clientOnline, handler, name>>
  BY <1>8 DEF vars
<1> QED
  BY <1>1, <1>2, <1>3, <1>4, <1>5, <1>6, <1>7, <1>8 DEF Next, Authorization

(* The directory implements the registry: a name is granted to one session *)
(* at a time and given back only by that session.                          *)
THEOREM RegistryImplemented == Spec => ImplementsRegistry
BY RegistryInit, RegistryStep, InvCorrect, PTL
   DEF Spec, ImplementsRegistry, Registry!Spec

=============================================================================
