--------------------------- MODULE VoicePathProofs --------------------------
(***************************************************************************)
(* Proofs about VoicePath for any set of calls, any rings that hold whole  *)
(* packets, and conversations that overlap in any way.                     *)
(***************************************************************************)
EXTENDS VoicePath, SequenceTheorems, TLAPS

USE PacketAssumption, RecorderAssumption, PlayerAssumption

-----------------------------------------------------------------------------
(* Numbers and sequences.                                                  *)

(* A packet is a sequence of PacketSize samples.                           *)
LEMMA PacketIsSeq ==
    ASSUME NEW p \in [1 .. PacketSize -> Int]
    PROVE  p \in Seq(Int) /\ Len(p) = PacketSize
OBVIOUS

LEMMA Multiple ==
    ASSUME NEW n \in Nat, NEW p \in Nat \ {0}
    PROVE  n % p = 0 <=> \E k \in Nat : n = k * p
<1>1. n = (n \div p) * p + (n % p) /\ n \div p \in Nat
  OBVIOUS
<1>3. ASSUME n % p = 0 PROVE \E k \in Nat : n = k * p
  BY <1>1, <1>3
<1>2. ASSUME NEW k \in Nat, n = k * p PROVE n % p = 0
  BY <1>2
<1> QED BY <1>2, <1>3

LEMMA NextMultiple ==
    ASSUME NEW n \in Nat, NEW p \in Nat \ {0}, n % p = 0
    PROVE  (n + p) % p = 0
<1>1. PICK k \in Nat : n = k * p
  BY Multiple
<1>2. n + p = (k + 1) * p /\ k + 1 \in Nat
  BY <1>1
<1>3. \E j \in Nat : n + p = j * p
  BY <1>2, Zenon
<1>4. n + p \in Nat
  OBVIOUS
<1> QED BY <1>3, <1>4, Multiple

(* Between two multiples of p that differ there is room for p.             *)
LEMMA RoomForOne ==
    ASSUME NEW a \in Int, NEW b \in Int, NEW p \in Nat \ {0}, a * p < b * p
    PROVE  a * p + p <= b * p
<1>1. a < b
  <2> SUFFICES ASSUME a >= b PROVE a * p >= b * p
    OBVIOUS
  <2>1. (a - b) * p >= 0
    OBVIOUS
  <2> QED BY <2>1
<1>2. (b - a - 1) * p >= 0
  BY <1>1
<1> QED BY <1>2

(* A packet at a multiple of its size ends inside a ring of whole packets. *)
LEMMA PacketEndsInRing ==
    ASSUME NEW n \in Nat, NEW r \in Nat \ {0}, NEW p \in Nat \ {0}, n % p = 0, r % p = 0
    PROVE  (n % r) + p <= r
<1>1. PICK k \in Nat : n = k * p
  BY Multiple
<1>2. PICK m \in Nat : r = m * p
  BY Multiple
<1> DEFINE q == n \div r
<1>3. n = q * r + (n % r) /\ n % r \in 0 .. r - 1 /\ q \in Nat
  OBVIOUS
<1> HIDE DEF q
<1>4. n % r = (k - q * m) * p /\ k - q * m \in Int /\ q * m \in Int
  <2>1. q * r = (q * m) * p
    BY <1>2, <1>3
  <2> QED BY <1>1, <1>3, <2>1
<1>5. (k - q * m) * p < m * p
  BY <1>2, <1>3, <1>4
<1>6. (k - q * m) * p + p <= m * p
  BY <1>4, <1>5, RoomForOne
<1> QED BY <1>2, <1>4, <1>6

(* What is queued behind a slot comes after it.                            *)
LEMMA Queued ==
    ASSUME NEW q \in Seq(Slots), NEW s \in Slots
    PROVE  /\ Append(q, s) \in Seq(Slots)
           /\ Append(q, s) # <<>>
           /\ Append(q, s)[Len(Append(q, s))] = s
           /\ Head(Append(q, s)) = IF q = <<>> THEN s ELSE Head(q)
<1>1. /\ Append(q, s) \in Seq(Slots) /\ Len(Append(q, s)) = Len(q) + 1
      /\ Append(q, s)[Len(q) + 1] = s
      /\ \A i \in 1 .. Len(q) : Append(q, s)[i] = q[i]
  BY AppendProperties
<1>2. Append(q, s) # <<>> /\ Head(Append(q, s)) = Append(q, s)[1]
  BY <1>1
<1>3. q = <<>> => Len(q) = 0
  OBVIOUS
<1>4. q # <<>> => 1 \in 1 .. Len(q) /\ Head(q) = q[1]
  OBVIOUS
<1> QED BY <1>1, <1>2, <1>3, <1>4

LEMMA Handled ==
    ASSUME NEW q \in Seq(Slots), q # <<>>
    PROVE  /\ Head(q) \in Slots
           /\ Tail(q) \in Seq(Slots)
           /\ Tail(q) = <<>> => Head(q) = q[Len(q)]
           /\ Tail(q) # <<>> => Tail(q)[Len(Tail(q))] = q[Len(q)]
<1>1. /\ Head(q) \in Slots /\ Tail(q) \in Seq(Slots) /\ Len(Tail(q)) = Len(q) - 1
      /\ \A i \in 1 .. Len(Tail(q)) : Tail(q)[i] = q[i + 1]
  BY HeadTailProperties
<1>2. Len(q) \in Nat /\ Len(Tail(q)) \in Nat /\ Head(q) = q[1]
  BY <1>1
<1>3. ASSUME Tail(q) = <<>> PROVE Head(q) = q[Len(q)]
  <2>1. Len(q) = 1
    BY <1>1, <1>2, <1>3, EmptySeq
  <2> QED BY <1>2, <2>1
<1>4. ASSUME Tail(q) # <<>> PROVE Tail(q)[Len(Tail(q))] = q[Len(q)]
  <2>1. Len(Tail(q)) \in 1 .. Len(Tail(q))
    BY <1>1, <1>4, EmptySeq
  <2> QED BY <1>1, <1>2, <2>1
<1> QED BY <1>1, <1>3, <1>4

LEMMA IndexInRing ==
    ASSUME NEW n \in Nat, NEW r \in Nat \ {0}
    PROVE  n % r \in 0 .. r - 1
OBVIOUS

-----------------------------------------------------------------------------
(* Types: the recorder's, the player's and the rest of the state.          *)

SendingType == [at: {"idle", "tested", "copying", "taken"}, from: Nat, copied: 0 .. PacketSize]
PushingType == [rest: Seq(Int), at: Nat, part: 0 .. PacketSize]
Packets == [1 .. PacketSize -> Int]

RecType ==
    /\ recBuff \in [0 .. RecBuffSize - 1 -> Int]
    /\ writePos \in Nat /\ sendPos \in Nat /\ stored \in BOOLEAN
    /\ packet \in Packets
    /\ sending \in [Calls -> SendingType]

(* Nobody pushes more than a packet at a time.                             *)
PlayType ==
    /\ playBuff \in [0 .. PlayBuffSize - 1 -> Int]
    /\ readyToRead \in Nat /\ readPos \in Nat
    /\ pushing \in [Calls -> PushingType]
    /\ \A c \in Calls : Len(pushing[c].rest) <= PacketSize
    /\ heard \in Seq(Int)

ControlType ==
    /\ talk \in [Calls -> Threads] /\ listen \in [Calls -> Threads]
    /\ stream \in [Calls -> Seq(Packets)]
    /\ closed \in [Calls -> BOOLEAN]
    /\ recQueue \in Seq(Slots) /\ playQueue \in Seq(Slots)
    /\ mic \in Devices /\ speaker \in Devices
    /\ overlapped \in BOOLEAN /\ overrun \in BOOLEAN

TypeInv == RecType /\ PlayType /\ ControlType

LEMMA TypeInit == Init => TypeInv
<1> SUFFICES ASSUME Init PROVE TypeInv
  OBVIOUS
<1>1. RecType
  <2>1. NotSending \in SendingType
    BY DEF NotSending, SendingType
  <2>2. recBuff \in [0 .. RecBuffSize - 1 -> Int] /\ packet \in Packets
    BY DEF Init, RecInit, Packets, Noise
  <2> QED BY <2>1, <2>2 DEF Init, RecInit, RecType
<1>2. PlayType
  <2>1. <<>> \in Seq(Int) /\ Len(<<>>) = 0
    BY EmptySeq
  <2>2. NotPushing \in PushingType /\ Len(NotPushing.rest) <= PacketSize
    BY <2>1 DEF NotPushing, PushingType
  <2> QED BY <2>1, <2>2 DEF Init, PlayInit, PlayType, Noise
<1>3. ControlType
  BY EmptySeq DEF Init, ControlType, Threads, Devices
<1> QED BY <1>1, <1>2, <1>3 DEF TypeInv

LEMMA TypeRecorder ==
    ASSUME RecType,
           \/ StoreSample \/ AdvanceWrite \/ UNCHANGED recVars
           \/ \E c \in Calls : WriteAudio(c) \/ SetAudioBytes(c)
    PROVE  RecType'
<1>1. CASE StoreSample
  BY <1>1 DEF RecType, StoreSample
<1>2. CASE AdvanceWrite
  <2>1. writePos' \in Nat
    BY <1>2 DEF RecType, AdvanceWrite
  <2> QED BY <1>2, <2>1, Zenon DEF RecType, AdvanceWrite
<1>3. ASSUME NEW c \in Calls, ReadSendPos(c) PROVE RecType'
  <2>1. [at |-> "copying", from |-> sendPos, copied |-> 0] \in SendingType
    BY DEF RecType, SendingType
  <2>2. sending' \in [Calls -> SendingType]
    BY <1>3, <2>1 DEF RecType, ReadSendPos
  <2> QED BY <1>3, <2>2 DEF RecType, ReadSendPos
<1>4. ASSUME NEW c \in Calls, CopySample(c) PROVE RecType'
  <2>1. sending[c] \in SendingType
    BY DEF RecType
  <2>2. sending[c].copied + 1 \in 1 .. PacketSize
    BY <1>4, <2>1 DEF CopySample, SendingType
  <2>3. RecIndex(c) \in Nat
    <3>1. sending[c].from \in Nat /\ sending[c].copied \in Nat
      BY <2>1 DEF SendingType
    <3>2. sending[c].from % RecBuffSize \in Nat
      BY <3>1, IndexInRing
    <3> QED BY <3>1, <3>2 DEF RecIndex
  <2>4. RecIndex(c) < RecBuffSize => recBuff[RecIndex(c)] \in Int
    BY <2>3 DEF RecType
  <2>5. packet' \in Packets
    BY <1>4, <2>2, <2>4 DEF CopySample, RecType, Packets, Noise
  <2>6. sending' \in [Calls -> SendingType]
    <3>1. [sending[c] EXCEPT !.copied = @ + 1] \in SendingType
      BY <2>1, <2>2 DEF SendingType
    <3> QED BY <1>4, <3>1 DEF CopySample, RecType
  <2> QED BY <1>4, <2>5, <2>6 DEF CopySample, RecType
<1>5. ASSUME NEW c \in Calls, AdvanceSend(c) PROVE RecType'
  BY <1>5 DEF RecType, SendingType, AdvanceSend
<1>6. ASSUME NEW c \in Calls, SetAudioBytes(c) PROVE RecType'
  BY <1>6 DEF RecType, SendingType, SetAudioBytes, NotSending
<1>7. CASE UNCHANGED recVars
  BY <1>7 DEF RecType, recVars
<1>8. ASSUME NEW c \in Calls, TestAvailable(c) PROVE RecType'
  BY <1>8 DEF RecType, SendingType, TestAvailable, NotSending
<1> QED BY <1>1, <1>2, <1>3, <1>4, <1>5, <1>6, <1>7, <1>8 DEF WriteAudio

LEMMA TypeStorePart ==
    ASSUME PlayType, NEW c \in Calls, StorePart(c)
    PROVE  PlayType'
<1> DEFINE rest == pushing[c].rest
           start == readyToRead % PlayBuffSize
           size == PartSize(c)
<1>1. rest \in Seq(Int) /\ rest # <<>> /\ Len(rest) <= PacketSize /\ pushing[c] \in PushingType
  BY DEF PlayType, PushingType, StorePart
<1>2. Len(rest) \in 1 .. PacketSize
  BY <1>1, EmptySeq
<1>3. start \in 0 .. PlayBuffSize - 1
  BY IndexInRing DEF PlayType
<1>4. size \in 1 .. Len(rest)
  BY <1>2, <1>3 DEF PartSize
<1>5. ASSUME NEW i \in start .. start + size - 1 PROVE rest[i - start + 1] \in Int
  <2>1. i - start + 1 \in 1 .. Len(rest)
    BY <1>2, <1>3, <1>4
  <2> QED BY <1>1, <2>1, ElementOfSeq
<1> HIDE DEF rest, start, size
<1>6. playBuff' \in [0 .. PlayBuffSize - 1 -> Int]
  BY <1>5 DEF StorePart, PlayType, rest, start, size
<1>7. size \in 0 .. PacketSize /\ readyToRead \in Nat
  BY <1>2, <1>4 DEF PlayType
<1>8. pushing' = [pushing EXCEPT ![c].at = readyToRead, ![c].part = size]
  BY DEF StorePart, size
<1>9. /\ pushing' \in [Calls -> PushingType]
      /\ \A d \in Calls : pushing'[d].rest = pushing[d].rest
  BY <1>7, <1>8 DEF PlayType, PushingType
<1> QED BY <1>6, <1>9 DEF PlayType, StorePart

LEMMA TypeAdvanceReady ==
    ASSUME PlayType, NEW c \in Calls, AdvanceReady(c)
    PROVE  PlayType'
<1> DEFINE rest == pushing[c].rest
           part == pushing[c].part
           left == SubSeq(rest, part + 1, Len(rest))
<1>1. pushing[c] \in PushingType /\ Len(rest) <= PacketSize
  BY DEF PlayType
<1>2. rest \in Seq(Int) /\ part \in Nat
  BY <1>1 DEF PushingType
<1> HIDE DEF rest, part
<1>3. Len(rest) \in Nat
  BY <1>2, LenProperties
<1>4. ASSUME NEW i \in part + 1 .. Len(rest) PROVE rest[i] \in Int
  <2>1. i \in 1 .. Len(rest)
    BY <1>2, <1>3
  <2> QED BY <1>2, <2>1, ElementOfSeq
<1>5. part + 1 \in Int /\ Len(rest) \in Int
  BY <1>2, <1>3
<1>6. /\ left \in Seq(Int)
      /\ Len(left) = IF part + 1 <= Len(rest) THEN Len(rest) - (part + 1) + 1 ELSE 0
  BY <1>4, <1>5, SubSeqProperties
<1>7. Len(left) <= PacketSize
  BY <1>1, <1>2, <1>3, <1>6
<1>8. pushing' = [pushing EXCEPT ![c] = [rest |-> left, at |-> 0, part |-> 0]]
  <2>1. \A s : [NotPushing EXCEPT !.rest = s] = [rest |-> s, at |-> 0, part |-> 0]
    BY DEF NotPushing
  <2> QED BY <2>1 DEF AdvanceReady, rest, part
<1> HIDE DEF left
<1>9. [rest |-> left, at |-> 0, part |-> 0] \in PushingType
  BY <1>6 DEF PushingType
<1>10. pushing' \in [Calls -> PushingType] /\ \A d \in Calls : Len(pushing'[d].rest) <= PacketSize
  BY <1>7, <1>8, <1>9 DEF PlayType
<1>11. readyToRead' \in Nat
  <2>1. pushing[c].at \in Nat /\ readyToRead \in Nat
    BY <1>1 DEF PlayType, PushingType
  <2> QED BY <1>2, <2>1 DEF AdvanceReady, part
<1> QED BY <1>10, <1>11 DEF PlayType, AdvanceReady

LEMMA TypePlayer ==
    ASSUME PlayType,
           \/ PlaySample \/ UNCHANGED playVars
           \/ \E c \in Calls : (\E p \in Packets : Push(c, p)) \/ ReadAudio(c)
    PROVE  PlayType'
<1>1. CASE PlaySample
  <2>1. readPos % PlayBuffSize \in 0 .. PlayBuffSize - 1
    BY IndexInRing DEF PlayType
  <2>2. playBuff[readPos % PlayBuffSize] \in Int
    BY <2>1 DEF PlayType
  <2>3. heard' \in Seq(Int)
    BY <1>1, <2>2, AppendProperties DEF PlaySample, PlayType
  <2> QED BY <1>1, <2>3 DEF PlaySample, PlayType
<1>2. ASSUME NEW c \in Calls, NEW p \in Packets, Push(c, p) PROVE PlayType'
  <2>1. p \in Seq(Int) /\ Len(p) = PacketSize
    BY PacketIsSeq DEF Packets
  <2>2. pushing' = [pushing EXCEPT ![c].rest = p]
    BY <1>2 DEF Push
  <2>3. pushing' \in [Calls -> PushingType]
    BY <2>1, <2>2 DEF PlayType, PushingType
  <2>4. \A d \in Calls : pushing'[d].rest = IF d = c THEN p ELSE pushing[d].rest
    BY <2>2 DEF PlayType, PushingType
  <2> QED BY <1>2, <2>1, <2>3, <2>4 DEF PlayType, Push
<1>3. CASE UNCHANGED playVars
  BY <1>3 DEF PlayType, playVars
<1> QED BY <1>1, <1>2, <1>3, TypeStorePart, TypeAdvanceReady DEF ReadAudio

LEMMA TypeThreads ==
    ASSUME ControlType, NEW c \in Calls,
           \/ StartTalk(c) \/ TakePacket(c) \/ SendFails(c) \/ StopTalk(c)
           \/ StartListen(c) \/ PushPacket(c) \/ StopListen(c) \/ Close(c)
    PROVE  ControlType'
<1>1. /\ (overlapped \/ Overlaps(c)) \in BOOLEAN
      /\ (overrun \/ OverwritesUnplayed(c)) \in BOOLEAN
  BY DEF Overlaps, OverwritesUnplayed
<1>2. \A q \in Seq(Slots), s \in Slots : Append(q, s) \in Seq(Slots)
  BY Queued
<1> USE DEF ControlType, Threads, Slots
<1>3. CASE StartTalk(c)
  BY <1>1, <1>2, <1>3 DEF StartTalk
<1>4. CASE TakePacket(c)
  BY <1>4 DEF TakePacket, threads, control
<1>5. CASE SendFails(c) \/ StopTalk(c)
  BY <1>2, <1>5 DEF SendFails, StopTalk, EndTalk
<1>6. CASE StartListen(c)
  BY <1>1, <1>2, <1>6 DEF StartListen
<1>7. CASE PushPacket(c)
  BY <1>1, <1>7 DEF PushPacket, threads, control
<1>8. CASE StopListen(c)
  BY <1>2, <1>8 DEF StopListen
<1>9. CASE Close(c)
  BY <1>9 DEF Close, control
<1> QED BY <1>3, <1>4, <1>5, <1>6, <1>7, <1>8, <1>9

LEMMA TypeControl ==
    ASSUME RecType, ControlType, [Next]_vars
    PROVE  ControlType'
<1>1. CASE Record
  <2>1. overrun' \in BOOLEAN
    BY <1>1 DEF Record, ControlType
  <2> QED BY <1>1, <2>1 DEF Record, ControlType, threads, control
<1>2. CASE Play
  BY <1>2 DEF Play, ControlType, threads, control
<1>3. CASE HandleRecorderSlot
  BY <1>3, Handled DEF HandleRecorderSlot, ControlType, threads, Devices, Stopped
<1>4. CASE HandlePlayerSlot
  BY <1>4, Handled DEF HandlePlayerSlot, ControlType, threads, Devices, Stopped
<1>5. ASSUME NEW c \in Calls, SendPacket(c) PROVE ControlType'
  <2>1. stream[c] \in Seq(Packets) /\ packet \in Packets
    BY DEF ControlType, RecType
  <2>2. Append(stream[c], packet) \in Seq(Packets)
    BY <2>1, AppendProperties
  <2> QED BY <1>5, <2>2 DEF SendPacket, ControlType, control
<1>6. ASSUME NEW c \in Calls, Receive(c) PROVE ControlType'
  <2>1. stream[c] \in Seq(Packets) /\ stream[c] # <<>>
    BY <1>6 DEF Receive, ControlType
  <2>2. Tail(stream[c]) \in Seq(Packets)
    BY <2>1, HeadTailProperties
  <2> QED BY <1>6, <2>2 DEF Receive, ControlType, control
<1>7. CASE UNCHANGED vars
  BY <1>7 DEF vars, ControlType, threads, control
<1> QED BY <1>1, <1>2, <1>3, <1>4, <1>5, <1>6, <1>7, TypeThreads DEF Next

(* What a step does to the recorder and to the player.                     *)
LEMMA StepOfRings ==
    ASSUME ControlType, [Next]_vars
    PROVE  /\ \/ StoreSample \/ AdvanceWrite \/ UNCHANGED recVars
              \/ \E c \in Calls : WriteAudio(c) \/ SetAudioBytes(c)
           /\ \/ PlaySample \/ UNCHANGED playVars
              \/ \E c \in Calls : (\E p \in Packets : Push(c, p)) \/ ReadAudio(c)
<1>1. CASE Record \/ Play \/ HandleRecorderSlot \/ HandlePlayerSlot
  BY <1>1 DEF Record, Play, HandleRecorderSlot, HandlePlayerSlot
<1>2. ASSUME NEW c \in Calls,
             \/ StartTalk(c) \/ TakePacket(c) \/ SendPacket(c) \/ SendFails(c) \/ StopTalk(c)
      PROVE  (UNCHANGED recVars \/ WriteAudio(c) \/ SetAudioBytes(c)) /\ UNCHANGED playVars
  BY <1>2 DEF StartTalk, TakePacket, SendPacket, SendFails, StopTalk, EndTalk
<1>3. ASSUME NEW c \in Calls, StartListen(c) \/ PushPacket(c) \/ StopListen(c) \/ Close(c)
      PROVE  UNCHANGED recVars /\ (UNCHANGED playVars \/ ReadAudio(c))
  BY <1>3 DEF StartListen, PushPacket, StopListen, Close
<1>4. ASSUME NEW c \in Calls, Receive(c)
      PROVE  UNCHANGED recVars /\ \E p \in Packets : Push(c, p)
  <2>1. stream[c] \in Seq(Packets) /\ stream[c] # <<>>
    BY <1>4 DEF Receive, ControlType
  <2>2. Head(stream[c]) \in Packets
    BY <2>1, HeadTailProperties
  <2> QED BY <1>4, <2>2 DEF Receive
<1>5. CASE UNCHANGED vars
  BY <1>5 DEF vars
<1> QED BY <1>1, <1>2, <1>3, <1>4, <1>5 DEF Next

LEMMA TypeStep == TypeInv /\ [Next]_vars => TypeInv'
BY StepOfRings, TypeRecorder, TypePlayer, TypeControl DEF TypeInv

(* Every variable of the voice path keeps its type, for any set of calls   *)
(* and any size of the rings (recorder.h:33-41, player.h:30-38).           *)
THEOREM TypeCorrect == Spec => []TypeOK
<1>1. TypeInv => TypeOK
  BY DEF TypeInv, TypeOK, RecType, PlayType, ControlType, SendingType, PushingType, Packets
<1> QED BY <1>1, TypeInit, TypeStep, PTL DEF Spec

-----------------------------------------------------------------------------
(* The devices: what a device is and what its queue still holds follow what*)
(* the voice threads have asked for.                                       *)

(* With "alone", at most one thread is in its loop.                        *)
DeviceFollows(queue, device, thread, alone) ==
    /\ device # "crashed"
    /\ queue # <<>> /\ device = "none" => Head(queue) = "run"
    /\ (\E c \in Calls : thread[c] # "none") => device # "none" \/ queue # <<>>
    /\ (\A c \in Calls : thread[c] # "loop") =>
          IF queue = <<>> THEN device # "active" ELSE queue[Len(queue)] = "stop"
    /\ alone /\ (\E c \in Calls : thread[c] = "loop") =>
          IF queue = <<>> THEN device = "active" ELSE queue[Len(queue)] = "run"

LEMMA DeviceStarted ==
    ASSUME NEW q \in Seq(Slots), NEW d \in Devices, NEW t \in [Calls -> Threads],
           NEW alone \in BOOLEAN, NEW c \in Calls, DeviceFollows(q, d, t, alone)
    PROVE  DeviceFollows(Append(q, "run"), d, [t EXCEPT ![c] = "loop"], alone)
<1> DEFINE r == Append(q, "run")
           u == [t EXCEPT ![c] = "loop"]
<1>1. r # <<>> /\ r[Len(r)] = "run" /\ Head(r) = IF q = <<>> THEN "run" ELSE Head(q)
  BY Queued DEF Slots
<1>2. u[c] = "loop"
  OBVIOUS
<1> HIDE DEF r, u
<1>3. DeviceFollows(r, d, u, alone)
  BY <1>1, <1>2 DEF DeviceFollows
<1> QED BY <1>3 DEF r, u

LEMMA DeviceEnded ==
    ASSUME NEW q \in Seq(Slots), NEW d \in Devices, NEW t \in [Calls -> Threads],
           NEW alone \in BOOLEAN, NEW c \in Calls, t[c] = "loop",
           alone => \A e \in Calls \ {c} : t[e] # "loop",
           DeviceFollows(q, d, t, alone)
    PROVE  DeviceFollows(Append(q, "stop"), d, [t EXCEPT ![c] = "done"], alone)
<1> DEFINE r == Append(q, "stop")
           u == [t EXCEPT ![c] = "done"]
<1>1. r # <<>> /\ r[Len(r)] = "stop" /\ Head(r) = IF q = <<>> THEN "stop" ELSE Head(q)
  BY Queued DEF Slots
<1>2. q = <<>> => d # "none"
  BY DEF DeviceFollows
<1>3. alone => \A e \in Calls : u[e] # "loop"
  OBVIOUS
<1> HIDE DEF r, u
<1>4. DeviceFollows(r, d, u, alone)
  BY <1>1, <1>2, <1>3 DEF DeviceFollows
<1> QED BY <1>4 DEF r, u

LEMMA DeviceHandled ==
    ASSUME NEW q \in Seq(Slots), NEW d \in Devices, NEW t \in [Calls -> Threads],
           NEW alone \in BOOLEAN, q # <<>>, DeviceFollows(q, d, t, alone)
    PROVE  DeviceFollows(Tail(q), IF Head(q) = "run" THEN "active" ELSE Stopped(d), t, alone)
<1> DEFINE e == IF Head(q) = "run" THEN "active" ELSE Stopped(d)
           r == Tail(q)
<1>1. /\ Head(q) \in Slots
      /\ r = <<>> => Head(q) = q[Len(q)]
      /\ r # <<>> => r[Len(r)] = q[Len(q)]
  BY Handled
<1>2. e = IF Head(q) = "run" THEN "active" ELSE "stopped"
  BY DEF DeviceFollows, Stopped
<1> HIDE DEF e, r
<1>3. DeviceFollows(r, e, t, alone)
  BY <1>1, <1>2 DEF DeviceFollows
<1> QED BY <1>3 DEF e, r

(* Conversations that have begun to overlap are never alone again.         *)
LEMMA DeviceShared ==
    ASSUME NEW q, NEW d, NEW t, NEW alone, NEW then, then => alone, DeviceFollows(q, d, t, alone)
    PROVE  DeviceFollows(q, d, t, then)
BY DEF DeviceFollows

OneAtATime == ~overlapped => \A c, d \in Calls : IsUp(c) /\ IsUp(d) => c = d

(* A packet is under way only in the writing thread's loop.                *)
SenderTalks == \A c \in Calls : sending[c].at # "idle" => talk[c] = "loop"

DevicesFollow ==
    /\ DeviceFollows(recQueue, mic, talk, ~overlapped)
    /\ DeviceFollows(playQueue, speaker, listen, ~overlapped)

ControlInv == OneAtATime /\ SenderTalks /\ DevicesFollow

LEMMA ControlInit == Init => ControlInv
<1> SUFFICES ASSUME Init PROVE ControlInv
  OBVIOUS
<1> USE DEF Init, RecInit, PlayInit
<1>1. OneAtATime
  BY DEF OneAtATime, IsUp
<1>2. SenderTalks
  BY DEF SenderTalks, NotSending
<1>3. DevicesFollow
  BY DEF DevicesFollow, DeviceFollows
<1> QED BY <1>1, <1>2, <1>3 DEF ControlInv

(* Only a thread that starts brings a conversation up.                     *)
LEMMA OneAtATimeStep ==
    ASSUME ControlType, SenderTalks, OneAtATime, [Next]_vars
    PROVE  OneAtATime'
<1>1. CASE UNCHANGED <<talk, listen, overlapped>>
  BY <1>1 DEF OneAtATime, IsUp
<1>2. ASSUME NEW c \in Calls,
             overlapped' = (overlapped \/ Overlaps(c)),
             \A d \in Calls \ {c} : talk'[d] = talk[d] /\ listen'[d] = listen[d]
      PROVE  OneAtATime'
  BY <1>2 DEF OneAtATime, Overlaps, IsUp
<1>3. ASSUME NEW c \in Calls, overlapped' = overlapped, IsUp(c),
             \A d \in Calls \ {c} : talk'[d] = talk[d] /\ listen'[d] = listen[d]
      PROVE  OneAtATime'
  BY <1>3 DEF OneAtATime, IsUp
<1>4. ASSUME NEW c \in Calls, StartTalk(c) PROVE OneAtATime'
  BY <1>2, <1>4 DEF StartTalk, ControlType
<1>5. ASSUME NEW c \in Calls, StartListen(c) PROVE OneAtATime'
  BY <1>2, <1>5 DEF StartListen, ControlType
<1>6. ASSUME NEW c \in Calls, talk[c] = "loop", EndTalk(c) PROVE OneAtATime'
  BY <1>3, <1>6 DEF EndTalk, ControlType, IsUp
<1>7. ASSUME NEW c \in Calls, StopListen(c) PROVE OneAtATime'
  BY <1>3, <1>7 DEF StopListen, ControlType, IsUp
<1>8. ASSUME NEW c \in Calls, SendFails(c) \/ StopTalk(c) PROVE OneAtATime'
  <2>1. talk[c] = "loop" /\ EndTalk(c)
    BY <1>8 DEF SendFails, StopTalk, SetAudioBytes, SenderTalks
  <2> QED BY <1>6, <2>1
<1>9. CASE Record \/ Play \/ HandleRecorderSlot \/ HandlePlayerSlot
  BY <1>1, <1>9 DEF Record, Play, HandleRecorderSlot, HandlePlayerSlot, threads
<1>10. ASSUME NEW c \in Calls, TakePacket(c) \/ SendPacket(c) \/ Receive(c) \/ PushPacket(c) \/ Close(c)
       PROVE  OneAtATime'
  BY <1>1, <1>10 DEF TakePacket, SendPacket, Receive, PushPacket, Close, threads
<1>11. CASE UNCHANGED vars
  BY <1>1, <1>11 DEF vars, threads
<1> QED BY <1>4, <1>5, <1>7, <1>8, <1>9, <1>10, <1>11 DEF Next

LEMMA SenderTalksStep ==
    ASSUME RecType, ControlType, SenderTalks, [Next]_vars
    PROVE  SenderTalks'
<1>1. ASSUME UNCHANGED sending, \A c \in Calls : talk[c] = "loop" => talk'[c] = "loop"
      PROVE  SenderTalks'
  BY <1>1 DEF SenderTalks
<1>2. ASSUME NEW c \in Calls, SetAudioBytes(c),
             \A d \in Calls \ {c} : talk'[d] = talk[d]
      PROVE  SenderTalks'
  BY <1>2 DEF SenderTalks, SetAudioBytes, RecType, NotSending
<1>3. ASSUME NEW c \in Calls, StartTalk(c) PROVE SenderTalks'
  BY <1>1, <1>3 DEF StartTalk, recVars, ControlType
<1>4. ASSUME NEW c \in Calls, TakePacket(c) PROVE SenderTalks'
  <2>1. talk[c] = "loop" /\ talk' = talk
    BY <1>4 DEF TakePacket, threads
  <2>2. \A d \in Calls \ {c} : sending'[d] = sending[d]
    BY <1>4 DEF TakePacket, WriteAudio, TestAvailable, ReadSendPos, CopySample, AdvanceSend, RecType
  <2> QED BY <2>1, <2>2 DEF SenderTalks
<1>5. ASSUME NEW c \in Calls, SendPacket(c) \/ SendFails(c) PROVE SenderTalks'
  BY <1>2, <1>5 DEF SendPacket, SendFails, EndTalk, ControlType
<1>6. ASSUME NEW c \in Calls, StopTalk(c) PROVE SenderTalks'
  BY <1>6 DEF StopTalk, EndTalk, recVars, SenderTalks, ControlType, NotSending
<1>7. CASE Record
  BY <1>1, <1>7 DEF Record, StoreSample, AdvanceWrite, threads
<1>8. CASE Play \/ HandleRecorderSlot \/ HandlePlayerSlot
  BY <1>1, <1>8 DEF Play, HandleRecorderSlot, HandlePlayerSlot, recVars, threads
<1>9. ASSUME NEW c \in Calls, StartListen(c) \/ Receive(c) \/ PushPacket(c) \/ StopListen(c) \/ Close(c)
      PROVE  SenderTalks'
  BY <1>1, <1>9 DEF StartListen, Receive, PushPacket, StopListen, Close, recVars, threads
<1>10. CASE UNCHANGED vars
  BY <1>1, <1>10 DEF vars, recVars, threads
<1> QED BY <1>3, <1>4, <1>5, <1>6, <1>7, <1>8, <1>9, <1>10 DEF Next

LEMMA DevicesFollowStep ==
    ASSUME ControlType, ControlInv, [Next]_vars
    PROVE  DevicesFollow'
<1> DEFINE alone == ~overlapped
<1>1. /\ recQueue \in Seq(Slots) /\ mic \in Devices /\ talk \in [Calls -> Threads]
      /\ playQueue \in Seq(Slots) /\ speaker \in Devices /\ listen \in [Calls -> Threads]
      /\ alone \in BOOLEAN
      /\ DeviceFollows(recQueue, mic, talk, alone)
      /\ DeviceFollows(playQueue, speaker, listen, alone)
  BY DEF ControlType, ControlInv, DevicesFollow
<1>2. ASSUME UNCHANGED <<recQueue, mic, talk, playQueue, speaker, listen, overlapped>>
      PROVE  DevicesFollow'
  BY <1>1, <1>2 DEF DevicesFollow
<1>3. ASSUME NEW c \in Calls, StartTalk(c) PROVE DevicesFollow'
  <2>1. /\ recQueue' = Append(recQueue, "run") /\ talk' = [talk EXCEPT ![c] = "loop"]
        /\ UNCHANGED <<playQueue, mic, speaker, listen>>
        /\ ~overlapped' => ~overlapped
    BY <1>3 DEF StartTalk
  <2>2. DeviceFollows(recQueue', mic', talk', alone)
    BY <1>1, <2>1, DeviceStarted
  <2> QED BY <1>1, <2>1, <2>2, DeviceShared DEF DevicesFollow
<1>4. ASSUME NEW c \in Calls, StartListen(c) PROVE DevicesFollow'
  <2>1. /\ playQueue' = Append(playQueue, "run") /\ listen' = [listen EXCEPT ![c] = "loop"]
        /\ UNCHANGED <<recQueue, mic, speaker, talk>>
        /\ ~overlapped' => ~overlapped
    BY <1>4 DEF StartListen
  <2>2. DeviceFollows(playQueue', speaker', listen', alone)
    BY <1>1, <2>1, DeviceStarted
  <2> QED BY <1>1, <2>1, <2>2, DeviceShared DEF DevicesFollow
<1>5. ASSUME NEW c \in Calls, SendFails(c) \/ StopTalk(c) PROVE DevicesFollow'
  <2>1. talk[c] = "loop" /\ EndTalk(c)
    BY <1>5 DEF SendFails, StopTalk, SetAudioBytes, SenderTalks, ControlInv
  <2>2. alone => \A e \in Calls \ {c} : talk[e] # "loop"
    BY <2>1 DEF ControlInv, OneAtATime, IsUp
  <2>3. /\ recQueue' = Append(recQueue, "stop") /\ talk' = [talk EXCEPT ![c] = "done"]
        /\ UNCHANGED <<playQueue, mic, speaker, listen, overlapped>>
    BY <2>1 DEF EndTalk
  <2>4. DeviceFollows(recQueue', mic', talk', alone)
    BY <1>1, <2>1, <2>2, <2>3, DeviceEnded
  <2> QED BY <1>1, <2>3, <2>4 DEF DevicesFollow
<1>6. ASSUME NEW c \in Calls, StopListen(c) PROVE DevicesFollow'
  <2>1. /\ listen[c] = "loop"
        /\ playQueue' = Append(playQueue, "stop") /\ listen' = [listen EXCEPT ![c] = "done"]
        /\ UNCHANGED <<recQueue, mic, speaker, talk, overlapped>>
    BY <1>6 DEF StopListen
  <2>2. alone => \A e \in Calls \ {c} : listen[e] # "loop"
    BY <2>1 DEF ControlInv, OneAtATime, IsUp
  <2>3. DeviceFollows(playQueue', speaker', listen', alone)
    BY <1>1, <2>1, <2>2, DeviceEnded
  <2> QED BY <1>1, <2>1, <2>3 DEF DevicesFollow
<1>7. CASE HandleRecorderSlot
  <2>1. /\ recQueue # <<>> /\ recQueue' = Tail(recQueue)
        /\ mic' = IF Head(recQueue) = "run" THEN "active" ELSE Stopped(mic)
        /\ UNCHANGED <<playQueue, speaker, talk, listen, overlapped>>
    BY <1>7 DEF HandleRecorderSlot, threads
  <2>2. DeviceFollows(recQueue', mic', talk', alone)
    BY <1>1, <2>1, DeviceHandled
  <2> QED BY <1>1, <2>1, <2>2 DEF DevicesFollow
<1>8. CASE HandlePlayerSlot
  <2>1. /\ playQueue # <<>> /\ playQueue' = Tail(playQueue)
        /\ speaker' = IF Head(playQueue) = "run" THEN "active" ELSE Stopped(speaker)
        /\ UNCHANGED <<recQueue, mic, talk, listen, overlapped>>
    BY <1>8 DEF HandlePlayerSlot, threads
  <2>2. DeviceFollows(playQueue', speaker', listen', alone)
    BY <1>1, <2>1, DeviceHandled
  <2> QED BY <1>1, <2>1, <2>2 DEF DevicesFollow
<1>9. CASE Record \/ Play
  BY <1>2, <1>9 DEF Record, Play, threads, control
<1>10. ASSUME NEW c \in Calls, TakePacket(c) \/ SendPacket(c) \/ Receive(c) \/ PushPacket(c) \/ Close(c)
       PROVE  DevicesFollow'
  BY <1>2, <1>10 DEF TakePacket, SendPacket, Receive, PushPacket, Close, threads, control
<1>11. CASE UNCHANGED vars
  BY <1>2, <1>11 DEF vars, threads, control
<1> QED BY <1>3, <1>4, <1>5, <1>6, <1>7, <1>8, <1>9, <1>10, <1>11 DEF Next

LEMMA ControlStep == TypeInv /\ ControlInv /\ [Next]_vars => ControlInv'
BY OneAtATimeStep, SenderTalksStep, DevicesFollowStep DEF TypeInv, ControlInv

LEMMA ControlCorrect == Spec => [](TypeInv /\ ControlInv)
BY TypeInit, TypeStep, ControlInit, ControlStep, PTL DEF Spec

(* However the conversations of however many calls overlap, a slot that    *)
(* stops the recorder or the player finds a device (recorder.cpp:68,       *)
(* player.cpp:71): every queue begins with a run until there is one.       *)
THEOREM StopFindsDeviceCorrect == Spec => []StopFindsDevice
<1>1. ControlInv => StopFindsDevice
  BY DEF ControlInv, DevicesFollow, DeviceFollows, StopFindsDevice
<1> QED BY <1>1, ControlCorrect, PTL

(* When no thread is in its loop and the queue has run, the device is off: *)
(* the last slot queued was then a stop (audiomodule.cpp:14-21).           *)
THEOREM SilentAfterLastCallCorrect == Spec => []SilentAfterLastCall
<1>1. ControlInv => SilentAfterLastCall
  BY DEF ControlInv, DevicesFollow, DeviceFollows, SilentAfterLastCall
<1> QED BY <1>1, ControlCorrect, PTL

(* Conversations that follow one another have their devices on: the stop   *)
(* of one is queued before the run of the next (peertopeer.cpp:143-233).   *)
THEOREM LoneCallHasDevicesCorrect == Spec => []LoneCallHasDevices
<1>1. ControlInv => LoneCallHasDevices
  BY DEF ControlInv, DevicesFollow, DeviceFollows, LoneCallHasDevices
<1> QED BY <1>1, ControlCorrect, PTL

-----------------------------------------------------------------------------
(* The positions of the microphone's ring.                                 *)

(* Send positions are multiples of the packet's size, the ones that a call *)
(* still works with included.                                              *)
WholePositions ==
    /\ sendPos % PacketSize = 0
    /\ \A c \in Calls : sending[c].from % PacketSize = 0

(* While conversations do not overlap, what is tested or copied has been   *)
(* recorded.                                                               *)
SendsRecorded ==
    /\ sendPos <= writePos
    /\ \A c \in Calls : sending[c].at = "tested" => sendPos + PacketSize <= writePos
    /\ \A c \in Calls : sending[c].at = "copying" =>
          sending[c].from = sendPos /\ sendPos + PacketSize <= writePos
CopiesRecorded == ~overlapped => SendsRecorded

RingInv == WholePositions /\ CopiesRecorded

LEMMA RingInit == Init => RingInv
<1>1. 0 % PacketSize = 0
  BY Multiple
<1> QED BY <1>1 DEF Init, RecInit, RingInv, WholePositions, CopiesRecorded, SendsRecorded, NotSending

LEMMA WholePositionsStep ==
    ASSUME TypeInv, WholePositions, [Next]_vars
    PROVE  WholePositions'
<1> USE DEF WholePositions
<1>0. 0 % PacketSize = 0
  BY Multiple
<1>1. RecType
  BY DEF TypeInv
<1>2. CASE StoreSample \/ AdvanceWrite \/ UNCHANGED recVars
  BY <1>2 DEF StoreSample, AdvanceWrite, recVars
<1>3. ASSUME NEW c \in Calls, TestAvailable(c) \/ ReadSendPos(c) PROVE WholePositions'
  BY <1>0, <1>1, <1>3 DEF TestAvailable, ReadSendPos, RecType, NotSending
<1>4. ASSUME NEW c \in Calls, CopySample(c) PROVE WholePositions'
  <2>1. \A d \in Calls : sending'[d].from = sending[d].from
    BY <1>1, <1>4 DEF CopySample, RecType, SendingType
  <2> QED BY <1>4, <2>1 DEF CopySample
<1>5. ASSUME NEW c \in Calls, AdvanceSend(c) PROVE WholePositions'
  <2>1. \A d \in Calls : sending'[d].from = sending[d].from
    BY <1>1, <1>5 DEF AdvanceSend, RecType, SendingType
  <2>2. sendPos \in Nat /\ sending[c].from \in Nat
    BY <1>1 DEF RecType, SendingType
  <2>3. sendPos' % PacketSize = 0
    BY <1>5, <2>2, NextMultiple DEF AdvanceSend
  <2> QED BY <2>1, <2>3
<1>6. ASSUME NEW c \in Calls, SetAudioBytes(c) PROVE WholePositions'
  BY <1>0, <1>1, <1>6 DEF SetAudioBytes, RecType, NotSending
<1> QED BY <1>2, <1>3, <1>4, <1>5, <1>6, StepOfRings DEF TypeInv, WriteAudio

LEMMA CopiesRecordedStep ==
    ASSUME TypeInv, ControlInv, CopiesRecorded, [Next]_vars
    PROVE  CopiesRecorded'
<1>1. RecType /\ (~overlapped' => ~overlapped)
  <2>1. ~overlapped' => ~overlapped
    BY DEF Next, Record, Play, HandleRecorderSlot, HandlePlayerSlot, StartTalk, TakePacket,
           SendPacket, SendFails, StopTalk, EndTalk, StartListen, Receive, PushPacket, StopListen,
           Close, vars, threads
  <2> QED BY <2>1 DEF TypeInv
<1> SUFFICES ASSUME ~overlapped', ~overlapped PROVE SendsRecorded'
  BY <1>1 DEF CopiesRecorded
<1>2. SendsRecorded /\ sendPos \in Nat /\ writePos \in Nat
  BY <1>1 DEF CopiesRecorded, RecType
<1> USE DEF SendsRecorded
<1>3. CASE StoreSample \/ UNCHANGED recVars
  BY <1>2, <1>3 DEF StoreSample, recVars
<1>4. CASE AdvanceWrite
  BY <1>2, <1>4 DEF AdvanceWrite
<1>5. ASSUME NEW c \in Calls, TestAvailable(c) PROVE SendsRecorded'
  <2>1. sendPos + PacketSize <= writePos
    BY <1>2, <1>5 DEF TestAvailable, Available
  <2> QED BY <1>1, <1>2, <1>5, <2>1 DEF TestAvailable, RecType, NotSending
<1>6. ASSUME NEW c \in Calls, CopySample(c) PROVE SendsRecorded'
  <2>1. \A d \in Calls : sending'[d].from = sending[d].from /\ sending'[d].at = sending[d].at
    BY <1>1, <1>6 DEF CopySample, RecType, SendingType
  <2> QED BY <1>2, <1>6, <2>1 DEF CopySample
<1>7. ASSUME NEW c \in Calls, AdvanceSend(c) PROVE SendsRecorded'
  <2>1. sendPos' = sendPos + PacketSize /\ writePos' = writePos /\ sendPos' <= writePos
    BY <1>2, <1>7 DEF AdvanceSend
  <2>2. \A d \in Calls \ {c} : sending[d].at = "idle"
    <3>1. sending[c].at = "copying"
      BY <1>7 DEF AdvanceSend
    <3> QED BY <3>1 DEF ControlInv, SenderTalks, OneAtATime, IsUp
  <2>3. \A d \in Calls : sending'[d].at \notin {"tested", "copying"}
    BY <1>1, <1>7, <2>2 DEF AdvanceSend, RecType, SendingType
  <2> QED BY <2>1, <2>3
<1>8. ASSUME NEW c \in Calls, SetAudioBytes(c) PROVE SendsRecorded'
  BY <1>1, <1>2, <1>8 DEF SetAudioBytes, RecType, NotSending
<1>9. ASSUME NEW c \in Calls, ReadSendPos(c) PROVE SendsRecorded'
  BY <1>1, <1>2, <1>9 DEF ReadSendPos, RecType
<1> QED BY <1>3, <1>4, <1>5, <1>6, <1>7, <1>8, <1>9, StepOfRings DEF TypeInv, WriteAudio

LEMMA RingStep == TypeInv /\ ControlInv /\ RingInv /\ [Next]_vars => RingInv'
BY WholePositionsStep, CopiesRecordedStep DEF RingInv

LEMMA RingCorrect == Spec => [](TypeInv /\ ControlInv /\ RingInv)
BY TypeInit, TypeStep, ControlInit, ControlStep, RingInit, RingStep, PTL DEF Spec

(* A ring of whole packets is never read past its end, although memcpy does*)
(* not wrap around and calls lose each other's updates of the position     *)
(* (recorder.cpp:39-41).                                                   *)
THEOREM PacketInsideRingCorrect == Spec => []PacketInsideRing
<1>1. TypeInv /\ RingInv => PacketInsideRing
  <2> SUFFICES ASSUME TypeInv, RingInv, NEW c \in Calls
               PROVE  (sending[c].from % RecBuffSize) + PacketSize <= RecBuffSize
    BY DEF PacketInsideRing
  <2>1. sending[c].from \in Nat /\ sending[c].from % PacketSize = 0
    BY DEF TypeInv, RecType, SendingType, RingInv, WholePositions
  <2> QED BY <2>1, WholePackets, PacketEndsInRing DEF WholePackets
<1> QED BY <1>1, RingCorrect, PTL

(* Conversations that do not overlap never send what was not recorded: the *)
(* unsigned difference of recorder.cpp:38 does not wrap.                   *)
THEOREM SendBehindWriteCorrect == Spec => []SendBehindWrite
<1>1. RingInv => SendBehindWrite
  BY DEF RingInv, CopiesRecorded, SendsRecorded, SendBehindWrite
<1> QED BY <1>1, RingCorrect, PTL
=============================================================================
