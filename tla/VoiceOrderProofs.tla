-------------------------- MODULE VoiceOrderProofs --------------------------
(***************************************************************************)
(* What is heard was spoken, in the order it was spoken: the proof that    *)
(* VoicePath keeps HeardInOrder, for any set of calls and any rings.  The  *)
(* argument follows a sample from the microphone's ring through the packet *)
(* of its call, the stream and the rest still to be pushed into the        *)
(* loudspeaker's ring and to the loudspeaker.                              *)
(***************************************************************************)
EXTENDS VoicePathProofs

USE PacketAssumption, RecorderAssumption, PlayerAssumption

-----------------------------------------------------------------------------
(* Places of positions in a ring.                                          *)

LEMMA Division ==
    ASSUME NEW n \in Nat, NEW r \in Nat \ {0}
    PROVE  n \div r \in Nat /\ n % r \in 0 .. r - 1 /\ n = (n \div r) * r + (n % r)
OBVIOUS

LEMMA QuotientUnique ==
    ASSUME NEW r \in Nat \ {0}, NEW a \in Int, NEW b \in Int, NEW x \in 0 .. r - 1,
           NEW y \in 0 .. r - 1, a * r + x = b * r + y
    PROVE  a = b /\ x = y
<1>1. ~(a < b)
  <2> SUFFICES ASSUME a < b PROVE FALSE
    OBVIOUS
  <2>1. (b - a - 1) * r >= 0
    OBVIOUS
  <2>2. b * r - a * r >= r
    BY <2>1
  <2> QED BY <2>2
<1>2. ~(b < a)
  <2> SUFFICES ASSUME b < a PROVE FALSE
    OBVIOUS
  <2>1. (a - b - 1) * r >= 0
    OBVIOUS
  <2>2. a * r - b * r >= r
    BY <2>1
  <2> QED BY <2>2
<1>3. a = b
  BY <1>1, <1>2
<1> QED BY <1>3

(* Up to the ring's end, places follow one another as positions do.        *)
LEMMA PlaceOfNext ==
    ASSUME NEW n \in Nat, NEW r \in Nat \ {0}, NEW k \in Nat, (n % r) + k < r
    PROVE  (n + k) % r = (n % r) + k
<1>1. /\ n \div r \in Int /\ n = (n \div r) * r + (n % r) /\ n % r \in 0 .. r - 1
  BY Division
<1>2. PICK m \in Nat : m = n + k
  OBVIOUS
<1>3. m \div r \in Int /\ m = (m \div r) * r + (m % r) /\ m % r \in 0 .. r - 1
  BY Division
<1>4. (n % r) + k \in 0 .. r - 1
  BY <1>1
<1> DEFINE a == n \div r
           b == m \div r
           x == (n % r) + k
           y == m % r
<1>5. a * r + x = b * r + y
  BY <1>1, <1>2, <1>3
<1>6. a \in Int /\ b \in Int /\ x \in 0 .. r - 1 /\ y \in 0 .. r - 1
  BY <1>1, <1>3, <1>4
<1> HIDE DEF a, b, x, y
<1>7. x = y
  BY <1>5, <1>6, QuotientUnique
<1> QED BY <1>2, <1>7 DEF x, y

(* Positions less than a ring apart have places of their own.              *)
LEMMA PlacesDiffer ==
    ASSUME NEW p \in Nat, NEW q \in Nat, NEW r \in Nat \ {0}, p < q, q < p + r
    PROVE  p % r # q % r
<1> SUFFICES ASSUME p % r = q % r PROVE FALSE
  OBVIOUS
<1>1. /\ p \div r \in Int /\ p = (p \div r) * r + (p % r) /\ p % r \in 0 .. r - 1
  BY Division
<1>2. /\ q \div r \in Int /\ q = (q \div r) * r + (q % r) /\ q % r \in 0 .. r - 1
  BY Division
<1> DEFINE a == p \div r
           b == q \div r
<1>3. a \in Int /\ b \in Int /\ a * r < b * r /\ b * r < a * r + r
  BY <1>1, <1>2
<1> HIDE DEF a, b
<1>4. a < b
  <2> SUFFICES ASSUME a >= b PROVE a * r >= b * r
    BY <1>3
  <2>1. (a - b) * r >= 0
    BY <1>3
  <2> QED BY <1>3, <2>1
<1>5. (b - a - 1) * r >= 0
  BY <1>3, <1>4
<1> QED BY <1>3, <1>5

LEMMA SplitInterval ==
    ASSUME NEW r \in Nat, NEW s \in Nat
    PROVE  \A n \in 0 .. s - 1 : n \in 0 .. r - 1 \/ n \in r .. s - 1
OBVIOUS

-----------------------------------------------------------------------------
(* Conversations that have not overlapped.                                 *)

(* What HeardInOrder is promised under.                                    *)
Orderly == ~overlapped /\ ~overrun

LEMMA OrderlyBefore ==
    ASSUME ControlType, [Next]_vars, Orderly'
    PROVE  Orderly
BY DEF Orderly, ControlType, Next, Record, Play, HandleRecorderSlot, HandlePlayerSlot, StartTalk,
       TakePacket, SendPacket, SendFails, StopTalk, EndTalk, StartListen, Receive, PushPacket,
       StopListen, Close, vars, threads, control

(* A call pushes only in its reading thread's loop, and its stream has     *)
(* carried something only if its writing thread has begun.                 *)
InTurn ==
    /\ \A c \in Calls : pushing[c].rest # <<>> => listen[c] = "loop"
    /\ \A c \in Calls : stream[c] # <<>> => talk[c] # "none"
    /\ \A c \in Calls : pushing[c].rest = <<>> => pushing[c] = NotPushing

(* Something of the call is between the two rings.                         *)
Busy(c) ==
    \/ sending[c].at # "idle" \/ pushing[c].rest # <<>>
    \/ listen[c] # "done" /\ stream[c] # <<>>

LEMMA OneIsBusy ==
    ASSUME TypeInv, ControlInv, InTurn, Orderly,
           NEW c \in Calls, NEW d \in Calls, Busy(c), Busy(d)
    PROVE  c = d
<1>1. ASSUME NEW e \in Calls, Busy(e) PROVE IsUp(e)
  BY <1>1 DEF Busy, InTurn, IsUp, ControlInv, SenderTalks, TypeInv, ControlType, Threads
<1> QED BY <1>1 DEF Orderly, ControlInv, OneAtATime

LEMMA InTurnInit == Init => InTurn
BY DEF Init, PlayInit, InTurn, NotPushing

LEMMA InTurnStep ==
    ASSUME TypeInv, ControlInv, InTurn, [Next]_vars
    PROVE  InTurn'
<1>1. /\ pushing \in [Calls -> PushingType] /\ stream \in [Calls -> Seq(Packets)]
      /\ talk \in [Calls -> Threads] /\ listen \in [Calls -> Threads]
  BY DEF TypeInv, PlayType, ControlType
<1>2. CASE UNCHANGED <<pushing, listen, talk, stream>>
  BY <1>2 DEF InTurn
<1>3. ASSUME NEW c \in Calls, StartTalk(c) PROVE InTurn'
  BY <1>1, <1>3 DEF InTurn, StartTalk, playVars
<1>4. ASSUME NEW c \in Calls, SendPacket(c) PROVE InTurn'
  <2>1. talk[c] = "loop" /\ UNCHANGED <<pushing, listen, talk>>
    BY <1>4 DEF SendPacket, SetAudioBytes, ControlInv, SenderTalks, playVars
  <2>2. \A d \in Calls \ {c} : stream'[d] = stream[d]
    BY <1>1, <1>4 DEF SendPacket
  <2> QED BY <2>1, <2>2 DEF InTurn
<1>5. ASSUME NEW c \in Calls, SendFails(c) \/ StopTalk(c) PROVE InTurn'
  BY <1>1, <1>5 DEF InTurn, SendFails, StopTalk, EndTalk, playVars
<1>6. ASSUME NEW c \in Calls, StartListen(c) PROVE InTurn'
  BY <1>1, <1>6 DEF InTurn, StartListen, playVars
<1>7. ASSUME NEW c \in Calls, Receive(c) PROVE InTurn'
  <2>1. /\ listen[c] = "loop" /\ stream[c] # <<>> /\ UNCHANGED <<talk, listen>>
        /\ pushing' = [pushing EXCEPT ![c].rest = Head(stream[c])]
        /\ stream' = [stream EXCEPT ![c] = Tail(@)]
    BY <1>7 DEF Receive, Push
  <2>2. Head(stream[c]) \in Packets
    BY <1>1, <2>1, HeadTailProperties
  <2>3. Head(stream[c]) # <<>>
    BY <2>2, PacketIsSeq, EmptySeq DEF Packets
  <2>4. /\ pushing'[c].rest # <<>>
        /\ \A d \in Calls \ {c} : pushing'[d] = pushing[d] /\ stream'[d] = stream[d]
    BY <1>1, <2>1, <2>3 DEF PushingType
  <2> QED BY <2>1, <2>4 DEF InTurn
<1>8. ASSUME NEW c \in Calls, StorePart(c), UNCHANGED <<listen, talk, stream>> PROVE InTurn'
  <2>1. pushing[c].rest # <<>> /\ \A d \in Calls \ {c} : pushing'[d] = pushing[d]
    BY <1>1, <1>8 DEF StorePart
  <2>2. pushing'[c].rest = pushing[c].rest
    BY <1>1, <1>8 DEF StorePart, PushingType
  <2> QED BY <1>8, <2>1, <2>2 DEF InTurn
<1>9. ASSUME NEW c \in Calls, AdvanceReady(c), UNCHANGED <<listen, talk, stream>> PROVE InTurn'
  <2>1. pushing[c].part > 0 /\ \A d \in Calls \ {c} : pushing'[d] = pushing[d]
    BY <1>1, <1>9 DEF AdvanceReady
  <2>2. pushing'[c] = [NotPushing EXCEPT !.rest = pushing'[c].rest]
    BY <1>1, <1>9 DEF AdvanceReady, NotPushing
  <2>3. pushing'[c].rest = <<>> => pushing'[c] = NotPushing
    BY <2>2 DEF NotPushing
  <2>4. pushing[c].rest # <<>>
    BY <2>1 DEF InTurn, NotPushing
  <2> QED BY <1>9, <2>1, <2>3, <2>4 DEF InTurn
<1>10. ASSUME NEW c \in Calls, StopListen(c) PROVE InTurn'
  BY <1>1, <1>10 DEF InTurn, StopListen, playVars, NotPushing
<1>11. ASSUME NEW c \in Calls, TakePacket(c) \/ Close(c) PROVE InTurn'
  BY <1>2, <1>11 DEF TakePacket, Close, playVars, threads
<1>12. CASE Record \/ Play \/ HandleRecorderSlot \/ HandlePlayerSlot \/ UNCHANGED vars
  BY <1>2, <1>12 DEF Record, Play, PlaySample, HandleRecorderSlot, HandlePlayerSlot, playVars,
                     threads, vars
<1>13. ASSUME NEW c \in Calls, PushPacket(c) PROVE InTurn'
  BY <1>8, <1>9, <1>13 DEF PushPacket, ReadAudio, threads
<1> QED BY <1>3, <1>4, <1>5, <1>6, <1>7, <1>10, <1>11, <1>12, <1>13 DEF Next

-----------------------------------------------------------------------------
(* The microphone's end: what a packet holds was recorded where its call   *)
(* read it.                                                                *)

(* The positions that hold a sample of the microphone.                     *)
Filled == writePos + (IF stored THEN 1 ELSE 0)

RecordedInRing ==
    /\ Filled <= sendPos + RecBuffSize
    /\ \A p \in sendPos .. Filled - 1 : recBuff[p % RecBuffSize] = p

PacketsRecorded ==
    \A c \in Calls : sending[c].at # "idle" =>
        /\ \A i \in 1 .. sending[c].copied : packet[i] = sending[c].from + i - 1
        /\ sending[c].at = "taken" =>
              sending[c].copied = PacketSize /\ sending[c].from + PacketSize = sendPos

RecorderInv == Orderly => RecordedInRing /\ PacketsRecorded

LEMMA RecorderInit == Init => RecorderInv
BY DEF Init, RecInit, RecorderInv, RecordedInRing, PacketsRecorded, Filled, NotSending

(* What the steps of the recorder's own thread do.                         *)
LEMMA RecordedStore ==
    ASSUME TypeInv, CopiesRecorded, Orderly, RecordedInRing, StoreSample,
           writePos < sendPos + RecBuffSize
    PROVE  RecordedInRing'
<1>1. /\ recBuff \in [0 .. RecBuffSize - 1 -> Int] /\ writePos \in Nat /\ sendPos \in Nat
      /\ Filled = writePos /\ Filled' = writePos + 1 /\ sendPos' = sendPos
      /\ recBuff' = [recBuff EXCEPT ![writePos % RecBuffSize] = writePos]
  BY DEF TypeInv, RecType, StoreSample, Filled
<1>2. ASSUME NEW p \in sendPos .. writePos PROVE recBuff'[p % RecBuffSize] = p
  <2>1. p \in Nat /\ p % RecBuffSize \in 0 .. RecBuffSize - 1
    BY <1>1, <1>2, IndexInRing
  <2>2. CASE p = writePos
    BY <1>1, <2>1, <2>2
  <2>3. CASE p < writePos
    <3>1. writePos < p + RecBuffSize
      BY <1>1, <1>2, <2>1
    <3>2. p % RecBuffSize # writePos % RecBuffSize
      BY <1>1, <2>1, <2>3, <3>1, PlacesDiffer
    <3>3. p \in sendPos .. Filled - 1
      BY <1>1, <1>2, <2>1, <2>3
    <3>4. recBuff[p % RecBuffSize] = p
      BY <3>3 DEF RecordedInRing
    <3> QED BY <1>1, <2>1, <3>2, <3>4
  <2> QED BY <1>1, <1>2, <2>2, <2>3
<1> QED BY <1>1, <1>2 DEF RecordedInRing

LEMMA RecordedCopy ==
    ASSUME TypeInv, RingInv, Orderly, RecordedInRing, PacketsRecorded,
           NEW c \in Calls, CopySample(c),
           \A d \in Calls \ {c} : sending[d].at = "idle"
    PROVE  PacketsRecorded'
<1> DEFINE from == sending[c].from
           copied == sending[c].copied
<1>1. /\ sending \in [Calls -> SendingType] /\ packet \in Packets /\ writePos \in Nat
      /\ from \in Nat /\ copied \in 0 .. PacketSize /\ stored \in BOOLEAN
  BY DEF TypeInv, RecType, SendingType
<1>2. from = sendPos /\ sendPos + PacketSize <= writePos /\ from % PacketSize = 0
  BY DEF RingInv, CopiesRecorded, SendsRecorded, WholePositions, Orderly, CopySample
<1>3. copied < PacketSize /\ sending[c].at = "copying"
  BY DEF CopySample
<1> HIDE DEF from, copied
<1>4. (from % RecBuffSize) + PacketSize <= RecBuffSize /\ from % RecBuffSize \in Nat
  <2>1. (from % RecBuffSize) + PacketSize <= RecBuffSize
    BY <1>1, <1>2, WholePackets, PacketEndsInRing DEF WholePackets
  <2>2. from % RecBuffSize \in 0 .. RecBuffSize - 1
    BY <1>1, IndexInRing
  <2> QED BY <2>1, <2>2
<1>5. RecIndex(c) < RecBuffSize /\ RecIndex(c) = (from + copied) % RecBuffSize
  <2>1. (from % RecBuffSize) + copied < RecBuffSize
    BY <1>1, <1>3, <1>4
  <2>2. copied \in Nat
    BY <1>1
  <2>3. (from + copied) % RecBuffSize = (from % RecBuffSize) + copied
    BY <1>1, <2>1, <2>2, PlaceOfNext
  <2> QED BY <2>1, <2>3 DEF RecIndex, from, copied
<1>6. recBuff[RecIndex(c)] = from + copied
  <2>1. from + copied \in sendPos .. Filled - 1
    BY <1>1, <1>2, <1>3 DEF Filled
  <2> QED BY <1>5, <2>1 DEF RecordedInRing
<1>7. /\ packet' = [packet EXCEPT ![copied + 1] = from + copied]
      /\ sending' = [sending EXCEPT ![c].copied = @ + 1]
  BY <1>5, <1>6 DEF CopySample, copied
<1>8. /\ sending'[c].at = "copying" /\ sending'[c].copied = copied + 1
      /\ sending'[c].from = from
      /\ \A d \in Calls \ {c} : sending'[d] = sending[d]
  BY <1>1, <1>3, <1>7 DEF SendingType, from, copied
<1>9. ASSUME NEW i \in 1 .. copied + 1 PROVE packet'[i] = from + i - 1
  <2>1. i \in 1 .. PacketSize
    BY <1>1, <1>3
  <2>2. i \in 1 .. copied => packet[i] = from + i - 1
    BY <1>3 DEF PacketsRecorded, from, copied
  <2> QED BY <1>1, <1>7, <2>1, <2>2 DEF Packets
<1> QED BY <1>8, <1>9 DEF PacketsRecorded

LEMMA RecorderStep ==
    ASSUME TypeInv, ControlInv, RingInv, InTurn, RecorderInv, [Next]_vars
    PROVE  RecorderInv'
<1> SUFFICES ASSUME Orderly' PROVE RecordedInRing' /\ PacketsRecorded'
  BY DEF RecorderInv
<1>1. Orderly /\ RecordedInRing /\ PacketsRecorded
  BY OrderlyBefore DEF TypeInv, RecorderInv
<1>2. /\ writePos \in Nat /\ sendPos \in Nat /\ stored \in BOOLEAN
      /\ sending \in [Calls -> SendingType] /\ Filled \in Nat
  BY DEF TypeInv, RecType, Filled
<1>3. CASE UNCHANGED recVars
  BY <1>1, <1>3 DEF RecordedInRing, PacketsRecorded, Filled, recVars
<1>4. CASE Record
  <2>1. StoreSample => writePos < sendPos + RecBuffSize
    <3>1. StoreSample => ~(writePos >= sendPos + RecBuffSize)
      BY <1>4, Zenon DEF Record, StoreSample, Orderly
    <3> QED BY <1>2, <3>1
  <2>2. CASE StoreSample
    <3>1. RecordedInRing'
      BY <1>1, <2>1, <2>2, RecordedStore DEF RingInv
    <3> QED BY <1>1, <2>2, <3>1 DEF StoreSample, PacketsRecorded
  <2>3. CASE AdvanceWrite
    BY <1>1, <1>2, <2>3 DEF AdvanceWrite, RecordedInRing, PacketsRecorded, Filled
  <2> QED BY <1>4, <2>2, <2>3 DEF Record
<1>5. ASSUME NEW c \in Calls, TestAvailable(c) \/ ReadSendPos(c)
      PROVE  RecordedInRing' /\ PacketsRecorded'
  BY <1>1, <1>2, <1>5 DEF TestAvailable, ReadSendPos, RecordedInRing, PacketsRecorded, Filled, NotSending
<1>6. ASSUME NEW c \in Calls, CopySample(c) PROVE RecordedInRing' /\ PacketsRecorded'
  <2>1. \A d \in Calls \ {c} : sending[d].at = "idle"
    BY <1>1, <1>6, OneIsBusy DEF CopySample, Busy
  <2>2. PacketsRecorded'
    BY <1>1, <1>6, <2>1, RecordedCopy
  <2> QED BY <1>1, <1>6, <2>2 DEF CopySample, RecordedInRing, Filled
<1>7. ASSUME NEW c \in Calls, AdvanceSend(c) PROVE RecordedInRing' /\ PacketsRecorded'
  <2>1. \A d \in Calls \ {c} : sending[d].at = "idle"
    BY <1>1, <1>7, OneIsBusy DEF AdvanceSend, Busy
  <2>2. sending[c].from = sendPos /\ sendPos' = sendPos + PacketSize
    BY <1>1, <1>7 DEF AdvanceSend, RingInv, CopiesRecorded, SendsRecorded, Orderly
  <2>3. /\ sending'[c].from = sendPos /\ sending'[c].copied = PacketSize
        /\ sending[c].copied = PacketSize /\ sending[c].at # "idle"
        /\ \A d \in Calls \ {c} : sending'[d] = sending[d]
    BY <1>2, <1>7, <2>2 DEF AdvanceSend, SendingType
  <2>4. PacketsRecorded'
    BY <1>1, <1>2, <1>7, <2>1, <2>2, <2>3 DEF AdvanceSend, PacketsRecorded
  <2>5. RecordedInRing'
    BY <1>1, <1>2, <1>7, <2>2 DEF AdvanceSend, RecordedInRing, Filled
  <2> QED BY <2>4, <2>5
<1>8. ASSUME NEW c \in Calls, SetAudioBytes(c) PROVE RecordedInRing' /\ PacketsRecorded'
  BY <1>1, <1>2, <1>8 DEF SetAudioBytes, RecordedInRing, PacketsRecorded, Filled, NotSending
<1>9. UNCHANGED recVars \/ Record \/ \E c \in Calls : WriteAudio(c) \/ SetAudioBytes(c)
  BY DEF Next, Play, HandleRecorderSlot, HandlePlayerSlot, StartTalk, TakePacket, SendPacket,
         SendFails, StopTalk, StartListen, Receive, PushPacket, StopListen, Close, vars
<1> QED BY <1>3, <1>4, <1>5, <1>6, <1>7, <1>8, <1>9 DEF WriteAudio

-----------------------------------------------------------------------------
(* The loudspeaker's end: the samples that have reached the player, by     *)
(* their positions, whether they were played already or wait in the ring.  *)

Sound == [n \in 0 .. readyToRead - 1 |->
             IF n < readPos THEN heard[n + 1] ELSE playBuff[n % PlayBuffSize]]

PlayerInv ==
    Orderly =>
        /\ Len(heard) = readPos /\ readPos <= readyToRead
        /\ readyToRead <= readPos + PlayBuffSize
        /\ \A c \in Calls : pushing[c].part > 0 =>
              /\ pushing[c].at = readyToRead
              /\ pushing[c].part <= Len(pushing[c].rest)
              /\ readyToRead + pushing[c].part <= readPos + PlayBuffSize
              /\ \A i \in 1 .. pushing[c].part :
                    playBuff[(readyToRead + i - 1) % PlayBuffSize] = pushing[c].rest[i]

LEMMA PlayerInit == Init => PlayerInv
<1>1. Len(<<>>) = 0
  OBVIOUS
<1> QED BY <1>1 DEF Init, PlayInit, PlayerInv, NotPushing

(* Playing a sample moves it from the ring to what was heard.              *)
LEMMA PlayedSound ==
    ASSUME TypeInv, PlayerInv, Orderly, PlaySample
    PROVE  PlayerInv' /\ Sound' = Sound
<1>1. /\ readyToRead \in Nat /\ readPos \in Nat /\ heard \in Seq(Int)
      /\ playBuff \in [0 .. PlayBuffSize - 1 -> Int] /\ Len(heard) = readPos
      /\ readPos < readyToRead /\ readyToRead <= readPos + PlayBuffSize
      /\ pushing \in [Calls -> PushingType]
  BY DEF TypeInv, PlayType, PlayerInv, PlaySample
<1>2. playBuff[readPos % PlayBuffSize] \in Int
  BY <1>1, IndexInRing
<1>3. /\ Len(heard') = readPos + 1
      /\ heard'[readPos + 1] = playBuff[readPos % PlayBuffSize]
      /\ \A i \in 1 .. readPos : heard'[i] = heard[i]
  BY <1>1, <1>2, AppendProperties DEF PlaySample
<1>4. UNCHANGED <<playBuff, readyToRead, pushing>> /\ readPos' = readPos + 1
  BY DEF PlaySample
<1>5. PlayerInv'
  <2>1. \A c \in Calls : pushing[c].part \in Nat
    BY <1>1 DEF PushingType
  <2>2. \A c \in Calls : readyToRead + pushing[c].part <= readPos + PlayBuffSize =>
            readyToRead + pushing[c].part <= readPos + 1 + PlayBuffSize
    BY <1>1, <2>1
  <2> QED BY <1>1, <1>3, <1>4, <2>2 DEF PlayerInv
<1>6. Sound' = Sound
  <2>1. ASSUME NEW n \in 0 .. readyToRead - 1
        PROVE  (IF n < readPos + 1 THEN heard'[n + 1] ELSE playBuff[n % PlayBuffSize])
               = IF n < readPos THEN heard[n + 1] ELSE playBuff[n % PlayBuffSize]
    <3>1. CASE n < readPos
      <4>1. n + 1 \in 1 .. readPos
        BY <1>1, <3>1
      <4> QED BY <1>1, <1>3, <3>1, <4>1
    <3>2. CASE n = readPos
      BY <1>1, <1>3, <3>2
    <3>3. CASE n > readPos
      BY <1>1, <3>3
    <3> QED BY <1>1, <3>1, <3>2, <3>3
  <2> QED BY <1>4, <2>1 DEF Sound
<1> QED BY <1>5, <1>6

(* What a part is stored over was played already.                          *)
LEMMA StoredSound ==
    ASSUME TypeInv, PlayerInv, Orderly, Orderly', NEW c \in Calls, PushPacket(c), StorePart(c),
           \A d \in Calls \ {c} : pushing[d] = NotPushing
    PROVE  PlayerInv' /\ Sound' = Sound /\ \A d \in Calls : pushing'[d].rest = pushing[d].rest
<1> DEFINE rest == pushing[c].rest
           start == readyToRead % PlayBuffSize
           size == PartSize(c)
<1>1. /\ readyToRead \in Nat /\ readPos \in Nat /\ playBuff \in [0 .. PlayBuffSize - 1 -> Int]
      /\ pushing \in [Calls -> PushingType] /\ rest \in Seq(Int) /\ rest # <<>>
      /\ readPos <= readyToRead /\ readyToRead <= readPos + PlayBuffSize
      /\ Len(heard) = readPos /\ Len(rest) <= PacketSize
  BY DEF TypeInv, PlayType, PushingType, PlayerInv, StorePart
<1>2. Len(rest) \in Nat \ {0} /\ start \in 0 .. PlayBuffSize - 1
  BY <1>1, EmptySeq, IndexInRing
<1>3. size \in 1 .. Len(rest) /\ start + size <= PlayBuffSize
  BY <1>2 DEF PartSize
<1>4. readyToRead + size <= readPos + PlayBuffSize
  <2>1. ~(readyToRead + size > readPos + PlayBuffSize)
    BY Zenon DEF Orderly, PushPacket, OverwritesUnplayed, StorePart
  <2> QED BY <1>1, <1>3, <2>1
<1>5. /\ playBuff' = [i \in 0 .. PlayBuffSize - 1 |->
                         IF i \in start .. start + size - 1 THEN rest[i - start + 1]
                         ELSE playBuff[i]]
      /\ pushing' = [pushing EXCEPT ![c].at = readyToRead, ![c].part = size]
      /\ UNCHANGED <<readyToRead, readPos, heard>>
  BY <1>1 DEF StorePart
<1> HIDE DEF rest, start, size
<1>6. ASSUME NEW i \in 1 .. size
      PROVE  playBuff'[(readyToRead + i - 1) % PlayBuffSize] = rest[i]
  <2> DEFINE k == i - 1
  <2>1. k \in Nat /\ start + k < PlayBuffSize /\ i = k + 1
    BY <1>2, <1>3
  <2> HIDE DEF k
  <2>2. (readyToRead + k) % PlayBuffSize = start + k
    BY <1>1, <2>1, PlaceOfNext DEF start
  <2>3. start + k \in start .. start + size - 1 /\ start + k \in 0 .. PlayBuffSize - 1
    BY <1>2, <1>3, <2>1
  <2>4. playBuff'[start + k] = rest[i]
    <3>1. (start + k) - start + 1 = i
      BY <1>2, <2>1
    <3> QED BY <1>5, <2>3, <3>1
  <2>5. readyToRead + i - 1 = readyToRead + k
    BY <1>1, <2>1
  <2> QED BY <2>2, <2>4, <2>5
<1>7. ASSUME NEW n \in readPos .. readyToRead - 1
      PROVE  playBuff'[n % PlayBuffSize] = playBuff[n % PlayBuffSize]
  <2>0. n \in Nat
    BY <1>1
  <2>1. n \in Nat /\ n % PlayBuffSize \in 0 .. PlayBuffSize - 1
    BY <2>0, IndexInRing
  <2>2. ASSUME NEW j \in start .. start + size - 1 PROVE n % PlayBuffSize # j
    <3> DEFINE k == j - start
    <3>1. k \in Nat /\ k < size /\ j = start + k /\ start + k < PlayBuffSize
      BY <1>2, <1>3
    <3> HIDE DEF k
    <3>2. (readyToRead + k) % PlayBuffSize = start + k
      BY <1>1, <3>1, PlaceOfNext DEF start
    <3> DEFINE m == readyToRead + k
    <3>3. m \in Nat /\ n < m /\ m < n + PlayBuffSize
      BY <1>1, <1>3, <1>4, <2>1, <3>1
    <3> HIDE DEF m
    <3>4. n % PlayBuffSize # m % PlayBuffSize
      BY <2>1, <3>3, PlacesDiffer
    <3> QED BY <3>1, <3>2, <3>4 DEF m
  <2> QED BY <1>5, <2>1, <2>2
<1>8. /\ pushing'[c].part = size /\ pushing'[c].at = readyToRead /\ pushing'[c].rest = rest
      /\ \A d \in Calls \ {c} : pushing'[d] = pushing[d] /\ pushing[d].part = 0
  BY <1>1, <1>5 DEF PushingType, NotPushing, rest
<1>9. PlayerInv'
  <2>1. /\ pushing'[c].at = readyToRead' /\ pushing'[c].part <= Len(pushing'[c].rest)
        /\ readyToRead' + pushing'[c].part <= readPos' + PlayBuffSize
        /\ \A i \in 1 .. pushing'[c].part :
              playBuff'[(readyToRead' + i - 1) % PlayBuffSize] = pushing'[c].rest[i]
    <3>1. readyToRead' = readyToRead /\ readPos' = readPos
      BY <1>5
    <3>2. size <= Len(rest)
      BY <1>2, <1>3
    <3> QED BY <1>4, <1>6, <1>8, <3>1, <3>2
  <2>2. \A d \in Calls \ {c} : ~(pushing'[d].part > 0)
    BY <1>8
  <2>3. Len(heard') = readPos' /\ readPos' <= readyToRead' /\ readyToRead' <= readPos' + PlayBuffSize
    BY <1>1, <1>5
  <2> QED BY <2>1, <2>2, <2>3 DEF PlayerInv
<1>10. Sound' = Sound
  <2>1. ASSUME NEW n \in 0 .. readyToRead - 1, ~(n < readPos)
        PROVE  playBuff'[n % PlayBuffSize] = playBuff[n % PlayBuffSize]
    <3>1. n \in readPos .. readyToRead - 1
      BY <1>1, <2>1
    <3> QED BY <1>7, <3>1
  <2> QED BY <1>5, <2>1 DEF Sound
<1> QED BY <1>8, <1>9, <1>10 DEF rest

(* Advancing hands the part over to the player.                            *)
LEMMA AdvancedSound ==
    ASSUME TypeInv, PlayerInv, Orderly, NEW c \in Calls, AdvanceReady(c),
           \A d \in Calls \ {c} : pushing[d] = NotPushing
    PROVE  LET part == pushing[c].part
           IN  /\ PlayerInv'
               /\ part \in 1 .. Len(pushing[c].rest)
               /\ readyToRead' = readyToRead + part
               /\ pushing'[c].rest = SubSeq(pushing[c].rest, part + 1, Len(pushing[c].rest))
               /\ \A d \in Calls \ {c} : pushing'[d].rest = pushing[d].rest
               /\ \A n \in 0 .. readyToRead - 1 : Sound'[n] = Sound[n]
               /\ \A i \in 1 .. part : Sound'[readyToRead + i - 1] = pushing[c].rest[i]
<1> DEFINE rest == pushing[c].rest
           part == pushing[c].part
<1>1. /\ readyToRead \in Nat /\ readPos \in Nat
      /\ pushing \in [Calls -> PushingType] /\ rest \in Seq(Int)
      /\ readPos <= readyToRead /\ readyToRead <= readPos + PlayBuffSize
      /\ Len(heard) = readPos
      /\ pushing[c].at = readyToRead /\ part <= Len(rest) /\ part \in Nat /\ part > 0
      /\ readyToRead + part <= readPos + PlayBuffSize
      /\ \A i \in 1 .. part : playBuff[(readyToRead + i - 1) % PlayBuffSize] = rest[i]
  BY DEF TypeInv, PlayType, PushingType, PlayerInv, AdvanceReady
<1>2. /\ readyToRead' = readyToRead + part
      /\ UNCHANGED <<playBuff, readPos, heard>>
      /\ pushing'[c].rest = SubSeq(rest, part + 1, Len(rest)) /\ pushing'[c].part = 0
      /\ \A d \in Calls \ {c} : pushing'[d] = pushing[d] /\ pushing[d].part = 0
  <2>1. readyToRead' = readyToRead + part
    BY <1>1 DEF AdvanceReady
  <2>2. pushing' = [pushing EXCEPT ![c] =
                       [NotPushing EXCEPT !.rest = SubSeq(rest, part + 1, Len(rest))]]
    BY DEF AdvanceReady
  <2>3. pushing'[c] = [NotPushing EXCEPT !.rest = SubSeq(rest, part + 1, Len(rest))]
    BY <1>1, <2>2
  <2>4. \A s : [NotPushing EXCEPT !.rest = s].rest = s /\ [NotPushing EXCEPT !.rest = s].part = 0
    BY DEF NotPushing
  <2>5. \A d \in Calls \ {c} : pushing'[d] = pushing[d] /\ pushing[d].part = 0
    BY <1>1, <2>2 DEF NotPushing
  <2>6. UNCHANGED <<playBuff, readPos, heard>>
    BY DEF AdvanceReady
  <2> QED BY <2>1, <2>3, <2>4, <2>5, <2>6
<1> HIDE DEF rest, part
<1>3. part \in 1 .. Len(rest)
  BY <1>1
<1>4. PlayerInv'
  BY <1>1, <1>2 DEF PlayerInv
<1>5. ASSUME NEW n \in 0 .. readyToRead - 1 PROVE Sound'[n] = Sound[n]
  <2>1. n \in 0 .. readyToRead' - 1
    BY <1>1, <1>2
  <2> QED BY <1>2, <2>1 DEF Sound
<1>6. ASSUME NEW i \in 1 .. part PROVE Sound'[readyToRead + i - 1] = rest[i]
  <2>1. /\ readyToRead + i - 1 \in 0 .. readyToRead' - 1
        /\ ~(readyToRead + i - 1 < readPos)
    BY <1>1, <1>2
  <2> QED BY <1>1, <1>2, <2>1 DEF Sound
<1> QED BY <1>2, <1>3, <1>4, <1>5, <1>6 DEF rest, part

LEMMA PlayerUnchanged ==
    ASSUME UNCHANGED playVars
    PROVE  /\ Sound' = Sound
           /\ PlayerInv /\ (Orderly' => Orderly) => PlayerInv'
BY DEF playVars, Sound, PlayerInv, Orderly

LEMMA PlayerStep ==
    ASSUME TypeInv, ControlInv, InTurn, PlayerInv, [Next]_vars
    PROVE  PlayerInv'
<1> SUFFICES ASSUME Orderly' PROVE PlayerInv'
  BY DEF PlayerInv
<1>1. Orderly /\ pushing \in [Calls -> PushingType]
  BY OrderlyBefore DEF TypeInv, PlayType
<1>2. CASE UNCHANGED playVars
  BY <1>1, <1>2, PlayerUnchanged
<1>3. CASE Play
  BY <1>1, <1>3, PlayedSound DEF Play
<1>4. ASSUME NEW c \in Calls, PushPacket(c) PROVE PlayerInv'
  <2>1. pushing[c].rest # <<>>
    BY <1>4 DEF PushPacket, ReadAudio, StorePart, AdvanceReady, InTurn, NotPushing
  <2>2. \A d \in Calls \ {c} : pushing[d] = NotPushing
    BY <1>1, <2>1, OneIsBusy DEF Busy, InTurn
  <2> QED BY <1>1, <1>4, <2>2, StoredSound, AdvancedSound DEF PushPacket, ReadAudio
<1>5. ASSUME NEW c \in Calls, Receive(c) PROVE PlayerInv'
  <2>1. /\ pushing[c] = NotPushing /\ pushing' = [pushing EXCEPT ![c].rest = Head(stream[c])]
        /\ UNCHANGED <<playBuff, readyToRead, readPos, heard>>
    BY <1>5 DEF Receive, Push
  <2>2. pushing'[c].part = 0 /\ \A d \in Calls \ {c} : pushing'[d] = pushing[d]
    BY <1>1, <2>1 DEF NotPushing
  <2> QED BY <1>1, <2>1, <2>2 DEF PlayerInv
<1>6. UNCHANGED playVars \/ Play \/ \E c \in Calls : PushPacket(c) \/ Receive(c)
  BY DEF Next, Record, HandleRecorderSlot, HandlePlayerSlot, StartTalk, TakePacket, SendPacket,
         SendFails, StopTalk, EndTalk, StartListen, StopListen, Close, vars
<1> QED BY <1>2, <1>3, <1>4, <1>5, <1>6

-----------------------------------------------------------------------------
(* Between the two ends: everything is in order, from the sounds that have *)
(* reached the player to the position the next packet is sent from.        *)

(* Where the next packet of a call that is handed to its stream begins.    *)
NextSent == [c \in Calls |-> IF sending[c].at = "taken" THEN sending[c].from ELSE sendPos]

(* Everything that has reached the player was recorded before x.           *)
Behind(x) == x \in Nat /\ \A n \in 0 .. readyToRead - 1 : Sound[n] < x

InARow(s) == \A i \in DOMAIN s : s[i] = s[1] + i - 1

SoundInOrder ==
    /\ \A n \in 0 .. readyToRead - 1 : Sound[n] \in Nat
    /\ \A m, n \in 0 .. readyToRead - 1 : m < n => Sound[m] < Sound[n]
    /\ Behind(sendPos)
    /\ \A c \in Calls : Behind(NextSent[c])

RestInOrder(c) ==
    LET rest == pushing[c].rest
    IN  rest # <<>> =>
            InARow(rest) /\ Behind(rest[1]) /\ rest[1] + Len(rest) <= NextSent[c]

(* What a call has in its stream after its conversation is never received. *)
StreamInOrder(c) ==
    LET rest == pushing[c].rest
        sent == stream[c]
    IN  listen[c] # "done" => \A j \in DOMAIN sent :
            /\ InARow(sent[j]) /\ Behind(sent[j][1])
            /\ rest # <<>> => rest[1] + Len(rest) <= sent[j][1]
            /\ \A k \in DOMAIN sent : j < k => sent[j][1] + PacketSize <= sent[k][1]
            /\ sent[j][1] + PacketSize <= NextSent[c]

OrderInv ==
    Orderly => SoundInOrder /\ \A c \in Calls : RestInOrder(c) /\ StreamInOrder(c)

(* In the first conversation nothing is missing either.                    *)
Alone(c) == \A d \in Calls \ {c} : talk[d] = "none" /\ listen[d] = "none"

NextPushed(c) == readyToRead + Len(pushing[c].rest)

Complete(c) ==
    LET rest == pushing[c].rest
        sent == stream[c]
    IN  /\ \A n \in 0 .. readyToRead - 1 : Sound[n] = n
        /\ rest # <<>> => rest[1] = readyToRead
        /\ listen[c] # "done" =>
              /\ sent # <<>> => sent[1][1] = NextPushed(c)
              /\ \A j \in 1 .. Len(sent) - 1 : sent[j + 1][1] = sent[j][1] + PacketSize
              /\ talk[c] # "done" =>
                    NextSent[c] = IF sent = <<>> THEN NextPushed(c)
                                  ELSE sent[Len(sent)][1] + PacketSize

CompleteInv == Orderly => \A c \in Calls : Alone(c) => Complete(c)

(* A step that hands nothing on from one stage to the next: only the       *)
(* positions that packets are sent from may advance.                       *)
NothingHandedOn ==
    /\ UNCHANGED <<Sound, readyToRead, stream>>
    /\ sendPos' >= sendPos
    /\ \A c \in Calls :
          /\ pushing'[c].rest = pushing[c].rest
          /\ NextSent'[c] >= NextSent[c]
          /\ listen'[c] # "done" => listen[c] # "done"
          /\ Alone(c)' => Alone(c)
          /\ Alone(c) /\ talk'[c] # "done" => talk[c] # "done" /\ NextSent'[c] = NextSent[c]

LEMMA OrderInit == Init => OrderInv /\ CompleteInv
<1> SUFFICES ASSUME Init PROVE OrderInv /\ CompleteInv
  OBVIOUS
<1>1. /\ readyToRead = 0 /\ sendPos = 0 /\ \A c \in Calls : NextSent[c] = 0
      /\ \A c \in Calls : pushing[c].rest = <<>> /\ stream[c] = <<>>
  BY DEF Init, RecInit, PlayInit, NextSent, NotSending, NotPushing
<1>2. 0 .. readyToRead - 1 = {} /\ DOMAIN <<>> = {} /\ Len(<<>>) = 0 /\ 1 .. 0 - 1 = {}
  BY <1>1
<1>3. SoundInOrder
  BY <1>1, <1>2 DEF SoundInOrder, Behind
<1>4. \A c \in Calls : RestInOrder(c) /\ StreamInOrder(c)
  BY <1>1, <1>2 DEF RestInOrder, StreamInOrder
<1>5. ASSUME NEW c \in Calls PROVE Complete(c)
  <2>1. pushing[c].rest = <<>> /\ stream[c] = <<>> /\ NextSent[c] = 0 /\ NextPushed(c) = 0
    BY <1>1, <1>2 DEF NextPushed
  <2> QED BY <1>2, <2>1, Zenon DEF Complete
<1> QED BY <1>3, <1>4, <1>5 DEF OrderInv, CompleteInv

(* Every step but three kinds hands nothing on.                            *)
LEMMA StepOfOrder ==
    ASSUME TypeInv, ControlInv, RingInv, InTurn, PlayerInv, PacketsRecorded, Orderly, Orderly',
           [Next]_vars
    PROVE  \/ NothingHandedOn
           \/ \E c \in Calls : SendPacket(c) \/ Receive(c) \/ (PushPacket(c) /\ AdvanceReady(c))
<1>1. /\ sendPos \in Nat /\ readyToRead \in Nat
      /\ sending \in [Calls -> SendingType] /\ pushing \in [Calls -> PushingType]
      /\ talk \in [Calls -> Threads] /\ listen \in [Calls -> Threads]
  BY DEF TypeInv, RecType, PlayType, ControlType
<1>2. \A c \in Calls : NextSent[c] \in Nat
  BY <1>1 DEF NextSent, SendingType
<1>3. UNCHANGED <<sendPos, sending>> => NextSent' = NextSent
  BY DEF NextSent
<1>4. ASSUME UNCHANGED <<sendPos, sending, Sound, readyToRead, stream, talk, listen>>,
             \A c \in Calls : pushing'[c].rest = pushing[c].rest
      PROVE  NothingHandedOn
  BY <1>1, <1>2, <1>3, <1>4 DEF NothingHandedOn, Alone
<1>5. CASE Record \/ HandleRecorderSlot \/ HandlePlayerSlot \/ UNCHANGED vars
  <2>1. UNCHANGED <<sendPos, sending, stream, talk, listen, playVars>>
    BY <1>5 DEF Record, StoreSample, AdvanceWrite, HandleRecorderSlot, HandlePlayerSlot, vars,
                recVars, threads
  <2> QED BY <1>4, <2>1, PlayerUnchanged DEF playVars
<1>6. CASE Play
  <2>1. Sound' = Sound
    BY <1>6, PlayedSound DEF Play
  <2> QED BY <1>4, <1>6, <2>1 DEF Play, PlaySample, recVars, threads
<1>7. ASSUME NEW c \in Calls, PushPacket(c), StorePart(c) PROVE NothingHandedOn
  <2>1. \A d \in Calls \ {c} : pushing[d] = NotPushing
    BY <1>7, OneIsBusy DEF Busy, InTurn, StorePart
  <2>2. Sound' = Sound /\ \A d \in Calls : pushing'[d].rest = pushing[d].rest
    BY <1>7, <2>1, StoredSound
  <2> QED BY <1>4, <1>7, <2>2 DEF PushPacket, StorePart, recVars, threads
<1>8. ASSUME NEW c \in Calls, StartTalk(c) \/ StartListen(c) \/ StopTalk(c) \/ StopListen(c)
      PROVE  NothingHandedOn
  <2>1. UNCHANGED <<sendPos, sending, stream, playVars>>
    BY <1>8 DEF StartTalk, StartListen, StopTalk, EndTalk, StopListen, recVars
  <2>2. /\ \A d \in Calls : listen'[d] # "done" => listen[d] # "done"
        /\ \A d \in Calls : talk'[d] # "done" => talk[d] # "done"
        /\ \A d \in Calls : talk'[d] = "none" => talk[d] = "none"
        /\ \A d \in Calls : listen'[d] = "none" => listen[d] = "none"
    BY <1>1, <1>8 DEF StartTalk, StartListen, StopTalk, EndTalk, StopListen
  <2>3. \A d \in Calls : Alone(d)' => Alone(d)
    BY <2>2 DEF Alone
  <2> QED BY <1>1, <1>2, <1>3, <2>1, <2>2, <2>3, PlayerUnchanged DEF NothingHandedOn, playVars
<1>9. ASSUME NEW c \in Calls, Close(c) PROVE NothingHandedOn
  BY <1>4, <1>9, PlayerUnchanged DEF Close, recVars, playVars
<1>10. ASSUME NEW c \in Calls, TakePacket(c) PROVE NothingHandedOn
  <2>1. talk[c] = "loop" /\ WriteAudio(c) /\ UNCHANGED <<talk, listen, stream, playVars>>
    BY <1>10 DEF TakePacket, threads
  <2>2. sendPos' >= sendPos /\ \A d \in Calls : NextSent'[d] >= NextSent[d]
    <3>1. CASE TestAvailable(c) \/ ReadSendPos(c)
      BY <1>1, <1>2, <3>1 DEF TestAvailable, ReadSendPos, NextSent, SendingType, NotSending
    <3>2. CASE CopySample(c)
      <4>1. /\ sendPos' = sendPos
            /\ \A d \in Calls : sending'[d].at = sending[d].at /\ sending'[d].from = sending[d].from
        BY <1>1, <3>2 DEF CopySample, SendingType
      <4> QED BY <1>1, <1>2, <4>1 DEF NextSent
    <3>3. CASE AdvanceSend(c)
      <4>1. /\ sending[c].at = "copying" /\ sending[c].from = sendPos
            /\ sendPos' = sendPos + PacketSize
        BY <3>3 DEF AdvanceSend, RingInv, CopiesRecorded, SendsRecorded, Orderly
      <4>2. /\ sending'[c].from = sendPos /\ sending'[c].at = "taken"
            /\ \A d \in Calls \ {c} : sending'[d] = sending[d]
        BY <1>1, <3>3, <4>1 DEF AdvanceSend, SendingType
      <4> QED BY <1>1, <1>2, <4>1, <4>2 DEF NextSent
    <3> QED BY <2>1, <3>1, <3>2, <3>3 DEF WriteAudio
  <2>3. \A d \in Calls : Alone(d) => d = c
    BY <2>1 DEF Alone
  <2>4. NextSent'[c] = NextSent[c]
    <3>1. CASE TestAvailable(c) \/ ReadSendPos(c)
      BY <1>1, <3>1 DEF TestAvailable, ReadSendPos, NextSent, SendingType, NotSending
    <3>2. CASE CopySample(c)
      BY <1>1, <3>2 DEF CopySample, NextSent, SendingType
    <3>3. CASE AdvanceSend(c)
      BY <1>1, <3>3 DEF AdvanceSend, NextSent, SendingType, RingInv, CopiesRecorded, SendsRecorded, Orderly
    <3> QED BY <2>1, <3>1, <3>2, <3>3 DEF WriteAudio
  <2>5. \A d \in Calls : Alone(d)' => Alone(d)
    BY <2>1 DEF Alone
  <2>6. UNCHANGED <<Sound, readyToRead>> /\ \A d \in Calls : pushing'[d].rest = pushing[d].rest
    BY <2>1, PlayerUnchanged DEF playVars
  <2> QED BY <2>1, <2>2, <2>3, <2>4, <2>5, <2>6 DEF NothingHandedOn
<1>11. ASSUME NEW c \in Calls, SendFails(c) PROVE NothingHandedOn
  <2>1. /\ sending[c].at = "taken" /\ sending' = [sending EXCEPT ![c] = NotSending]
        /\ talk' = [talk EXCEPT ![c] = "done"]
        /\ UNCHANGED <<sendPos, listen, stream, playVars>>
    BY <1>11 DEF SendFails, SetAudioBytes, EndTalk
  <2>2. sending[c].from <= sendPos
    <3>1. sending[c].from + PacketSize = sendPos /\ sending[c].from \in Nat
      BY <1>1, <2>1 DEF PacketsRecorded, SendingType
    <3> QED BY <3>1
  <2>3. \A d \in Calls : NextSent'[d] >= NextSent[d]
    BY <1>1, <1>2, <2>1, <2>2 DEF NextSent, NotSending
  <2>4. talk[c] = "loop" /\ talk'[c] = "done"
    BY <1>1, <2>1 DEF ControlInv, SenderTalks
  <2>5. \A d \in Calls : Alone(d) => d = c
    BY <2>4 DEF Alone
  <2>6. \A d \in Calls : Alone(d)' => Alone(d)
    BY <1>1, <2>1 DEF Alone
  <2>7. UNCHANGED <<Sound, readyToRead>> /\ \A d \in Calls : pushing'[d].rest = pushing[d].rest
    BY <2>1, PlayerUnchanged DEF playVars
  <2> QED BY <1>1, <2>1, <2>3, <2>4, <2>5, <2>6, <2>7 DEF NothingHandedOn
<1>12. ASSUME NEW c \in Calls, PushPacket(c) PROVE NothingHandedOn \/ AdvanceReady(c)
  BY <1>7, <1>12 DEF PushPacket, ReadAudio
<1>13. CASE \E c \in Calls :
                \/ StartTalk(c) \/ TakePacket(c) \/ SendPacket(c) \/ SendFails(c) \/ StopTalk(c)
                \/ StartListen(c) \/ Receive(c) \/ PushPacket(c) \/ StopListen(c)
                \/ Close(c)
  <2>1. PICK c \in Calls :
           \/ StartTalk(c) \/ TakePacket(c) \/ SendPacket(c) \/ SendFails(c) \/ StopTalk(c)
           \/ StartListen(c) \/ Receive(c) \/ PushPacket(c) \/ StopListen(c)
           \/ Close(c)
    BY <1>13
  <2>2. CASE SendPacket(c) \/ Receive(c)
    BY <2>2, Zenon
  <2>3. CASE PushPacket(c)
    BY <1>12, <2>3
  <2> QED BY <1>8, <1>9, <1>10, <1>11, <2>1, <2>2, <2>3
<1> QED BY <1>5, <1>6, <1>13 DEF Next

LEMMA NextSentType ==
    ASSUME TypeInv
    PROVE  \A c \in Calls : NextSent[c] \in Nat
BY DEF TypeInv, RecType, SendingType, NextSent

(* The order survives every step that hands nothing on, and so does the    *)
(* completeness of the first conversation.                                 *)
LEMMA OrderKept ==
    ASSUME TypeInv, TypeInv', NothingHandedOn, SoundInOrder,
           \A c \in Calls : RestInOrder(c) /\ StreamInOrder(c)
    PROVE  SoundInOrder' /\ \A c \in Calls : RestInOrder(c)' /\ StreamInOrder(c)'
<1>1. /\ UNCHANGED <<Sound, readyToRead, stream>>
      /\ readyToRead \in Nat
      /\ sendPos' \in Nat /\ sendPos' >= sendPos
  BY DEF NothingHandedOn, TypeInv, RecType, PlayType
<1>2. ASSUME NEW c \in Calls
      PROVE  /\ pushing'[c].rest = pushing[c].rest
             /\ NextSent'[c] >= NextSent[c] /\ NextSent[c] \in Nat /\ NextSent'[c] \in Nat
             /\ listen'[c] # "done" => listen[c] # "done"
  <2>1. NextSent'[c] \in Nat
    BY DEF TypeInv, RecType, SendingType, NextSent
  <2> QED BY <2>1, NextSentType DEF NothingHandedOn
<1>3. ASSUME NEW x \in Nat, NEW y \in Nat, x <= y, Behind(x) PROVE Behind(y)'
  BY <1>1, <1>3 DEF Behind, SoundInOrder
<1>4. SoundInOrder'
  <2>1. Behind(sendPos)' /\ \A c \in Calls : Behind(NextSent[c])'
    BY <1>1, <1>2, <1>3 DEF SoundInOrder, Behind
  <2> QED BY <1>1, <2>1 DEF SoundInOrder
<1>5. ASSUME NEW c \in Calls PROVE RestInOrder(c)'
  <2> DEFINE rest == pushing[c].rest
  <2>1. CASE rest # <<>>
    <3>1. InARow(rest) /\ Behind(rest[1]) /\ rest[1] + Len(rest) <= NextSent[c]
      BY <2>1 DEF RestInOrder
    <3>2. rest \in Seq(Int) /\ rest[1] \in Nat /\ Len(rest) \in Nat
      BY <3>1 DEF TypeInv, PlayType, PushingType, Behind
    <3>3. rest' = rest
      BY <1>2
    <3> HIDE DEF rest
    <3>4. Behind(rest[1])' /\ InARow(rest)'
      BY <1>1, <3>1, <3>3 DEF Behind, InARow
    <3>5. rest[1] + Len(rest) <= NextSent'[c]
      BY <1>2, <3>1, <3>2
    <3> QED BY <3>3, <3>4, <3>5 DEF RestInOrder, rest
  <2>2. CASE rest = <<>>
    BY <1>2, <2>2 DEF RestInOrder
  <2> QED BY <2>1, <2>2
<1>6. ASSUME NEW c \in Calls PROVE StreamInOrder(c)'
  <2> SUFFICES ASSUME listen'[c] # "done", NEW j \in DOMAIN stream[c]
               PROVE  /\ InARow(stream[c][j]) /\ Behind(stream[c][j][1])'
                      /\ pushing'[c].rest # <<>> =>
                            pushing'[c].rest[1] + Len(pushing'[c].rest) <= stream[c][j][1]
                      /\ \A k \in DOMAIN stream[c] :
                            j < k => stream[c][j][1] + PacketSize <= stream[c][k][1]
                      /\ stream[c][j][1] + PacketSize <= NextSent'[c]
    BY <1>1 DEF StreamInOrder, InARow
  <2>1. /\ InARow(stream[c][j]) /\ Behind(stream[c][j][1])
        /\ pushing[c].rest # <<>> =>
              pushing[c].rest[1] + Len(pushing[c].rest) <= stream[c][j][1]
        /\ \A k \in DOMAIN stream[c] :
              j < k => stream[c][j][1] + PacketSize <= stream[c][k][1]
        /\ stream[c][j][1] + PacketSize <= NextSent[c]
    BY <1>2 DEF StreamInOrder
  <2>2. stream[c][j][1] \in Nat
    BY <2>1 DEF Behind
  <2>3. stream[c][j][1] + PacketSize <= NextSent'[c]
    BY <1>2, <2>1, <2>2
  <2>4. Behind(stream[c][j][1])'
    BY <1>1, <2>1 DEF Behind
  <2> QED BY <1>2, <2>1, <2>3, <2>4
<1> QED BY <1>4, <1>5, <1>6

LEMMA CompleteKept ==
    ASSUME TypeInv, NothingHandedOn, NEW c \in Calls, Alone(c), Complete(c)
    PROVE  Complete(c)'
<1>1. /\ UNCHANGED <<Sound, readyToRead, stream>> /\ pushing'[c].rest = pushing[c].rest
      /\ listen'[c] # "done" => listen[c] # "done"
      /\ talk'[c] # "done" => talk[c] # "done" /\ NextSent'[c] = NextSent[c]
  BY DEF NothingHandedOn
<1>2. NextPushed(c)' = NextPushed(c)
  BY <1>1 DEF NextPushed
<1> QED BY <1>1, <1>2 DEF Complete

(* A packet enters its call's stream behind all that went before it.       *)
LEMMA SentFacts ==
    ASSUME TypeInv, PacketsRecorded, NEW c \in Calls, SendPacket(c)
    PROVE  /\ UNCHANGED <<Sound, readyToRead, pushing, listen, talk, sendPos>>
           /\ NextSent[c] \in Nat /\ NextSent[c] + PacketSize = sendPos
           /\ NextSent'[c] = sendPos
           /\ \A d \in Calls \ {c} : NextSent'[d] = NextSent[d] /\ stream'[d] = stream[d]
           /\ InARow(packet) /\ packet[1] = NextSent[c]
           /\ stream'[c] \in Seq(Packets) /\ Len(stream'[c]) = Len(stream[c]) + 1
           /\ \A j \in 1 .. Len(stream[c]) : stream'[c][j] = stream[c][j]
           /\ stream'[c][Len(stream[c]) + 1] = packet
<1>1. /\ sending \in [Calls -> SendingType] /\ stream \in [Calls -> Seq(Packets)]
      /\ packet \in Packets
  BY DEF TypeInv, RecType, ControlType
<1>2. /\ sending[c].at = "taken" /\ sending' = [sending EXCEPT ![c] = NotSending]
      /\ stream' = [stream EXCEPT ![c] = Append(@, packet)]
      /\ UNCHANGED <<playVars, listen, talk, sendPos>>
  BY DEF SendPacket, SetAudioBytes
<1>3. /\ sending[c].from \in Nat /\ sending[c].from + PacketSize = sendPos
      /\ \A i \in 1 .. PacketSize : packet[i] = sending[c].from + i - 1
  BY <1>1, <1>2 DEF PacketsRecorded, SendingType
<1>4. /\ NextSent[c] = sending[c].from /\ NextSent'[c] = sendPos
      /\ \A d \in Calls \ {c} : NextSent'[d] = NextSent[d]
  BY <1>1, <1>2 DEF NextSent, NotSending
<1>5. packet[1] = sending[c].from /\ InARow(packet)
  <2>1. DOMAIN packet = 1 .. PacketSize /\ 1 \in 1 .. PacketSize
    BY <1>1 DEF Packets
  <2>2. packet[1] = sending[c].from
    BY <1>3, <2>1
  <2> QED BY <1>3, <2>1, <2>2 DEF InARow
<1>6. /\ Append(stream[c], packet) \in Seq(Packets)
      /\ Len(Append(stream[c], packet)) = Len(stream[c]) + 1
      /\ \A j \in 1 .. Len(stream[c]) : Append(stream[c], packet)[j] = stream[c][j]
      /\ Append(stream[c], packet)[Len(stream[c]) + 1] = packet
  BY <1>1, AppendProperties
<1>7. /\ stream'[c] = Append(stream[c], packet)
      /\ \A d \in Calls \ {c} : stream'[d] = stream[d]
  BY <1>1, <1>2
<1>8. UNCHANGED <<Sound, readyToRead, pushing>>
  BY <1>2, PlayerUnchanged DEF playVars
<1> QED BY <1>2, <1>3, <1>4, <1>5, <1>6, <1>7, <1>8

LEMMA OrderSent ==
    ASSUME TypeInv, PacketsRecorded, NEW c \in Calls, SendPacket(c), SoundInOrder,
           \A d \in Calls : RestInOrder(d) /\ StreamInOrder(d)
    PROVE  SoundInOrder' /\ \A d \in Calls : RestInOrder(d)' /\ StreamInOrder(d)'
<1>1. /\ UNCHANGED <<Sound, readyToRead, pushing, listen, sendPos>>
      /\ NextSent[c] \in Nat /\ NextSent[c] + PacketSize = sendPos /\ NextSent'[c] = sendPos
      /\ \A d \in Calls \ {c} : NextSent'[d] = NextSent[d] /\ stream'[d] = stream[d]
  BY SentFacts
<1>2. \A x : Behind(x)' <=> Behind(x)
  BY <1>1 DEF Behind
<1>3. SoundInOrder'
  <2>1. Behind(sendPos)' /\ \A d \in Calls : Behind(NextSent[d])'
    BY <1>1 DEF SoundInOrder, Behind
  <2> QED BY <1>1, <2>1 DEF SoundInOrder
<1>4. ASSUME NEW d \in Calls PROVE RestInOrder(d)'
  <2>1. CASE pushing[d].rest # <<>>
    <3>1. /\ InARow(pushing[d].rest) /\ Behind(pushing[d].rest[1])
          /\ pushing[d].rest[1] + Len(pushing[d].rest) <= NextSent[d]
      BY <2>1 DEF RestInOrder
    <3>2. pushing[d].rest[1] \in Nat /\ Len(pushing[d].rest) \in Nat
      BY <3>1 DEF Behind, TypeInv, PlayType, PushingType
    <3>3. pushing[d].rest[1] + Len(pushing[d].rest) <= NextSent'[d]
      BY <1>1, <3>1, <3>2
    <3>4. Behind(pushing[d].rest[1])' /\ InARow(pushing[d].rest)'
      BY <1>1, <3>1 DEF Behind, InARow
    <3> QED BY <1>1, <3>3, <3>4 DEF RestInOrder
  <2>2. CASE pushing[d].rest = <<>>
    BY <1>1, <2>2 DEF RestInOrder
  <2> QED BY <2>1, <2>2
<1>5. ASSUME NEW d \in Calls \ {c} PROVE StreamInOrder(d)'
  BY <1>1, <1>5 DEF StreamInOrder, Behind, InARow
<1>6. StreamInOrder(c)'
  <2> DEFINE sent == stream[c]
             rest == pushing[c].rest
             last == Len(stream[c]) + 1
  <2>1. /\ Len(sent) \in Nat /\ DOMAIN sent = 1 .. Len(sent)
        /\ DOMAIN sent' = 1 .. last /\ \A j \in 1 .. Len(sent) : sent'[j] = sent[j]
        /\ sent'[last] = packet /\ InARow(packet) /\ packet[1] = NextSent[c]
    BY SentFacts DEF TypeInv, ControlType
  <2>2. ASSUME listen[c] # "done", NEW j \in 1 .. Len(sent)
        PROVE  /\ InARow(sent[j]) /\ Behind(sent[j][1])
               /\ rest # <<>> => rest[1] + Len(rest) <= sent[j][1]
               /\ \A k \in 1 .. Len(sent) : j < k => sent[j][1] + PacketSize <= sent[k][1]
               /\ sent[j][1] + PacketSize <= NextSent[c]
    BY <2>1, <2>2 DEF StreamInOrder
  <2>3. rest # <<>> => rest[1] + Len(rest) <= NextSent[c]
    BY DEF RestInOrder
  <2>4. Behind(NextSent[c])
    BY DEF SoundInOrder
  <2> HIDE DEF sent, rest, last
  <2>5. ASSUME listen[c] # "done", NEW j \in 1 .. last
        PROVE  /\ InARow(sent'[j]) /\ Behind(sent'[j][1])
               /\ rest # <<>> => rest[1] + Len(rest) <= sent'[j][1]
               /\ \A k \in 1 .. last : j < k => sent'[j][1] + PacketSize <= sent'[k][1]
               /\ sent'[j][1] + PacketSize <= sendPos
    <3>0. last = Len(sent) + 1
      BY DEF last, sent
    <3>1. CASE j = last
      BY <1>1, <2>1, <2>3, <2>4, <3>0, <3>1
    <3>2. CASE j \in 1 .. Len(sent)
      <4>1. sent'[j] = sent[j] /\ sent[j][1] \in Nat
        BY <2>1, <2>2, <2>5, <3>2 DEF Behind
      <4>2. sent[j][1] + PacketSize <= sendPos
        BY <1>1, <2>2, <2>5, <3>2, <4>1
      <4>3. ASSUME NEW k \in 1 .. last, j < k PROVE sent'[j][1] + PacketSize <= sent'[k][1]
        BY <2>1, <2>2, <2>5, <3>0, <3>2, <4>1, <4>3
      <4> QED BY <2>2, <2>5, <3>2, <4>1, <4>2, <4>3
    <3> QED BY <2>1, <3>0, <3>1, <3>2
  <2>6. /\ listen' = listen /\ rest' = rest /\ NextSent'[c] = sendPos
        /\ \A s : InARow(s)' <=> InARow(s)
    BY <1>1 DEF rest, InARow
  <2> QED BY <1>2, <2>1, <2>5, <2>6 DEF StreamInOrder, sent, rest
<1> QED BY <1>3, <1>4, <1>5, <1>6

(* The first packet of a stream becomes what its call has to push.         *)
LEMMA ReceivedFacts ==
    ASSUME TypeInv, NEW c \in Calls, Receive(c)
    PROVE  /\ UNCHANGED <<Sound, readyToRead, listen, talk, sendPos, NextSent>>
           /\ listen[c] = "loop" /\ pushing[c].rest = <<>> /\ Len(stream[c]) \in Nat \ {0}
           /\ pushing'[c].rest = stream[c][1] /\ stream[c][1] \in Packets
           /\ pushing'[c].rest # <<>> /\ Len(pushing'[c].rest) = PacketSize
           /\ \A d \in Calls \ {c} :
                 pushing'[d].rest = pushing[d].rest /\ stream'[d] = stream[d]
           /\ stream'[c] \in Seq(Packets) /\ Len(stream'[c]) = Len(stream[c]) - 1
           /\ \A j \in 1 .. Len(stream'[c]) : stream'[c][j] = stream[c][j + 1]
<1>1. /\ pushing \in [Calls -> PushingType] /\ stream \in [Calls -> Seq(Packets)]
  BY DEF TypeInv, PlayType, ControlType
<1>2. /\ listen[c] = "loop" /\ stream[c] # <<>> /\ pushing[c] = NotPushing
      /\ pushing' = [pushing EXCEPT ![c].rest = Head(stream[c])]
      /\ stream' = [stream EXCEPT ![c] = Tail(@)]
      /\ UNCHANGED <<recVars, playBuff, readyToRead, readPos, heard, listen, talk>>
  BY DEF Receive, Push
<1>3. UNCHANGED <<Sound, NextSent, sendPos>>
  BY <1>2 DEF Sound, NextSent, recVars
<1>4. /\ stream[c] \in Seq(Packets) /\ Len(stream[c]) \in Nat \ {0}
      /\ Head(stream[c]) = stream[c][1] /\ stream[c][1] \in Packets
      /\ Tail(stream[c]) \in Seq(Packets) /\ Len(Tail(stream[c])) = Len(stream[c]) - 1
      /\ \A j \in 1 .. Len(Tail(stream[c])) : Tail(stream[c])[j] = stream[c][j + 1]
  <2>1. stream[c] \in Seq(Packets)
    BY <1>1
  <2>2. Len(stream[c]) \in Nat \ {0} /\ Head(stream[c]) = stream[c][1]
    BY <1>2, <2>1, EmptySeq
  <2>3. Head(stream[c]) \in Packets
    BY <1>2, <2>1, HeadTailProperties
  <2> QED BY <1>2, <2>1, <2>2, <2>3, HeadTailProperties
<1>5. stream'[c] = Tail(stream[c]) /\ \A d \in Calls \ {c} : stream'[d] = stream[d]
  BY <1>1, <1>2
<1>6. /\ pushing'[c].rest = stream[c][1]
      /\ \A d \in Calls \ {c} : pushing'[d].rest = pushing[d].rest
  BY <1>1, <1>2, <1>4 DEF PushingType
<1>7. stream[c][1] # <<>> /\ Len(stream[c][1]) = PacketSize
  BY <1>4, PacketIsSeq, EmptySeq DEF Packets
<1>8. pushing[c].rest = <<>>
  BY <1>2 DEF NotPushing
<1> QED BY <1>2, <1>3, <1>4, <1>5, <1>6, <1>7, <1>8

LEMMA OrderReceived ==
    ASSUME TypeInv, NEW c \in Calls, Receive(c), SoundInOrder,
           \A d \in Calls : RestInOrder(d) /\ StreamInOrder(d)
    PROVE  SoundInOrder' /\ \A d \in Calls : RestInOrder(d)' /\ StreamInOrder(d)'
<1>1. /\ UNCHANGED <<Sound, readyToRead, listen, sendPos, NextSent>>
      /\ listen[c] = "loop" /\ pushing[c].rest = <<>> /\ Len(stream[c]) \in Nat \ {0}
      /\ pushing'[c].rest = stream[c][1] /\ Len(pushing'[c].rest) = PacketSize
      /\ \A d \in Calls \ {c} :
            pushing'[d].rest = pushing[d].rest /\ stream'[d] = stream[d]
      /\ stream'[c] \in Seq(Packets) /\ Len(stream'[c]) = Len(stream[c]) - 1
      /\ \A j \in 1 .. Len(stream'[c]) : stream'[c][j] = stream[c][j + 1]
  BY ReceivedFacts
<1>2. SoundInOrder'
  BY <1>1 DEF SoundInOrder, Behind
<1>3. ASSUME NEW d \in Calls \ {c} PROVE RestInOrder(d)' /\ StreamInOrder(d)'
  <2>1. pushing'[d].rest = pushing[d].rest /\ stream'[d] = stream[d]
    BY <1>1
  <2>2. RestInOrder(d) /\ StreamInOrder(d)
    OBVIOUS
  <2>3. RestInOrder(d)'
    BY <1>1, <2>1, <2>2 DEF RestInOrder, Behind, InARow
  <2>4. StreamInOrder(d)'
    BY <1>1, <2>1, <2>2 DEF StreamInOrder, Behind, InARow
  <2> QED BY <2>3, <2>4
<1> DEFINE sent == stream[c]
<1>4. ASSUME NEW j \in 1 .. Len(sent)
      PROVE  /\ \A i \in DOMAIN sent[j] : sent[j][i] = sent[j][1] + i - 1
             /\ sent[j][1] \in Nat /\ \A n \in 0 .. readyToRead - 1 : Sound[n] < sent[j][1]
             /\ \A k \in 1 .. Len(sent) : j < k => sent[j][1] + PacketSize <= sent[k][1]
             /\ sent[j][1] + PacketSize <= NextSent[c]
  <2>1. DOMAIN sent = 1 .. Len(sent)
    BY DEF TypeInv, ControlType
  <2> QED BY <1>1, <2>1 DEF StreamInOrder, InARow, Behind
<1>5. RestInOrder(c)'
  <2>1. 1 \in 1 .. Len(sent)
    BY <1>1
  <2> QED BY <1>1, <1>4, <2>1 DEF RestInOrder, InARow, Behind
<1>6. StreamInOrder(c)'
  <2> DEFINE left == stream'[c]
  <2>1. DOMAIN left = 1 .. Len(left) /\ Len(left) = Len(sent) - 1
    BY <1>1
  <2>2. ASSUME NEW j \in 1 .. Len(left)
        PROVE  /\ \A i \in DOMAIN left[j] : left[j][i] = left[j][1] + i - 1
               /\ left[j][1] \in Nat /\ \A n \in 0 .. readyToRead - 1 : Sound[n] < left[j][1]
               /\ sent[1][1] + PacketSize <= left[j][1]
               /\ \A k \in 1 .. Len(left) : j < k => left[j][1] + PacketSize <= left[k][1]
               /\ left[j][1] + PacketSize <= NextSent[c]
    <3>1. j + 1 \in 1 .. Len(sent) /\ 1 \in 1 .. Len(sent) /\ 1 < j + 1 /\ left[j] = sent[j + 1]
      BY <1>1, <2>1
    <3>2. ASSUME NEW k \in 1 .. Len(left), j < k PROVE left[j][1] + PacketSize <= left[k][1]
      <4>1. k + 1 \in 1 .. Len(sent) /\ j + 1 < k + 1
        BY <1>1, <2>1, <3>2
      <4>2. left[k] = sent[k + 1]
        BY <1>1
      <4> QED BY <1>4, <3>1, <4>1, <4>2
    <3> QED BY <1>4, <3>1, <3>2
  <2> HIDE DEF left
  <2>3. StreamInOrder(c)' <=> (listen'[c] # "done" => \A j \in DOMAIN left :
            /\ \A i \in DOMAIN left[j] : left[j][i] = left[j][1] + i - 1
            /\ left[j][1] \in Nat /\ \A n \in 0 .. readyToRead' - 1 : Sound'[n] < left[j][1]
            /\ pushing'[c].rest # <<>> =>
                  pushing'[c].rest[1] + Len(pushing'[c].rest) <= left[j][1]
            /\ \A k \in DOMAIN left : j < k => left[j][1] + PacketSize <= left[k][1]
            /\ left[j][1] + PacketSize <= NextSent'[c])
    BY Zenon DEF StreamInOrder, InARow, Behind, left
  <2> QED BY <1>1, <2>1, <2>2, <2>3
<1> QED BY <1>2, <1>3, <1>5, <1>6

(* The first part of the rest follows the sounds; what is left of the rest *)
(* follows the part.                                                       *)
LEMMA AdvancedFacts ==
    ASSUME TypeInv, ControlInv, InTurn, PlayerInv, Orderly, NEW c \in Calls,
           PushPacket(c), AdvanceReady(c), RestInOrder(c)
    PROVE  \E part \in Nat, from \in Nat :
               /\ part \in 1 .. Len(pushing[c].rest) /\ from = pushing[c].rest[1]
               /\ pushing[c].rest # <<>> /\ readyToRead' = readyToRead + part
               /\ \A n \in 0 .. readyToRead - 1 : Sound'[n] = Sound[n] /\ Sound[n] < from
               /\ \A n \in readyToRead .. readyToRead' - 1 :
                     Sound'[n] = from + (n - readyToRead)
               /\ Len(pushing'[c].rest) = Len(pushing[c].rest) - part
               /\ pushing'[c].rest # <<>> =>
                     pushing'[c].rest[1] = from + part /\ InARow(pushing'[c].rest)
               /\ \A d \in Calls \ {c} : /\ pushing[d].rest = <<>> /\ pushing'[d].rest = <<>>
                                         /\ sending[d].at = "idle"
                                         /\ listen[d] = "done" \/ stream[d] = <<>>
               /\ UNCHANGED <<sendPos, sending, stream, listen, talk>>
<1> DEFINE rest == pushing[c].rest
           part == pushing[c].part
           from == rest[1]
           left == pushing'[c].rest
<1>1. rest # <<>>
  BY DEF AdvanceReady, InTurn, NotPushing
<1>2. /\ InARow(rest) /\ from \in Nat
      /\ \A n \in 0 .. readyToRead - 1 : Sound[n] < from
  BY <1>1 DEF RestInOrder, Behind
<1>3. rest \in Seq(Int) /\ Len(rest) \in Nat /\ DOMAIN rest = 1 .. Len(rest) /\ readyToRead \in Nat
  BY DEF TypeInv, PlayType, PushingType
<1>4. \A i \in 1 .. Len(rest) : rest[i] = from + i - 1
  BY <1>2, <1>3 DEF InARow
<1>5. ASSUME NEW d \in Calls \ {c}
      PROVE  /\ pushing[d].rest = <<>> /\ sending[d].at = "idle" /\ pushing[d] = NotPushing
             /\ listen[d] = "done" \/ stream[d] = <<>>
  <2>1. Busy(c)
    BY <1>1 DEF Busy
  <2>2. ~Busy(d)
    BY <2>1, OneIsBusy
  <2> QED BY <2>2 DEF Busy, InTurn
<1>6. /\ part \in 1 .. Len(rest)
      /\ readyToRead' = readyToRead + part
      /\ left = SubSeq(rest, part + 1, Len(rest))
      /\ \A d \in Calls \ {c} : pushing'[d].rest = pushing[d].rest
      /\ \A n \in 0 .. readyToRead - 1 : Sound'[n] = Sound[n]
      /\ \A i \in 1 .. part : Sound'[readyToRead + i - 1] = rest[i]
  BY <1>5, AdvancedSound
<1>7. UNCHANGED <<sendPos, sending, stream, listen, talk>>
  BY DEF PushPacket, recVars, threads
<1> HIDE DEF rest, part, from, left
<1>8. ASSUME NEW n \in readyToRead .. readyToRead' - 1
      PROVE  Sound'[n] = from + (n - readyToRead)
  <2> DEFINE i == n - readyToRead + 1
  <2>1. i \in 1 .. part /\ i \in 1 .. Len(rest) /\ n = readyToRead + i - 1 /\ i - 1 = n - readyToRead
    BY <1>3, <1>6
  <2> HIDE DEF i
  <2>2. Sound'[n] = from + i - 1
    BY <1>4, <1>6, <2>1
  <2> QED BY <1>2, <1>3, <2>1, <2>2
<1>9. /\ left \in Seq(Int) /\ Len(left) = Len(rest) - part
      /\ \A i \in 1 .. Len(left) : left[i] = from + part + i - 1
  <2>1. part \in Nat /\ part + 1 \in Int
    BY <1>6
  <2>2. \A i \in part + 1 .. Len(rest) : rest[i] \in Int
    BY <1>2, <1>3, <1>4, <2>1
  <2>3. /\ left \in Seq(Int)
        /\ Len(left) = IF part + 1 <= Len(rest) THEN Len(rest) - (part + 1) + 1 ELSE 0
        /\ \A i \in 1 .. Len(rest) - (part + 1) + 1 : left[i] = rest[(part + 1) + i - 1]
    BY <1>3, <1>6, <2>1, <2>2, SubSeqProperties
  <2>4. Len(left) = Len(rest) - part
    BY <1>3, <1>6, <2>3
  <2>5. ASSUME NEW i \in 1 .. Len(left) PROVE left[i] = from + part + i - 1
    <3>0. i \in 1 .. Len(rest) - part /\ Len(rest) \in Nat /\ part \in 1 .. Len(rest)
      BY <1>3, <1>6, <2>4
    <3>1. i \in Nat /\ part + i \in 1 .. Len(rest) /\ i \in 1 .. Len(rest) - (part + 1) + 1
      BY <3>0
    <3>2. (part + 1) + i - 1 = part + i
      BY <2>1, <3>1
    <3>3. left[i] = rest[part + i]
      BY <2>3, <3>1, <3>2
    <3>4. rest[part + i] = from + (part + i) - 1
      BY <1>4, <3>1
    <3> QED BY <1>2, <2>1, <3>1, <3>3, <3>4
  <2> QED BY <2>3, <2>4, <2>5
<1>10. left # <<>> => left[1] = from + part /\ InARow(left)
  <2> SUFFICES ASSUME left # <<>> PROVE left[1] = from + part /\ InARow(left)
    OBVIOUS
  <2>1. Len(left) \in Nat /\ 1 \in 1 .. Len(left) /\ DOMAIN left = 1 .. Len(left)
    BY <1>9, EmptySeq
  <2>2. part \in Nat
    BY <1>6
  <2>3. left[1] = from + part
    <3>1. left[1] = from + part + 1 - 1
      BY <1>9, <2>1
    <3> QED BY <1>2, <2>2, <3>1
  <2> QED BY <1>2, <1>9, <2>1, <2>2, <2>3 DEF InARow
<1>11. part \in Nat
  BY <1>6
<1>12. \A d \in Calls \ {c} : /\ pushing[d].rest = <<>> /\ pushing'[d].rest = <<>>
                              /\ sending[d].at = "idle"
                              /\ listen[d] = "done" \/ stream[d] = <<>>
  BY <1>5, <1>6
<1>13. \A n \in 0 .. readyToRead - 1 : Sound'[n] = Sound[n] /\ Sound[n] < from
  BY <1>2, <1>6
<1> QED BY <1>1, <1>2, <1>6, <1>7, <1>8, <1>9, <1>10, <1>11, <1>12, <1>13 DEF rest, left, from

LEMMA OrderAdvanced ==
    ASSUME TypeInv, ControlInv, InTurn, PlayerInv, PacketsRecorded, Orderly, NEW c \in Calls,
           PushPacket(c), AdvanceReady(c), SoundInOrder,
           \A d \in Calls : RestInOrder(d) /\ StreamInOrder(d)
    PROVE  SoundInOrder' /\ \A d \in Calls : RestInOrder(d)' /\ StreamInOrder(d)'
<1>1. PICK part \in Nat, from \in Nat :
        /\ part \in 1 .. Len(pushing[c].rest) /\ from = pushing[c].rest[1]
        /\ pushing[c].rest # <<>> /\ readyToRead' = readyToRead + part
        /\ \A n \in 0 .. readyToRead - 1 : Sound'[n] = Sound[n] /\ Sound[n] < from
        /\ \A n \in readyToRead .. readyToRead' - 1 :
              Sound'[n] = from + (n - readyToRead)
        /\ Len(pushing'[c].rest) = Len(pushing[c].rest) - part
        /\ pushing'[c].rest # <<>> =>
              pushing'[c].rest[1] = from + part /\ InARow(pushing'[c].rest)
        /\ \A d \in Calls \ {c} : /\ pushing[d].rest = <<>> /\ pushing'[d].rest = <<>>
                                  /\ sending[d].at = "idle"
                                  /\ listen[d] = "done" \/ stream[d] = <<>>
        /\ UNCHANGED <<sendPos, sending, stream, listen, talk>>
  BY AdvancedFacts
<1> DEFINE size == Len(pushing[c].rest)
<1>2. size \in Nat /\ part \in 1 .. size /\ readyToRead \in Nat /\ readyToRead' \in Nat
  <2>1. size \in Nat /\ readyToRead \in Nat
    BY DEF TypeInv, PlayType, PushingType
  <2> QED BY <1>1, <2>1
<1>3. /\ NextSent' = NextSent /\ from + size <= NextSent[c] /\ NextSent[c] \in Nat
      /\ NextSent[c] <= sendPos /\ sendPos \in Nat
      /\ \A d \in Calls \ {c} : NextSent[d] = sendPos
  <2>1. NextSent' = NextSent /\ from + size <= NextSent[c]
    BY <1>1 DEF NextSent, RestInOrder
  <2>2. sending[c].at = "taken" => sending[c].from + PacketSize = sendPos
    BY DEF PacketsRecorded
  <2>3. sendPos \in Nat /\ sending[c].from \in Nat
    BY DEF TypeInv, RecType, SendingType
  <2>4. NextSent[c] \in Nat /\ NextSent[c] <= sendPos
    BY <2>2, <2>3 DEF NextSent
  <2> QED BY <1>1, <2>1, <2>3, <2>4 DEF NextSent
<1> HIDE DEF size
<1>0. \A n \in 0 .. readyToRead' - 1 :
          n \in 0 .. readyToRead - 1 \/ n \in readyToRead .. readyToRead' - 1
  BY <1>2, SplitInterval
<1>4. ASSUME NEW x \in Nat, from + part <= x
      PROVE  \A n \in 0 .. readyToRead' - 1 : Sound'[n] < x
  <2> SUFFICES ASSUME NEW n \in 0 .. readyToRead' - 1 PROVE Sound'[n] < x
    OBVIOUS
  <2>1. CASE n \in 0 .. readyToRead - 1
    <3>1. Sound'[n] = Sound[n] /\ Sound[n] < from /\ Sound[n] \in Nat
      BY <1>1, <2>1 DEF SoundInOrder
    <3> QED BY <1>2, <1>4, <3>1
  <2>2. CASE n \in readyToRead .. readyToRead' - 1
    <3>1. Sound'[n] = from + (n - readyToRead) /\ n - readyToRead < part
      BY <1>1, <1>2, <2>2
    <3> QED BY <1>2, <1>4, <3>1
  <2> QED BY <1>0, <2>1, <2>2
<1>5. SoundInOrder'
  <2>1. \A n \in 0 .. readyToRead' - 1 : Sound'[n] \in Nat
    <3> SUFFICES ASSUME NEW n \in 0 .. readyToRead' - 1 PROVE Sound'[n] \in Nat
      OBVIOUS
    <3>1. CASE n \in 0 .. readyToRead - 1
      BY <1>1, <3>1 DEF SoundInOrder
    <3>2. CASE n \in readyToRead .. readyToRead' - 1
      <4>1. Sound'[n] = from + (n - readyToRead)
        BY <1>1, <3>2
      <4>2. n - readyToRead \in Nat
        BY <1>2, <3>2
      <4> QED BY <4>1, <4>2
    <3> QED BY <1>0, <3>1, <3>2
  <2>2. ASSUME NEW m \in 0 .. readyToRead' - 1, NEW n \in 0 .. readyToRead' - 1, m < n
        PROVE  Sound'[m] < Sound'[n]
    <3>1. CASE n \in 0 .. readyToRead - 1
      <4>1. m \in 0 .. readyToRead - 1
        BY <1>2, <2>2, <3>1
      <4> QED BY <1>1, <2>2, <3>1, <4>1 DEF SoundInOrder
    <3>2. CASE m \in 0 .. readyToRead - 1 /\ n \in readyToRead .. readyToRead' - 1
      <4>1. Sound'[m] \in Nat /\ Sound'[m] < from /\ Sound'[n] = from + (n - readyToRead)
        BY <1>1, <2>1, <3>2
      <4> QED BY <1>2, <3>2, <4>1
    <3>3. CASE m \in readyToRead .. readyToRead' - 1 /\ n \in readyToRead .. readyToRead' - 1
      <4>1. Sound'[m] = from + (m - readyToRead) /\ Sound'[n] = from + (n - readyToRead)
        BY <1>1, <3>3
      <4> QED BY <1>2, <2>2, <4>1
    <3>4. m \in readyToRead .. readyToRead' - 1 => n \notin 0 .. readyToRead - 1
      BY <1>2, <2>2
    <3>5. m \in 0 .. readyToRead - 1 \/ m \in readyToRead .. readyToRead' - 1
      BY <1>0
    <3>6. n \in 0 .. readyToRead - 1 \/ n \in readyToRead .. readyToRead' - 1
      BY <1>0
    <3> QED BY <3>1, <3>2, <3>3, <3>4, <3>5, <3>6
  <2>3. from + part <= sendPos /\ from + part <= NextSent[c]
    BY <1>2, <1>3
  <2>4. ASSUME NEW x \in Nat, from + part <= x PROVE Behind(x)'
    BY <1>4, <2>4 DEF Behind
  <2>5. Behind(sendPos)' /\ \A d \in Calls : Behind(NextSent[d])'
    BY <1>1, <1>3, <1>4, <2>3 DEF Behind
  <2> QED BY <2>1, <2>2, <2>5 DEF SoundInOrder
<1>6. ASSUME NEW d \in Calls \ {c} PROVE RestInOrder(d)' /\ StreamInOrder(d)'
  <2>1. pushing'[d].rest = <<>> /\ (listen'[d] = "done" \/ stream'[d] = <<>>)
    BY <1>1
  <2>2. DOMAIN <<>> = {}
    OBVIOUS
  <2> QED BY <2>1, <2>2 DEF RestInOrder, StreamInOrder
<1>7. RestInOrder(c)'
  <2> SUFFICES ASSUME pushing'[c].rest # <<>> PROVE RestInOrder(c)'
    BY DEF RestInOrder
  <2>1. /\ pushing'[c].rest[1] = from + part
        /\ \A i \in DOMAIN pushing'[c].rest : pushing'[c].rest[i] = pushing'[c].rest[1] + i - 1
        /\ pushing'[c].rest[1] + Len(pushing'[c].rest) = from + size
    BY <1>1, <1>2 DEF InARow, size
  <2>2. from + part \in Nat /\ \A n \in 0 .. readyToRead' - 1 : Sound'[n] < from + part
    <3>1. PICK x \in Nat : x = from + part
      OBVIOUS
    <3>2. \A n \in 0 .. readyToRead' - 1 : Sound'[n] < x
      BY <1>4, <3>1
    <3> QED BY <3>1, <3>2
  <2>3. pushing'[c].rest[1] + Len(pushing'[c].rest) <= NextSent'[c]
    BY <1>3, <2>1
  <2> QED BY <2>1, <2>2, <2>3 DEF RestInOrder, Behind, InARow
<1>8. StreamInOrder(c)'
  <2> SUFFICES ASSUME listen[c] # "done" PROVE StreamInOrder(c)'
    BY <1>1 DEF StreamInOrder
  <2> DEFINE sent == stream[c]
  <2>1. ASSUME NEW j \in DOMAIN sent
        PROVE  /\ \A i \in DOMAIN sent[j] : sent[j][i] = sent[j][1] + i - 1
               /\ sent[j][1] \in Nat /\ from + size <= sent[j][1]
               /\ \A k \in DOMAIN sent : j < k => sent[j][1] + PacketSize <= sent[k][1]
               /\ sent[j][1] + PacketSize <= NextSent[c]
    BY <1>1 DEF StreamInOrder, InARow, Behind, size
  <2>2. ASSUME NEW j \in DOMAIN sent
        PROVE  /\ \A n \in 0 .. readyToRead' - 1 : Sound'[n] < sent[j][1]
               /\ pushing'[c].rest # <<>> =>
                     pushing'[c].rest[1] + Len(pushing'[c].rest) <= sent[j][1]
    <3>1. sent[j][1] \in Nat /\ from + size <= sent[j][1]
      BY <2>1
    <3>2. from + part <= sent[j][1]
      BY <1>2, <3>1
    <3>3. pushing'[c].rest # <<>> => pushing'[c].rest[1] + Len(pushing'[c].rest) = from + size
      BY <1>1, <1>2 DEF size
    <3> QED BY <1>4, <3>1, <3>2, <3>3
  <2>3. stream'[c] = sent /\ NextSent' = NextSent
    BY <1>1, <1>3
  <2> HIDE DEF sent
  <2> QED BY <2>1, <2>2, <2>3 DEF StreamInOrder, InARow, Behind
<1> QED BY <1>5, <1>6, <1>7, <1>8

LEMMA OrderStep ==
    ASSUME TypeInv, TypeInv', ControlInv, RingInv, InTurn, RecorderInv, PlayerInv, OrderInv,
           [Next]_vars
    PROVE  OrderInv'
<1> SUFFICES ASSUME Orderly'
             PROVE  SoundInOrder' /\ \A c \in Calls : RestInOrder(c)' /\ StreamInOrder(c)'
  BY DEF OrderInv
<1>1. /\ Orderly /\ PacketsRecorded /\ SoundInOrder
      /\ \A c \in Calls : RestInOrder(c) /\ StreamInOrder(c)
  BY OrderlyBefore DEF TypeInv, RecorderInv, OrderInv
<1>2. CASE NothingHandedOn
  BY <1>1, <1>2, OrderKept
<1>3. ASSUME NEW c \in Calls, SendPacket(c)
      PROVE  SoundInOrder' /\ \A d \in Calls : RestInOrder(d)' /\ StreamInOrder(d)'
  BY <1>1, <1>3, OrderSent
<1>4. ASSUME NEW c \in Calls, Receive(c)
      PROVE  SoundInOrder' /\ \A d \in Calls : RestInOrder(d)' /\ StreamInOrder(d)'
  BY <1>1, <1>4, OrderReceived
<1>5. ASSUME NEW c \in Calls, PushPacket(c), AdvanceReady(c)
      PROVE  SoundInOrder' /\ \A d \in Calls : RestInOrder(d)' /\ StreamInOrder(d)'
  BY <1>1, <1>5, OrderAdvanced
<1> QED BY <1>1, <1>2, <1>3, <1>4, <1>5, StepOfOrder

LEMMA CompleteSent ==
    ASSUME TypeInv, ControlInv, PacketsRecorded, NEW c \in Calls, SendPacket(c), Complete(c)
    PROVE  Complete(c)'
<1> DEFINE sent == stream[c]
           now == stream'[c]
           last == Len(stream[c]) + 1
<1>1. /\ UNCHANGED <<Sound, readyToRead, pushing, listen, talk, sendPos>>
      /\ NextSent[c] \in Nat /\ NextSent[c] + PacketSize = sendPos /\ NextSent'[c] = sendPos
      /\ packet[1] = NextSent[c]
      /\ now \in Seq(Packets) /\ Len(now) = last
      /\ \A j \in 1 .. Len(sent) : now[j] = sent[j]
      /\ now[last] = packet
  BY SentFacts
<1>2. talk[c] = "loop"
  BY DEF ControlInv, SenderTalks, SendPacket, SetAudioBytes
<1>3. /\ Len(sent) \in Nat /\ (sent = <<>> <=> Len(sent) = 0)
      /\ last = Len(sent) + 1 /\ now # <<>> /\ last \in Nat
  <2>1. sent \in Seq(Packets)
    BY DEF TypeInv, ControlType
  <2> QED BY <1>1, <2>1, EmptySeq
<1>4. NextPushed(c)' = NextPushed(c)
  BY <1>1 DEF NextPushed
<1>5. listen[c] # "done" =>
         /\ sent # <<>> => sent[1][1] = NextPushed(c)
         /\ \A j \in 1 .. Len(sent) - 1 : sent[j + 1][1] = sent[j][1] + PacketSize
         /\ NextSent[c] = IF sent = <<>> THEN NextPushed(c)
                          ELSE sent[Len(sent)][1] + PacketSize
  BY <1>2 DEF Complete
<1>6. /\ \A n \in 0 .. readyToRead - 1 : Sound[n] = n
      /\ pushing[c].rest # <<>> => pushing[c].rest[1] = readyToRead
  BY DEF Complete
<1> HIDE DEF sent, now, last
<1>7. ASSUME listen[c] # "done" PROVE now[1][1] = NextPushed(c)
  <2>1. CASE sent = <<>>
    BY <1>1, <1>3, <1>5, <1>7, <2>1
  <2>2. CASE sent # <<>>
    <3>1. 1 \in 1 .. Len(sent)
      BY <1>3, <2>2
    <3> QED BY <1>1, <1>5, <1>7, <2>2, <3>1
  <2> QED BY <2>1, <2>2
<1>8. ASSUME listen[c] # "done", NEW j \in 1 .. Len(now) - 1
      PROVE  now[j + 1][1] = now[j][1] + PacketSize
  <2>1. j \in 1 .. Len(sent)
    BY <1>1, <1>3
  <2>2. CASE j = Len(sent)
    <3>1. sent # <<>> /\ j + 1 = last
      BY <1>3, <2>1, <2>2
    <3> QED BY <1>1, <1>5, <1>8, <2>1, <2>2, <3>1
  <2>3. CASE j \in 1 .. Len(sent) - 1
    <3>1. j + 1 \in 1 .. Len(sent)
      BY <1>3, <2>3
    <3> QED BY <1>1, <1>5, <1>8, <2>1, <2>3, <3>1
  <2> QED BY <1>3, <2>1, <2>2, <2>3
<1>9. now[Len(now)][1] + PacketSize = NextSent'[c]
  BY <1>1
<1> QED BY <1>1, <1>3, <1>4, <1>6, <1>7, <1>8, <1>9 DEF Complete, now

LEMMA CompleteReceived ==
    ASSUME TypeInv, NEW c \in Calls, Receive(c), Complete(c)
    PROVE  Complete(c)'
<1> DEFINE sent == stream[c]
           left == stream'[c]
<1>1. /\ UNCHANGED <<Sound, readyToRead, listen, talk, NextSent>>
      /\ listen[c] = "loop" /\ pushing[c].rest = <<>> /\ Len(sent) \in Nat \ {0}
      /\ pushing'[c].rest = sent[1] /\ Len(pushing'[c].rest) = PacketSize
      /\ left \in Seq(Packets) /\ Len(left) = Len(sent) - 1
      /\ \A j \in 1 .. Len(left) : left[j] = sent[j + 1]
  BY ReceivedFacts
<1>2. /\ NextPushed(c) = readyToRead /\ NextPushed(c)' = readyToRead + PacketSize
      /\ readyToRead \in Nat
  <2>1. Len(<<>>) = 0 /\ readyToRead \in Nat
    BY DEF TypeInv, PlayType
  <2> QED BY <1>1, <2>1 DEF NextPushed
<1>3. /\ sent # <<>> /\ sent[1][1] = readyToRead
      /\ \A j \in 1 .. Len(sent) - 1 : sent[j + 1][1] = sent[j][1] + PacketSize
      /\ talk[c] # "done" => NextSent[c] = sent[Len(sent)][1] + PacketSize
      /\ \A n \in 0 .. readyToRead - 1 : Sound[n] = n
  <2>1. sent # <<>>
    <3>1. Len(<<>>) = 0
      OBVIOUS
    <3> QED BY <1>1, <3>1
  <2> QED BY <1>1, <1>2, <2>1 DEF Complete
<1> HIDE DEF sent, left
<1>4. Len(left) \in Nat /\ (left = <<>> <=> Len(left) = 0)
  <2>1. left \in Seq(Packets)
    BY <1>1
  <2> QED BY <2>1, EmptySeq
<1>5. left # <<>> => left[1][1] = NextPushed(c)'
  <2> SUFFICES ASSUME left # <<>> PROVE left[1][1] = readyToRead + PacketSize
    BY <1>2
  <2>1. 1 \in 1 .. Len(left) /\ 1 \in 1 .. Len(sent) - 1
    BY <1>1, <1>4
  <2>2. left[1] = sent[1 + 1] /\ sent[1 + 1][1] = sent[1][1] + PacketSize
    BY <1>1, <1>3, <2>1
  <2> QED BY <1>3, <2>2
<1>6. ASSUME NEW j \in 1 .. Len(left) - 1 PROVE left[j + 1][1] = left[j][1] + PacketSize
  <2>1. j \in 1 .. Len(left) /\ j + 1 \in 1 .. Len(left) /\ j + 1 \in 1 .. Len(sent) - 1
    BY <1>1, <1>4
  <2>2. left[j + 1] = sent[(j + 1) + 1] /\ left[j] = sent[j + 1]
    BY <1>1, <2>1
  <2>3. sent[(j + 1) + 1][1] = sent[j + 1][1] + PacketSize
    BY <1>3, <2>1
  <2> QED BY <2>2, <2>3
<1>7. talk'[c] # "done" =>
          NextSent'[c] = IF left = <<>> THEN NextPushed(c)' ELSE left[Len(left)][1] + PacketSize
  <2> SUFFICES ASSUME talk[c] # "done"
               PROVE  NextSent[c] = IF left = <<>> THEN readyToRead + PacketSize
                                    ELSE left[Len(left)][1] + PacketSize
    BY <1>1, <1>2
  <2>1. CASE left = <<>>
    <3>1. Len(sent) = 1
      BY <1>1, <1>4, <2>1
    <3> QED BY <1>3, <2>1, <3>1
  <2>2. CASE left # <<>>
    <3>1. Len(left) \in 1 .. Len(left) /\ Len(left) + 1 = Len(sent)
      BY <1>1, <1>4, <2>2
    <3> QED BY <1>1, <1>3, <2>2, <3>1
  <2> QED BY <2>1, <2>2
<1>8. pushing'[c].rest[1] = readyToRead'
  BY <1>1, <1>3
<1> QED BY <1>1, <1>3, <1>5, <1>6, <1>7, <1>8 DEF Complete, left

LEMMA CompleteAdvanced ==
    ASSUME TypeInv, ControlInv, InTurn, PlayerInv, Orderly, NEW c \in Calls,
           PushPacket(c), AdvanceReady(c), RestInOrder(c), Complete(c)
    PROVE  Complete(c)'
<1>1. PICK part \in Nat, from \in Nat :
        /\ part \in 1 .. Len(pushing[c].rest) /\ from = pushing[c].rest[1]
        /\ pushing[c].rest # <<>> /\ readyToRead' = readyToRead + part
        /\ \A n \in 0 .. readyToRead - 1 : Sound'[n] = Sound[n] /\ Sound[n] < from
        /\ \A n \in readyToRead .. readyToRead' - 1 :
              Sound'[n] = from + (n - readyToRead)
        /\ Len(pushing'[c].rest) = Len(pushing[c].rest) - part
        /\ pushing'[c].rest # <<>> =>
              pushing'[c].rest[1] = from + part /\ InARow(pushing'[c].rest)
        /\ UNCHANGED <<sendPos, sending, stream, listen, talk>>
  BY AdvancedFacts
<1>2. readyToRead \in Nat /\ Len(pushing[c].rest) \in Nat /\ readyToRead' \in Nat
  <2>1. readyToRead \in Nat /\ Len(pushing[c].rest) \in Nat
    BY DEF TypeInv, PlayType, PushingType
  <2> QED BY <1>1, <2>1
<1>3. from = readyToRead /\ \A n \in 0 .. readyToRead - 1 : Sound[n] = n
  BY <1>1 DEF Complete
<1>4. \A n \in 0 .. readyToRead' - 1 : Sound'[n] = n
  <2> SUFFICES ASSUME NEW n \in 0 .. readyToRead' - 1 PROVE Sound'[n] = n
    OBVIOUS
  <2>0. n \in 0 .. readyToRead - 1 \/ n \in readyToRead .. readyToRead' - 1
    BY <1>2, SplitInterval
  <2>1. CASE n \in 0 .. readyToRead - 1
    BY <1>1, <1>3, <2>1
  <2>2. CASE n \in readyToRead .. readyToRead' - 1
    <3>1. Sound'[n] = from + (n - readyToRead)
      BY <1>1, <2>2
    <3> QED BY <1>2, <1>3, <2>2, <3>1
  <2> QED BY <2>0, <2>1, <2>2
<1>5. NextPushed(c)' = NextPushed(c) /\ NextSent' = NextSent
  <2>1. PICK size \in Nat : size = Len(pushing[c].rest)
    BY <1>2
  <2>2. NextPushed(c) = readyToRead + size /\ NextPushed(c)' = (readyToRead + part) + (size - part)
    BY <1>1, <2>1 DEF NextPushed
  <2>3. (readyToRead + part) + (size - part) = readyToRead + size
    BY <1>2
  <2> QED BY <1>1, <2>2, <2>3 DEF NextSent
<1>6. pushing'[c].rest # <<>> => pushing'[c].rest[1] = readyToRead'
  BY <1>1, <1>3
<1> QED BY <1>1, <1>4, <1>5, <1>6 DEF Complete

LEMMA CompleteStep ==
    ASSUME TypeInv, ControlInv, RingInv, InTurn, RecorderInv, PlayerInv, OrderInv, CompleteInv,
           [Next]_vars
    PROVE  CompleteInv'
<1> SUFFICES ASSUME Orderly', NEW c \in Calls, Alone(c)' PROVE Complete(c)'
  BY DEF CompleteInv
<1>1. Orderly /\ PacketsRecorded /\ RestInOrder(c)
  BY OrderlyBefore DEF TypeInv, RecorderInv, OrderInv
<1>2. CASE NothingHandedOn
  <2>1. Alone(c)
    BY <1>2 DEF NothingHandedOn
  <2>2. Complete(c)
    BY <1>1, <2>1 DEF CompleteInv
  <2> QED BY <1>2, <2>1, <2>2, CompleteKept
<1>3. ASSUME NEW d \in Calls, SendPacket(d) \/ Receive(d) \/ (PushPacket(d) /\ AdvanceReady(d))
      PROVE  Complete(c)'
  <2>1. UNCHANGED <<talk, listen>>
    BY <1>3 DEF SendPacket, Receive, PushPacket, threads
  <2>2. Alone(c)
    BY <2>1 DEF Alone
  <2>3. talk[d] # "none" \/ listen[d] # "none"
    BY <1>3 DEF SendPacket, SetAudioBytes, ControlInv, SenderTalks, Receive, AdvanceReady, InTurn,
                NotPushing
  <2>4. d = c
    BY <2>2, <2>3 DEF Alone
  <2>5. Complete(c)
    BY <1>1, <2>2 DEF CompleteInv
  <2> QED BY <1>1, <1>3, <2>4, <2>5, CompleteSent, CompleteReceived, CompleteAdvanced
<1> QED BY <1>1, <1>2, <1>3, StepOfOrder

-----------------------------------------------------------------------------
VoiceInv ==
    /\ TypeInv /\ ControlInv /\ RingInv
    /\ InTurn /\ RecorderInv /\ PlayerInv /\ OrderInv /\ CompleteInv

LEMMA VoiceInit == Init => VoiceInv
BY TypeInit, ControlInit, RingInit, InTurnInit, RecorderInit, PlayerInit, OrderInit DEF VoiceInv

LEMMA VoiceStep == VoiceInv /\ [Next]_vars => VoiceInv'
<1> SUFFICES ASSUME VoiceInv, [Next]_vars PROVE VoiceInv'
  OBVIOUS
<1>1. TypeInv' /\ ControlInv' /\ RingInv'
  BY TypeStep, ControlStep, RingStep DEF VoiceInv
<1>2. InTurn' /\ RecorderInv' /\ PlayerInv'
  BY InTurnStep, RecorderStep, PlayerStep DEF VoiceInv
<1>3. OrderInv' /\ CompleteInv'
  BY <1>1, OrderStep, CompleteStep DEF VoiceInv
<1> QED BY <1>1, <1>2, <1>3 DEF VoiceInv

(* What has been played are the first of the sounds, and all of them were  *)
(* sent, hence recorded.                                                   *)
LEMMA HeardFromInv == VoiceInv => HeardInOrder
<1> SUFFICES ASSUME VoiceInv, Orderly
             PROVE  /\ Increasing(heard)
                    /\ \A i \in DOMAIN heard : heard[i] \in 0 .. writePos - 1
                    /\ FirstConversation => \A i \in DOMAIN heard : heard[i] = i - 1
  BY DEF HeardInOrder, Orderly
<1>1. /\ readPos \in Nat /\ readyToRead \in Nat /\ sendPos \in Nat /\ writePos \in Nat
      /\ DOMAIN heard = 1 .. readPos /\ readPos <= readyToRead /\ sendPos <= writePos
  BY DEF VoiceInv, TypeInv, PlayType, RecType, PlayerInv, RingInv, CopiesRecorded, SendsRecorded, Orderly
<1>2. /\ \A n \in 0 .. readyToRead - 1 : Sound[n] \in Nat /\ Sound[n] < sendPos
      /\ \A m, n \in 0 .. readyToRead - 1 : m < n => Sound[m] < Sound[n]
  BY DEF VoiceInv, OrderInv, SoundInOrder, Behind
<1>3. ASSUME NEW i \in 1 .. readPos
      PROVE  i - 1 \in 0 .. readyToRead - 1 /\ heard[i] = Sound[i - 1]
  <2>1. i - 1 \in 0 .. readyToRead - 1 /\ i - 1 < readPos /\ (i - 1) + 1 = i
    BY <1>1
  <2> QED BY <2>1 DEF Sound
<1>4. Increasing(heard)
  <2> SUFFICES ASSUME NEW i \in 1 .. readPos, NEW j \in 1 .. readPos, i < j
               PROVE  heard[i] < heard[j]
    BY <1>1 DEF Increasing
  <2>1. i - 1 < j - 1
    OBVIOUS
  <2> QED BY <1>2, <1>3, <2>1
<1>5. \A i \in DOMAIN heard : heard[i] \in 0 .. writePos - 1
  <2> SUFFICES ASSUME NEW i \in 1 .. readPos PROVE heard[i] \in 0 .. writePos - 1
    BY <1>1
  <2>1. heard[i] \in Nat /\ heard[i] < sendPos
    BY <1>2, <1>3
  <2> QED BY <1>1, <2>1
<1>6. FirstConversation => \A i \in DOMAIN heard : heard[i] = i - 1
  <2> SUFFICES ASSUME FirstConversation, NEW i \in 1 .. readPos PROVE heard[i] = i - 1
    BY <1>1
  <2>1. PICK c \in Calls : Alone(c)
    BY DEF FirstConversation, Alone
  <2>2. Complete(c)
    BY <2>1 DEF VoiceInv, CompleteInv
  <2> QED BY <1>3, <2>2 DEF Complete
<1> QED BY <1>4, <1>5, <1>6

(* For any number of conversations that follow one another and any rings   *)
(* that are not overrun, what the loudspeaker was given is what the        *)
(* microphone recorded, in order and nothing twice; in the first           *)
(* conversation nothing is missing either (recorder.cpp:31-49,             *)
(* player.cpp:27-75, peertopeer.cpp:143-233).                              *)
THEOREM HeardInOrderCorrect == Spec => []HeardInOrder
BY VoiceInit, VoiceStep, HeardFromInv, PTL DEF Spec

=============================================================================
