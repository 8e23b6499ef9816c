------------------------------ MODULE Recorder ------------------------------
(***************************************************************************)
(* The microphone's ring (Tools/Sources/recorder.cpp) and AudioWriter,     *)
(* which takes packets out of it.  The recorder's thread stores sample     *)
(* after sample; the voice threads of the calls take packets.  Nothing is  *)
(* locked, so each access to a position or to the ring is a step.          *)
(***************************************************************************)
EXTENDS Conversations

CONSTANTS
    RecBuffSize    \* mBuffSize of the recorder, in samples

ASSUME RecorderAssumption == RecBuffSize \in Nat \ {0}

VARIABLES
    recBuff,    \* the samples in mBuff
    writePos,   \* mBufWritePos
    stored,     \* writeData has stored a sample and not yet advanced
    sendPos,    \* mBufSendPos
    packet,     \* AudioWriter::mPacket, one for all calls
    sending     \* of each call: where it is in getDataFromBuff, the position
                \* it read, and how much it has copied

recVars == <<recBuff, writePos, stored, sendPos, packet, sending>>

NotSending == [at |-> "idle", from |-> 0, copied |-> 0]

RecInit ==
    /\ recBuff = [i \in 0 .. RecBuffSize - 1 |-> Noise]
    /\ writePos = 0 /\ stored = FALSE /\ sendPos = 0
    /\ packet = [i \in 1 .. PacketSize |-> Noise]
    /\ sending = [c \in Calls |-> NotSending]

-----------------------------------------------------------------------------
(* writeData: nothing keeps the writer from lapping the reader.            *)
StoreSample ==
    /\ ~stored
    /\ recBuff' = [recBuff EXCEPT ![writePos % RecBuffSize] = writePos]
    /\ stored' = TRUE
    /\ UNCHANGED <<writePos, sendPos, packet, sending>>

AdvanceWrite ==
    /\ stored
    /\ writePos' = writePos + 1
    /\ stored' = FALSE
    /\ UNCHANGED <<recBuff, sendPos, packet, sending>>

(* Mutant: the test forgets the size of the packet.                        *)
AvailableTooSoon == writePos # sendPos

(* The difference is unsigned: a send position that has passed the write   *)
(* position looks like plenty of data.                                     *)
Available == writePos < sendPos \/ writePos - sendPos >= PacketSize

TestAvailable(c) ==
    /\ sending[c].at = "idle" /\ Available
    /\ sending' = [sending EXCEPT ![c] = [NotSending EXCEPT !.at = "tested"]]
    /\ UNCHANGED <<recBuff, writePos, stored, sendPos, packet>>

(* The position is read again for the memcpy: another call may have        *)
(* advanced it since the test.                                             *)
ReadSendPos(c) ==
    /\ sending[c].at = "tested"
    /\ sending' = [sending EXCEPT ![c] = [at |-> "copying", from |-> sendPos, copied |-> 0]]
    /\ UNCHANGED <<recBuff, writePos, stored, sendPos, packet>>

(* memcpy does not wrap around: past the end of the ring it reads whatever *)
(* memory is there.                                                        *)
RecIndex(c) == (sending[c].from % RecBuffSize) + sending[c].copied

(* Mutant: one sample too many.                                            *)
CopySampleTooMany(c) ==
    /\ sending[c].at = "copying" /\ sending[c].copied <= PacketSize
    /\ packet' = [packet EXCEPT ![sending[c].copied + 1] =
                     IF RecIndex(c) < RecBuffSize THEN recBuff[RecIndex(c)] ELSE Noise]
    /\ sending' = [sending EXCEPT ![c].copied = @ + 1]
    /\ UNCHANGED <<recBuff, writePos, stored, sendPos>>

CopySample(c) ==
    /\ sending[c].at = "copying" /\ sending[c].copied < PacketSize
    /\ packet' = [packet EXCEPT ![sending[c].copied + 1] =
                     IF RecIndex(c) < RecBuffSize THEN recBuff[RecIndex(c)] ELSE Noise]
    /\ sending' = [sending EXCEPT ![c].copied = @ + 1]
    /\ UNCHANGED <<recBuff, writePos, stored, sendPos>>

(* Mutant: the position advances by one sample.                            *)
AdvanceSendByOne(c) ==
    /\ sending[c].at = "copying" /\ sending[c].copied = PacketSize
    /\ sendPos' = sendPos + 1
    /\ sending' = [sending EXCEPT ![c].at = "taken"]
    /\ UNCHANGED <<recBuff, writePos, stored, packet>>

(* `+=' on a position that two calls share: either may lose its update.    *)
AdvanceSend(c) ==
    /\ sending[c].at = "copying" /\ sending[c].copied = PacketSize
    /\ sendPos' \in {sendPos + PacketSize, sending[c].from + PacketSize}
    /\ sending' = [sending EXCEPT ![c].at = "taken"]
    /\ UNCHANGED <<recBuff, writePos, stored, packet>>

(* set_audiobytes: what mPacket holds by now becomes the message.          *)
SetAudioBytes(c) ==
    /\ sending[c].at = "taken"
    /\ sending' = [sending EXCEPT ![c] = NotSending]
    /\ UNCHANGED <<recBuff, writePos, stored, sendPos, packet>>

WriteAudio(c) == TestAvailable(c) \/ ReadSendPos(c) \/ CopySample(c) \/ AdvanceSend(c)
=============================================================================
