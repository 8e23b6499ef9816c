------------------------------ MODULE VoicePath -----------------------------
(***************************************************************************)
(* One direction of the voice, from the microphone of one client to the    *)
(* loudspeaker of another: the writing voice threads of the first, the     *)
(* calls' streams, the reading voice threads of the second                 *)
(* (peertopeer.cpp), and at either end AudioModule, which turns the device *)
(* on and off by signals queued to the recorder's and the player's thread  *)
(* (audiomodule.cpp).  All calls of a client share its recorder and its    *)
(* player.  When a conversation begins and ends is up to the environment;  *)
(* PeerToPeer says when it does.                                           *)
(***************************************************************************)
EXTENDS Recorder, Player

(* 0x10000 bytes and packets of 16 in the program.                         *)
ASSUME WholePackets == RecBuffSize % PacketSize = 0

VARIABLES
    talk,         \* the writing voice thread of each call at the microphone's end
    listen,       \* the reading voice thread of each call at the other end
    stream,       \* voice messages under way
    closed,       \* the stream was cancelled or has died
    recQueue,     \* slots queued to recThread
    playQueue,    \* slots queued to playThread
    mic,          \* mAudioInput
    speaker,      \* mAudiOutput
    overlapped,   \* history: two conversations have shared a recorder or a player
    overrun       \* history: a ring was overwritten before it was read

threads == <<talk, listen, stream, closed, overlapped>>
control == <<recQueue, playQueue, mic, speaker>>
vars == <<recVars, playVars, threads, control, overrun>>

Threads == {"none", "loop", "done"}
Slots == {"run", "stop"}
Devices == {"none", "active", "stopped", "crashed"}

Init ==
    /\ RecInit /\ PlayInit
    /\ talk = [c \in Calls |-> "none"] /\ listen = [c \in Calls |-> "none"]
    /\ stream = [c \in Calls |-> <<>>] /\ closed = [c \in Calls |-> FALSE]
    /\ recQueue = <<>> /\ playQueue = <<>>
    /\ mic = "none" /\ speaker = "none"
    /\ overlapped = FALSE /\ overrun = FALSE

-----------------------------------------------------------------------------
(* The writing voice thread.                                               *)

(* A conversation lasts from its first thread to its last.                 *)
IsUp(c) == talk[c] = "loop" \/ talk[c] # listen[c]
Overlaps(c) == \E d \in Calls \ {c} : IsUp(d)

(* Mutant: the start is not queued behind the stop of the call before.     *)
StartTalkAtOnce(c) ==
    /\ talk[c] = "none"
    /\ talk' = [talk EXCEPT ![c] = "loop"]
    /\ mic' = "active"
    /\ overlapped' = (overlapped \/ Overlaps(c))
    /\ UNCHANGED <<recVars, playVars, listen, stream, closed, recQueue, playQueue, speaker, overrun>>

StartTalk(c) ==
    /\ talk[c] = "none"
    /\ talk' = [talk EXCEPT ![c] = "loop"]
    /\ recQueue' = Append(recQueue, "run")
    /\ overlapped' = (overlapped \/ Overlaps(c))
    /\ UNCHANGED <<recVars, playVars, listen, stream, closed, playQueue, mic, speaker, overrun>>

EndTalk(c) ==
    /\ talk' = [talk EXCEPT ![c] = "done"]
    /\ recQueue' = Append(recQueue, "stop")
    /\ UNCHANGED <<playVars, listen, stream, closed, overlapped, playQueue, mic, speaker, overrun>>

TakePacket(c) ==
    /\ talk[c] = "loop" /\ WriteAudio(c)
    /\ UNCHANGED <<playVars, threads, control, overrun>>

SendPacket(c) ==
    /\ ~closed[c] /\ SetAudioBytes(c)
    /\ stream' = [stream EXCEPT ![c] = Append(@, packet)]
    /\ UNCHANGED <<playVars, talk, listen, closed, overlapped, control, overrun>>

(* Write fails on a dead stream.                                           *)
SendFails(c) == closed[c] /\ SetAudioBytes(c) /\ EndTalk(c)

(* Mutant: the failing writer and the ending loop forget the stop.         *)
StopTalkSilently(c) ==
    /\ talk[c] = "loop" /\ sending[c] = NotSending
    /\ talk' = [talk EXCEPT ![c] = "done"]
    /\ UNCHANGED <<recVars, playVars, listen, stream, closed, overlapped, control, overrun>>

(* The conversation is over: the loop's condition fails.                   *)
StopTalk(c) ==
    /\ talk[c] = "loop" /\ sending[c] = NotSending
    /\ EndTalk(c) /\ UNCHANGED recVars

-----------------------------------------------------------------------------
(* The reading voice thread.                                               *)

StartListen(c) ==
    /\ listen[c] = "none"
    /\ listen' = [listen EXCEPT ![c] = "loop"]
    /\ playQueue' = Append(playQueue, "run")
    /\ overlapped' = (overlapped \/ Overlaps(c))
    /\ UNCHANGED <<recVars, playVars, talk, stream, closed, recQueue, mic, speaker, overrun>>

Receive(c) ==
    /\ listen[c] = "loop" /\ stream[c] # <<>>
    /\ Push(c, Head(stream[c]))
    /\ stream' = [stream EXCEPT ![c] = Tail(@)]
    /\ UNCHANGED <<recVars, talk, listen, closed, overlapped, control, overrun>>

OverwritesUnplayed(c) == /\ pushing[c].part = 0
                         /\ readyToRead + PartSize(c) > readPos + PlayBuffSize

PushPacket(c) ==
    /\ ReadAudio(c)
    /\ overrun' = (overrun \/ OverwritesUnplayed(c))
    /\ UNCHANGED <<recVars, threads, control>>

StopListen(c) ==
    /\ listen[c] = "loop" /\ pushing[c] = NotPushing
    /\ listen' = [listen EXCEPT ![c] = "done"]
    /\ playQueue' = Append(playQueue, "stop")
    /\ UNCHANGED <<recVars, playVars, talk, stream, closed, overlapped, recQueue, mic,
                   speaker, overrun>>

(* TryCancel of a voice thread at either end, or the connection is lost.   *)
Close(c) ==
    /\ ~closed[c]
    /\ closed' = [closed EXCEPT ![c] = TRUE]
    /\ UNCHANGED <<recVars, playVars, talk, listen, stream, overlapped, control, overrun>>

-----------------------------------------------------------------------------
(* recThread and playThread: the devices, and the slots queued to them.    *)

Record ==
    /\ mic = "active" /\ (StoreSample \/ AdvanceWrite)
    /\ overrun' = (overrun \/ (~stored /\ writePos >= sendPos + RecBuffSize))
    /\ UNCHANGED <<playVars, threads, control>>

Play ==
    /\ speaker = "active" /\ PlaySample
    /\ UNCHANGED <<recVars, threads, control, overrun>>

(* Mutant: the device is released when it was stopped, as in               *)
(* Tools/recorder/recorder.cpp:65-69.                                      *)
StoppedAndReleased(device) == IF device = "none" THEN "crashed" ELSE "none"

(* stop() of no device is a call through a null pointer.                   *)
Stopped(device) == IF device = "none" THEN "crashed" ELSE "stopped"

HandleRecorderSlot ==
    /\ recQueue # <<>> /\ ~stored
    /\ mic' = IF Head(recQueue) = "run" THEN "active" ELSE Stopped(mic)
    /\ recQueue' = Tail(recQueue)
    /\ UNCHANGED <<recVars, playVars, threads, playQueue, speaker, overrun>>

HandlePlayerSlot ==
    /\ playQueue # <<>>
    /\ speaker' = IF Head(playQueue) = "run" THEN "active" ELSE Stopped(speaker)
    /\ playQueue' = Tail(playQueue)
    /\ UNCHANGED <<recVars, playVars, threads, recQueue, mic, overrun>>

-----------------------------------------------------------------------------
Next ==
    \/ Record \/ Play \/ HandleRecorderSlot \/ HandlePlayerSlot
    \/ \E c \in Calls :
          \/ StartTalk(c) \/ TakePacket(c) \/ SendPacket(c) \/ SendFails(c) \/ StopTalk(c)
          \/ StartListen(c) \/ Receive(c) \/ PushPacket(c) \/ StopListen(c)
          \/ Close(c)

Spec == Init /\ [][Next]_vars

-----------------------------------------------------------------------------
(* Every variable stays in its type.                                       *)
TypeOK ==
    /\ recBuff \in [0 .. RecBuffSize - 1 -> Int]
    /\ writePos \in Nat /\ sendPos \in Nat /\ stored \in BOOLEAN
    /\ packet \in [1 .. PacketSize -> Int]
    /\ sending \in [Calls -> [at: {"idle", "tested", "copying", "taken"}, from: Nat,
                              copied: 0 .. PacketSize]]
    /\ playBuff \in [0 .. PlayBuffSize - 1 -> Int]
    /\ readyToRead \in Nat /\ readPos \in Nat
    /\ pushing \in [Calls -> [rest: Seq(Int), at: Nat, part: 0 .. PacketSize]]
    /\ heard \in Seq(Int)
    /\ talk \in [Calls -> Threads] /\ listen \in [Calls -> Threads]
    /\ stream \in [Calls -> Seq([1 .. PacketSize -> Int])]
    /\ closed \in [Calls -> BOOLEAN]
    /\ recQueue \in Seq(Slots) /\ playQueue \in Seq(Slots)
    /\ mic \in Devices /\ speaker \in Devices
    /\ overlapped \in BOOLEAN /\ overrun \in BOOLEAN

(* A stop always finds a device: however conversations overlap, a slot that*)
(* stops the recorder or the player comes after one that ran it            *)
(* (recorder.cpp:68, player.cpp:71; the pointer is null until the first    *)
(* run).                                                                   *)
StopFindsDevice == mic # "crashed" /\ speaker # "crashed"

(* When the last conversation is over and its slots have run, the          *)
(* microphone and the loudspeaker are off, however conversations           *)
(* overlapped and however they ended (peertopeer.cpp:154-233).             *)
SilentAfterLastCall ==
    /\ (\A c \in Calls : talk[c] # "loop") /\ recQueue = <<>> => mic # "active"
    /\ (\A c \in Calls : listen[c] # "loop") /\ playQueue = <<>> => speaker # "active"

(* The microphone of a conversation that shares it with no other is on, as *)
(* is its loudspeaker: a stop that is still queued from the conversation   *)
(* before does not turn it off.  (It does if the conversations overlapped: *)
(* the one that goes on is mute and deaf.)                                 *)
LoneCallHasDevices ==
    ~overlapped => \A c \in Calls :
        /\ talk[c] = "loop" /\ recQueue = <<>> => mic = "active"
        /\ listen[c] = "loop" /\ playQueue = <<>> => speaker = "active"

(* A packet is copied from inside the ring, although memcpy does not wrap: *)
(* send positions stay multiples of the packet's size, even when two calls *)
(* take packets at the same time and lose updates (recorder.cpp:41).       *)
PacketInsideRing ==
    \A c \in Calls : sending[c].at = "copying" =>
        (sending[c].from % RecBuffSize) + PacketSize <= RecBuffSize

(* What was not recorded yet is not sent: the unsigned difference of       *)
(* recorder.cpp:40 does not wrap as long as conversations do not overlap.  *)
(* (Two that do can both advance the send position past the write          *)
(* position, and from then on every test succeeds.)                        *)
SendBehindWrite == ~overlapped => sendPos <= writePos

Increasing(s) == \A i, j \in DOMAIN s : i < j => s[i] < s[j]

FirstConversation == \E c \in Calls : \A d \in Calls \ {c} : talk[d] = "none" /\ listen[d] = "none"

(* What is heard was spoken, in the order it was spoken, and nothing       *)
(* twice, across all the conversations of the two clients, provided none   *)
(* overlapped and neither ring was overrun.  Within the first conversation *)
(* nothing is lost either.                                                 *)
HeardInOrder ==
    ~overlapped /\ ~overrun =>
        /\ Increasing(heard)
        /\ \A i \in DOMAIN heard : heard[i] \in 0 .. writePos - 1
        /\ FirstConversation => \A i \in DOMAIN heard : heard[i] = i - 1

=============================================================================
