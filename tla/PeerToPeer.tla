----------------------------- MODULE PeerToPeer -----------------------------
(***************************************************************************)
(* The call engine of one client process (Client/Sources/peertopeer.cpp)   *)
(* with the GUI handlers of client.cpp that drive it.                      *)
(*                                                                         *)
(* Every incoming call is a gRPC handler thread in HandShake, every        *)
(* outgoing call a detached thread in sendCallRequest.  Each of them also  *)
(* starts a race (reader or checker thread, a detached 12 s timer, the     *)
(* GUI's buttons) and, once connected, a pair of voice threads.  All of    *)
(* them share the object's atomic flags, its two signals and the displayed *)
(* client state.  The other end of a call, the directory server and the    *)
(* user are the environment: they may act at any time or never.            *)
(***************************************************************************)
EXTENDS Integers, FiniteSets

CONSTANTS
    In,      \* incoming calls, one HandShake each
    Out,     \* outgoing calls, one sendCallRequest each
    NoCall   \* "no outgoing stream was opened yet", and the GUI as an emitter

ASSUME CallsAssumption == In \cap Out = {} /\ NoCall \notin In \cup Out
ASSUME FiniteAssumption == IsFiniteSet(In) /\ IsFiniteSet(Out)

Calls == In \cup Out

CallScreens == {"OutgoingCall", "IncomingCall", "InConversation"}
ClientStates == {"Authorization", "Online"} \cup CallScreens

OutgoingCallStates ==
    {"NotFinished", "FinishedByReading", "FinishedByTimer", "FinishedByCancel"}

VARIABLES
    clientState,        \* QMLClientState::mClientState
    screen,             \* the state the QML loaders show: follows clientState
    isInConversation,   \* mIsInConversation
    isCanceledStream,   \* mIsCanceledStream
    clientStream,       \* the outgoing call mClientStream belongs to
    timersCount,        \* mIncomingCallTimersCount and mOutgoingCallTimersCount
    missedCalls,        \* incoming calls recorded as missed
    pc,                 \* where the thread of each call is
    voice,              \* its reading and its writing voice thread
    timer,              \* its 12 s timer thread, [at |-> ..., number |-> ...]
    helper,             \* readThread (outgoing), checkCanceledThread (incoming)
    response,           \* what readThread's Read left in the response
    success,            \* the race's local `success'
    outgoingState,      \* the outgoing race's local `outgoingState'
    closed,             \* the call's stream was cancelled or ended
    slots               \* race lambdas that passed their guard and are running

shared == <<isCanceledStream, clientStream, timersCount, missedCalls>>
race == <<timer, helper, response, success, outgoingState, slots>>
vars == <<clientState, screen, isInConversation, isCanceledStream, clientStream,
          timersCount, missedCalls, pc, voice, timer, helper, response, success,
          outgoingState, closed, slots>>

-----------------------------------------------------------------------------
(* The program counters.  An incoming call: the handler has the request    *)
(* ("arrived"), found the flag clear ("passed"), has started its timer and *)
(* checker ("connecting"), runs its event loop ("ringing"), left the loop  *)
(* ("settled"), knows its result ("accepted", "declined"), has answered    *)
(* ("answered"), runs its voice threads ("voice"), owes setState(Online)   *)
(* ("ending").  An outgoing call: the GUI waits for the server ("lookup"), *)
(* the call thread exists ("spawned"), has written its request and started *)
(* its reader and timer ("connecting"), has connected the lambda           *)
(* ("connected"), runs its loop ("waiting"), and so on; "finishing" waits  *)
(* in Finish.                                                              *)
InPcs == {"none", "arrived", "passed", "connecting", "ringing", "settled",
          "accepted", "declined", "answered", "voice", "ending", "done"}
OutPcs == {"none", "lookup", "spawned", "connecting", "connected", "waiting",
           "settled", "accepted", "announced", "voice", "finishing", "ending",
           "done"}

Sides == {"in", "out"}
VoiceThreads == {"rd", "wr"}
VoiceStates == {"none", "loop", "reading", "quitting", "marking", "cancelling", "clearing", "done"}
TimerStates == {"none", "started", "sleeping", "firing", "fired", "done"}
HelperStates == {"none", "running", "returned", "emitted"}
Responses == {"none", "yes", "no"}
Emitters == {"gui", "timer", "helper"}

(* A running lambda: who emitted the signal (for which call), which race it *)
(* belongs to, and whether it carries `true' (incoming races only).         *)
Slots == [by: Emitters, of: Calls \cup {NoCall}, to: Calls, accept: BOOLEAN]

Init ==
    /\ clientState = "Authorization"
    /\ screen = "Authorization"
    /\ isInConversation = FALSE
    /\ isCanceledStream = FALSE
    /\ clientStream = NoCall
    /\ timersCount = [side \in Sides |-> 0]
    /\ missedCalls = {}
    /\ pc = [c \in Calls |-> "none"]
    /\ voice = [c \in Calls |-> [t \in VoiceThreads |-> "none"]]
    /\ timer = [c \in Calls |-> [at |-> "none", number |-> 0]]
    /\ helper = [c \in Calls |-> "none"]
    /\ response = [c \in Out |-> "none"]
    /\ success = [c \in Calls |-> FALSE]
    /\ outgoingState = [c \in Out |-> "NotFinished"]
    /\ closed = [c \in Calls |-> FALSE]
    /\ slots = {}

Goto(c, from, to) == pc[c] = from /\ pc' = [pc EXCEPT ![c] = to]

(* setState from a thread of the program: the screen follows later, when   *)
(* the GUI thread handles the stateChanged signal queued to it.            *)
SetState(s) == clientState' = s /\ UNCHANGED screen

(* setState from a handler of the GUI thread: the loaders follow at once.  *)
SetStateOnGui(s) == clientState' = s /\ screen' = s

-----------------------------------------------------------------------------
(* Signals.  The lambdas are connected without a context object, so each   *)
(* runs in the emitting thread, and one emission reaches every race that   *)
(* is connected.  An emission evaluates the lambdas' guards; what a lambda *)
(* does once its guard held is a step of its own (IncomingSlot,            *)
(* OutgoingSlot), and the emitter is held until its lambdas have run.      *)

IsRunning(c) == pc[c] = "ringing"
IsUndecided(c) == /\ pc[c] \in {"connected", "waiting", "settled"}
                  /\ outgoingState[c] = "NotFinished"

EmitIncoming(by, of, accept) ==
    slots' = slots \cup [by: {by}, of: {of}, accept: {accept},
                         to: {c \in In : IsRunning(c)}]

EmitOutgoing(by, of) ==
    slots' = slots \cup [by: {by}, of: {of}, accept: {FALSE},
                         to: {c \in Out : IsUndecided(c)}]

Emitting(by, of) == \E s \in slots : s.by = by /\ s.of = of

(* The race of the slot's call has returned: its locals are gone and the   *)
(* connection with them.                                                   *)
RaceReturned(c) == pc[c] \notin {"connecting", "connected", "waiting", "ringing", "settled"}

(* Mutant: the lambda forgets loop.exit().                                 *)
IncomingSlotWithoutExit(s) ==
    /\ s \in slots /\ s.to \in In
    /\ slots' = slots \ {s}
    /\ IF RaceReturned(s.to)
       THEN UNCHANGED success
       ELSE success' = [success EXCEPT ![s.to] = s.accept]
    /\ UNCHANGED <<clientState, screen, isInConversation, shared, pc, voice, timer,
                   helper, response, outgoingState, closed>>

IncomingSlot(s) ==
    /\ s \in slots /\ s.to \in In
    /\ slots' = slots \ {s}
    /\ IF RaceReturned(s.to)
       THEN UNCHANGED <<success, pc>>
       ELSE /\ success' = [success EXCEPT ![s.to] = s.accept]
            /\ pc' = [pc EXCEPT ![s.to] = "settled"]
    /\ UNCHANGED <<clientState, screen, isInConversation, shared, voice, timer,
                   helper, response, outgoingState, closed>>

StateOf(s) == CASE s.by = "helper" -> "FinishedByReading"
                [] s.by = "timer" -> "FinishedByTimer"
                [] s.by = "gui" -> "FinishedByCancel"

(* loop.exit() before loop.exec() is forgotten: exec() clears the flag.    *)
ExitLoop(c) == IF pc[c] = "waiting" THEN [pc EXCEPT ![c] = "settled"] ELSE pc

OutgoingSlot(s) ==
    /\ s \in slots /\ s.to \in Out
    /\ slots' = slots \ {s}
    /\ IF RaceReturned(s.to)
       THEN UNCHANGED <<outgoingState, success, closed, pc>>
       ELSE /\ outgoingState' = [outgoingState EXCEPT ![s.to] = StateOf(s)]
            /\ success' = [success EXCEPT ![s.to] = @ \/ s.by = "helper"]
            /\ closed' = [closed EXCEPT ![s.to] = @ \/ s.by # "helper"]
            /\ pc' = ExitLoop(s.to)
    /\ UNCHANGED <<clientState, screen, isInConversation, shared, voice, timer,
                   helper, response>>

-----------------------------------------------------------------------------
(* The 12 s timer of a race.  It is detached: it outlives its call and may *)
(* find another call's race connected.                                     *)

Side(c) == IF c \in In THEN "in" ELSE "out"

(* Twelve seconds outlast the setup of a race: of the timer's own, and of  *)
(* every other one on its side whose timer had counted by then.            *)
RaceIsSetUp(c) == pc[c] \notin {"connecting", "connected"}

CountedBefore(c) == {d \in Calls : /\ Side(d) = Side(c) /\ timer[d].at = "sleeping"
                                  /\ timer[d].number <= timer[c].number}

(* Mutant: count++ instead of ++count.                                     *)
TimerPostCounts(c) ==
    /\ timer[c].at = "started"
    /\ timersCount' = [timersCount EXCEPT ![Side(c)] = @ + 1]
    /\ timer' = [timer EXCEPT ![c] = [at |-> "sleeping", number |-> timersCount[Side(c)]]]
    /\ UNCHANGED <<clientState, screen, isInConversation, isCanceledStream,
                   clientStream, missedCalls, pc, voice, helper, response,
                   success, outgoingState, closed, slots>>

TimerCounts(c) ==
    /\ timer[c].at = "started"
    /\ timersCount' = [timersCount EXCEPT ![Side(c)] = @ + 1]
    /\ timer' = [timer EXCEPT ![c] = [at |-> "sleeping",
                                      number |-> timersCount[Side(c)] + 1]]
    /\ UNCHANGED <<clientState, screen, isInConversation, isCanceledStream,
                   clientStream, missedCalls, pc, voice, helper, response,
                   success, outgoingState, closed, slots>>

TimerWakes(c) ==
    /\ timer[c].at = "sleeping"
    /\ \A d \in CountedBefore(c) : RaceIsSetUp(d)
    /\ timer' = [timer EXCEPT ![c] =
                    [at |-> IF timer[c].number = timersCount[Side(c)] THEN "firing" ELSE "done",
                     number |-> 0]]
    /\ UNCHANGED <<clientState, screen, isInConversation, shared, pc, voice,
                   helper, response, success, outgoingState, closed, slots>>

TimerFires(c) ==
    /\ timer[c].at = "firing"
    /\ timer' = [timer EXCEPT ![c].at = "fired"]
    /\ IF c \in In THEN EmitIncoming("timer", c, FALSE) ELSE EmitOutgoing("timer", c)
    /\ UNCHANGED <<clientState, screen, isInConversation, shared, pc, voice,
                   helper, response, success, outgoingState, closed>>

TimerResets(c) ==
    /\ timer[c].at = "fired" /\ ~Emitting("timer", c)
    /\ timer' = [timer EXCEPT ![c].at = "done"]
    /\ timersCount' = [timersCount EXCEPT ![Side(c)] = 0]
    /\ UNCHANGED <<clientState, screen, isInConversation, isCanceledStream,
                   clientStream, missedCalls, pc, voice, helper, response,
                   success, outgoingState, closed, slots>>

-----------------------------------------------------------------------------
(* readThread and checkCanceledThread: one helper thread per race, which   *)
(* emits once, then is joined by the race.                                 *)

(* A second outgoing call has replaced mClientStream: what the first still *)
(* reads, writes or finishes there is not its own stream.                  *)
Replaced(c) == clientStream # c
OwnStream(c) == c \in Out => ~Replaced(c)

(* What the call does on its stream: on its own, when that is dead, it     *)
(* fails; on another call's it may fail or not, whatever the state of its  *)
(* own.                                                                    *)
Dead(c) == closed[c] /\ OwnStream(c)
MayFail(c) == closed[c] \/ ~OwnStream(c)

ReaderReturns(c, r) ==
    /\ c \in Out /\ helper[c] = "running"
    /\ r = "none" => MayFail(c)
    /\ response' = [response EXCEPT ![c] = r]
    /\ helper' = [helper EXCEPT ![c] = "returned"]
    /\ UNCHANGED <<clientState, screen, isInConversation, shared, pc, voice, timer,
                   success, outgoingState, closed, slots>>

CheckerReturns(c) ==
    /\ c \in In /\ helper[c] = "running"
    /\ closed[c] \/ pc[c] = "settled"
    /\ helper' = [helper EXCEPT ![c] = "returned"]
    /\ UNCHANGED <<clientState, screen, isInConversation, shared, pc, voice, timer,
                   response, success, outgoingState, closed, slots>>

HelperEmits(c) ==
    /\ helper[c] = "returned"
    /\ helper' = [helper EXCEPT ![c] = "emitted"]
    /\ IF c \in In THEN EmitIncoming("helper", c, FALSE) ELSE EmitOutgoing("helper", c)
    /\ UNCHANGED <<clientState, screen, isInConversation, shared, pc, voice, timer,
                   response, success, outgoingState, closed>>

HelperEnded(c) == helper[c] = "emitted" /\ ~Emitting("helper", c)

StartRace(c) ==
    /\ timer' = [timer EXCEPT ![c].at = "started"]
    /\ helper' = [helper EXCEPT ![c] = "running"]

(* The race has joined its helper and returns: its locals are gone.        *)
EndRace(c) ==
    /\ HelperEnded(c)
    /\ helper' = [helper EXCEPT ![c] = "none"]
    /\ success' = [success EXCEPT ![c] = FALSE]
    /\ UNCHANGED <<timer, slots>>

-----------------------------------------------------------------------------
(* The voice threads of a connected call.  Leaving the loop, cancelling    *)
(* the stream and clearing the shared flag are separate steps.             *)

InConversation == isInConversation /\ clientState = "InConversation"

StartVoice(c) == voice' = [voice EXCEPT ![c] = [t \in VoiceThreads |-> "loop"]]

(* The reader blocks in Read and tests the loop's condition only when a    *)
(* Read has returned: a local hang-up does not wake it.                    *)
ReadVoiceBlocks(c) ==
    /\ voice[c]["rd"] = "loop" /\ InConversation
    /\ voice' = [voice EXCEPT ![c]["rd"] = "reading"]
    /\ UNCHANGED <<clientState, screen, isInConversation, shared, pc, race, closed>>

(* The peer's voice, or that of the call that has replaced mClientStream.  *)
ReadVoiceHears(c) ==
    /\ voice[c]["rd"] = "reading" /\ ~Dead(c)
    /\ voice' = [voice EXCEPT ![c]["rd"] = "loop"]
    /\ UNCHANGED <<clientState, screen, isInConversation, shared, pc, race, closed>>

(* Mutant: the loop ignores the result of Read.                            *)
ReadVoiceIgnoresFailure(c) ==
    /\ voice[c]["rd"] = "reading" /\ MayFail(c)
    /\ voice' = [voice EXCEPT ![c]["rd"] = "loop"]
    /\ UNCHANGED <<clientState, screen, isInConversation, shared, pc, race, closed>>

ReadVoiceFails(c) ==
    /\ voice[c]["rd"] = "reading" /\ MayFail(c)
    /\ voice' = [voice EXCEPT ![c]["rd"] = "quitting"]
    /\ UNCHANGED <<clientState, screen, isInConversation, shared, pc, race, closed>>

ReadVoiceEnds(c) ==
    /\ voice[c]["rd"] = "loop" /\ ~InConversation
    /\ voice' = [voice EXCEPT ![c]["rd"] = "quitting"]
    /\ UNCHANGED <<clientState, screen, isInConversation, shared, pc, race, closed>>

ReadLoop(c) ==
    ReadVoiceBlocks(c) \/ ReadVoiceHears(c) \/ ReadVoiceFails(c) \/ ReadVoiceEnds(c)

WriteVoiceEnds(c) ==
    /\ voice[c]["wr"] = "loop" /\ ~InConversation
    /\ voice' = [voice EXCEPT ![c]["wr"] = "quitting"]
    /\ UNCHANGED <<clientState, screen, isInConversation, shared, pc, race, closed>>

(* A failed Write ends the writer without cancelling the stream.           *)
WriteVoiceFails(c) ==
    /\ voice[c]["wr"] = "loop" /\ MayFail(c)
    /\ voice' = [voice EXCEPT ![c]["wr"] = "clearing"]
    /\ UNCHANGED <<clientState, screen, isInConversation, shared, pc, race, closed>>

(* The outgoing side cancels its context unless some voice thread has the  *)
(* cancel under way: test, set, cancel.                                    *)
VoiceThreadTests(c, t) ==
    /\ c \in Out /\ voice[c][t] = "quitting"
    /\ voice' = [voice EXCEPT ![c][t] = IF isCanceledStream THEN "clearing" ELSE "marking"]
    /\ UNCHANGED <<clientState, screen, isInConversation, shared, pc, race, closed>>

VoiceThreadMarks(c, t) ==
    /\ c \in Out /\ voice[c][t] = "marking"
    /\ voice' = [voice EXCEPT ![c][t] = "cancelling"]
    /\ isCanceledStream' = TRUE
    /\ UNCHANGED <<clientState, screen, isInConversation, clientStream, timersCount,
                   missedCalls, pc, race, closed>>

(* Mutant: the voice threads of an incoming call leave its stream alone.   *)
VoiceThreadKeepsStream(c, t) ==
    /\ voice[c][t] = (IF c \in Out THEN "cancelling" ELSE "quitting")
    /\ voice' = [voice EXCEPT ![c][t] = "clearing"]
    /\ closed' = [closed EXCEPT ![c] = @ \/ c \in Out]
    /\ UNCHANGED <<clientState, screen, isInConversation, shared, pc, race>>

(* The incoming side asks its own context whether it is cancelled.         *)
VoiceThreadCancels(c, t) ==
    /\ voice[c][t] = (IF c \in Out THEN "cancelling" ELSE "quitting")
    /\ voice' = [voice EXCEPT ![c][t] = "clearing"]
    /\ closed' = [closed EXCEPT ![c] = TRUE]
    /\ UNCHANGED <<clientState, screen, isInConversation, shared, pc, race>>

(* Mutant: the thread leaves the busy flag set.                            *)
VoiceThreadKeepsFlag(c, t) ==
    /\ voice[c][t] = "clearing"
    /\ voice' = [voice EXCEPT ![c][t] = "done"]
    /\ UNCHANGED <<clientState, screen, isInConversation, shared, pc, race, closed>>

VoiceThreadQuits(c, t) ==
    /\ voice[c][t] = "clearing"
    /\ voice' = [voice EXCEPT ![c][t] = "done"]
    /\ isInConversation' = FALSE
    /\ UNCHANGED <<clientState, screen, shared, pc, race, closed>>

VoiceThreadLeaves(c, t) ==
    \/ VoiceThreadTests(c, t) \/ VoiceThreadMarks(c, t)
    \/ VoiceThreadCancels(c, t) \/ VoiceThreadQuits(c, t)

VoiceEnded(c) == voice[c]["rd"] = "done" /\ voice[c]["wr"] = "done"

-----------------------------------------------------------------------------
(* HandShake: the handler thread of an incoming call.                      *)

Arrive(c) ==
    /\ c \in In /\ Goto(c, "none", "arrived")
    /\ UNCHANGED <<clientState, screen, isInConversation, shared, voice, race, closed>>

(* Busy: record the missed call, answer `false', return without setState.  *)
MissCall(c) ==
    /\ c \in In /\ isInConversation
    /\ Goto(c, "arrived", "done")
    /\ missedCalls' = missedCalls \cup {c}
    /\ closed' = [closed EXCEPT ![c] = FALSE]
    /\ UNCHANGED <<clientState, screen, isInConversation, isCanceledStream,
                   clientStream, timersCount, voice, race>>

PassBusyCheck(c) ==
    /\ c \in In /\ ~isInConversation
    /\ Goto(c, "arrived", "passed")
    /\ UNCHANGED <<clientState, screen, isInConversation, shared, voice, race, closed>>

Ring(c) ==
    /\ c \in In /\ Goto(c, "passed", "connecting")
    /\ SetState("IncomingCall")
    /\ StartRace(c)
    /\ UNCHANGED <<isInConversation, shared, voice, response, success,
                   outgoingState, slots, closed>>

ExecIncoming(c) ==
    /\ c \in In /\ Goto(c, "connecting", "ringing")
    /\ UNCHANGED <<clientState, screen, isInConversation, shared, voice, race, closed>>

JoinChecker(c) ==
    /\ c \in In /\ EndRace(c)
    /\ Goto(c, "settled", IF success[c] THEN "accepted" ELSE "declined")
    /\ UNCHANGED <<clientState, screen, isInConversation, shared, voice, response,
                   outgoingState, closed>>

AnswerYes(c) ==
    /\ c \in In /\ Goto(c, "accepted", "answered")
    /\ isInConversation' = TRUE
    /\ UNCHANGED <<clientState, screen, shared, voice, race, closed>>

BeginIncomingVoice(c) ==
    /\ c \in In /\ Goto(c, "answered", "voice")
    /\ SetState("InConversation")
    /\ StartVoice(c)
    /\ UNCHANGED <<isInConversation, shared, race, closed>>

(* Mutant: the handler of a finished call is left at a wrong place.        *)
EndIncomingLost(c) ==
    /\ c \in In
    /\ \/ Goto(c, "declined", "finishing")
       \/ Goto(c, "voice", "finishing") /\ VoiceEnded(c)
    /\ isInConversation' = FALSE
    /\ UNCHANGED <<clientState, screen, shared, voice, race, closed>>

(* The answer `false', or the join of the voice threads; then the flag.    *)
EndIncoming(c) ==
    /\ c \in In
    /\ \/ Goto(c, "declined", "ending")
       \/ Goto(c, "voice", "ending") /\ VoiceEnded(c)
    /\ isInConversation' = FALSE
    /\ UNCHANGED <<clientState, screen, shared, voice, race, closed>>

(* Mutant: no setState(Online) at the end.                                 *)
FinishCallOnScreen(c) ==
    /\ Goto(c, "ending", "done")
    /\ voice' = [voice EXCEPT ![c] = [t \in VoiceThreads |-> "none"]]
    /\ closed' = [closed EXCEPT ![c] = FALSE]
    /\ UNCHANGED <<clientState, screen, isInConversation, shared, race>>

(* The last setState(Online) of HandShake and of sendCallRequest; the      *)
(* context and the thread objects go with the function.                    *)
FinishCall(c) ==
    /\ Goto(c, "ending", "done")
    /\ SetState("Online")
    /\ voice' = [voice EXCEPT ![c] = [t \in VoiceThreads |-> "none"]]
    /\ closed' = [closed EXCEPT ![c] = FALSE]
    /\ UNCHANGED <<isInConversation, shared, race>>

-----------------------------------------------------------------------------
(* sendCallRequest: the thread of an outgoing call.                        *)

OpenStream(c) ==
    /\ c \in Out /\ Goto(c, "spawned", "connecting")
    /\ clientStream' = c
    /\ StartRace(c)
    /\ UNCHANGED <<clientState, screen, isInConversation, isCanceledStream,
                   timersCount, missedCalls, voice, response, success,
                   outgoingState, slots, closed>>

ConnectRace(c) ==
    /\ c \in Out /\ Goto(c, "connecting", "connected")
    /\ UNCHANGED <<clientState, screen, isInConversation, shared, voice, race, closed>>

ExecOutgoing(c) ==
    /\ c \in Out /\ Goto(c, "connected", "waiting")
    /\ UNCHANGED <<clientState, screen, isInConversation, shared, voice, race, closed>>

JoinReader(c) ==
    /\ c \in Out /\ EndRace(c)
    /\ Goto(c, "settled", IF ~success[c] THEN "ending"
                          ELSE IF response[c] = "yes" THEN "accepted" ELSE "finishing")
    /\ response' = [response EXCEPT ![c] = "none"]
    /\ outgoingState' = [outgoingState EXCEPT ![c] = "NotFinished"]
    /\ UNCHANGED <<clientState, screen, isInConversation, shared, voice, closed>>

AnnounceConversation(c) ==
    /\ c \in Out /\ Goto(c, "accepted", "announced")
    /\ SetState("InConversation")
    /\ UNCHANGED <<isInConversation, shared, voice, race, closed>>

BeginOutgoingVoice(c) ==
    /\ c \in Out /\ Goto(c, "announced", "voice")
    /\ isInConversation' = TRUE
    /\ StartVoice(c)
    /\ UNCHANGED <<clientState, screen, shared, race, closed>>

(* Mutant: mIsCanceledStream is not reset.                                 *)
JoinVoiceKeepsCancelFlag(c) ==
    /\ c \in Out /\ VoiceEnded(c)
    /\ Goto(c, "voice", "finishing")
    /\ UNCHANGED <<clientState, screen, isInConversation, shared, voice, race, closed>>

JoinVoice(c) ==
    /\ c \in Out /\ VoiceEnded(c)
    /\ Goto(c, "voice", "finishing")
    /\ isCanceledStream' = FALSE
    /\ UNCHANGED <<clientState, screen, isInConversation, clientStream,
                   timersCount, missedCalls, voice, race, closed>>

(* Finish returns when the stream has ended.                               *)
FinishStream(c) ==
    /\ c \in Out /\ Goto(c, "finishing", "ending")
    /\ MayFail(c)
    /\ UNCHANGED <<clientState, screen, isInConversation, shared, voice, race, closed>>

-----------------------------------------------------------------------------
(* The GUI thread: one handler at a time, chosen by the screen that is     *)
(* shown.  It is busy while it waits for the server's answer and while     *)
(* lambdas of its own emission run.                                        *)

GuiIdle == ~Emitting("gui", NoCall) /\ \A c \in Out : pc[c] # "lookup"
Press(s) == GuiIdle /\ screen = s

ShowState ==
    /\ GuiIdle /\ screen # clientState
    /\ screen' = clientState
    /\ UNCHANGED <<clientState, isInConversation, shared, pc, voice, race, closed>>

(* A successful authorization.                                             *)
PressSignIn ==
    /\ Press("Authorization")
    /\ SetStateOnGui("Online")
    /\ UNCHANGED <<isInConversation, shared, pc, voice, race, closed>>

(* Client::exit, or a refresh that found the server gone.                  *)
LeaveOnline ==
    /\ Press("Online")
    /\ SetStateOnGui("Authorization")
    /\ UNCHANGED <<isInConversation, shared, pc, voice, race, closed>>

(* Mutant: the call button is not tied to the Online screen.               *)
PressCallAnywhere(c) ==
    /\ c \in Out /\ GuiIdle
    /\ Goto(c, "none", "lookup")
    /\ SetStateOnGui("OutgoingCall")
    /\ UNCHANGED <<isInConversation, shared, voice, race, closed>>

PressCall(c) ==
    /\ c \in Out /\ Press("Online")
    /\ Goto(c, "none", "lookup")
    /\ SetStateOnGui("OutgoingCall")
    /\ UNCHANGED <<isInConversation, shared, voice, race, closed>>

LookupSucceeds(c) ==
    /\ c \in Out /\ Goto(c, "lookup", "spawned")
    /\ UNCHANGED <<clientState, screen, isInConversation, shared, voice, race, closed>>

LookupFails(c) ==
    /\ c \in Out /\ Goto(c, "lookup", "done")
    /\ SetStateOnGui("Authorization")
    /\ UNCHANGED <<isInConversation, shared, voice, race, closed>>

PressCancel ==
    /\ Press("OutgoingCall")
    /\ EmitOutgoing("gui", NoCall)
    /\ UNCHANGED <<clientState, screen, isInConversation, shared, pc, voice, timer,
                   helper, response, success, outgoingState, closed>>

PressAnswer(accept) ==
    /\ Press("IncomingCall")
    /\ EmitIncoming("gui", NoCall, accept)
    /\ UNCHANGED <<clientState, screen, isInConversation, shared, pc, voice, timer,
                   helper, response, success, outgoingState, closed>>

PressDecline ==
    /\ Press("InConversation")
    /\ isInConversation' = FALSE
    /\ UNCHANGED <<clientState, screen, shared, pc, voice, race, closed>>

-----------------------------------------------------------------------------
(* The other end: the caller cancels, the peer hangs up, the connection    *)
(* dies (keepalive).                                                       *)
HasStream(c) == pc[c] \notin {"none", "lookup", "spawned", "ending", "done"}

RemoteEnds(c) ==
    /\ HasStream(c) /\ ~closed[c]
    /\ closed' = [closed EXCEPT ![c] = TRUE]
    /\ UNCHANGED <<clientState, screen, isInConversation, shared, pc, voice, race>>

-----------------------------------------------------------------------------
Timer(c) == TimerCounts(c) \/ TimerWakes(c) \/ TimerFires(c) \/ TimerResets(c)

Helper(c) ==
    \/ \E r \in Responses : ReaderReturns(c, r)
    \/ CheckerReturns(c)
    \/ HelperEmits(c)

Voice(c) ==
    \/ ReadLoop(c) \/ WriteVoiceEnds(c) \/ WriteVoiceFails(c)
    \/ \E t \in VoiceThreads : VoiceThreadLeaves(c, t)

HandShake(c) ==
    \/ MissCall(c) \/ PassBusyCheck(c) \/ Ring(c) \/ ExecIncoming(c)
    \/ JoinChecker(c) \/ AnswerYes(c) \/ BeginIncomingVoice(c) \/ EndIncoming(c)

SendCallRequest(c) ==
    \/ OpenStream(c) \/ ConnectRace(c) \/ ExecOutgoing(c) \/ JoinReader(c)
    \/ AnnounceConversation(c) \/ BeginOutgoingVoice(c) \/ JoinVoice(c)
    \/ FinishStream(c)

Slot == \E s \in slots : IncomingSlot(s) \/ OutgoingSlot(s)

Lookup(c) == LookupSucceeds(c) \/ LookupFails(c)

Program == \/ Slot
           \/ ShowState
           \/ \E c \in Calls : \/ Timer(c) \/ Helper(c) \/ Voice(c) \/ FinishCall(c)
                               \/ HandShake(c) \/ SendCallRequest(c) \/ Lookup(c)

User == \/ PressSignIn \/ LeaveOnline \/ PressCancel \/ PressDecline
        \/ \E accept \in BOOLEAN : PressAnswer(accept)
        \/ \E c \in Out : PressCall(c)

Remote == \E c \in Calls : Arrive(c) \/ RemoteEnds(c)

Next == Program \/ User \/ Remote

Spec == Init /\ [][Next]_vars

(* Every thread of the program keeps running (the scheduler is fair, the   *)
(* lambdas of an emission run on its thread); the user and the other end   *)
(* of a call owe nothing.  A Read may block for ever, and so may a Finish; *)
(* they surely return only on the call's own stream when that is dead.     *)
SlotOf(by, of) ==
    \E s \in slots : s.by = by /\ s.of = of /\ (IncomingSlot(s) \/ OutgoingSlot(s))

TimerThread(c) == Timer(c) \/ SlotOf("timer", c)

HelperThread(c) ==
    \/ (Dead(c) /\ ReaderReturns(c, "none"))
    \/ CheckerReturns(c) \/ HelperEmits(c) \/ SlotOf("helper", c)

VoiceThread(c, t) ==
    \/ /\ t = "rd"
       /\ ReadVoiceBlocks(c) \/ ReadVoiceEnds(c) \/ (Dead(c) /\ ReadVoiceFails(c))
    \/ /\ t = "wr"
       /\ WriteVoiceEnds(c) \/ (Dead(c) /\ WriteVoiceFails(c))
    \/ VoiceThreadLeaves(c, t)

CallThread(c) == /\ HandShake(c) \/ SendCallRequest(c) \/ FinishCall(c)
                 /\ pc[c] = "finishing" => Dead(c)

GuiThread == ShowState \/ SlotOf("gui", NoCall) \/ \E c \in Out : Lookup(c)

CallFairness == \A c \in Calls : WF_vars(HelperThread(c)) /\ WF_vars(CallThread(c))

VoiceFairness == \A c \in Calls : \A t \in VoiceThreads : WF_vars(VoiceThread(c, t))

TimerFairness == \A c \in Calls : WF_vars(TimerThread(c))

Fairness == CallFairness /\ VoiceFairness /\ TimerFairness /\ WF_vars(GuiThread)

FairSpec == Spec /\ Fairness

-----------------------------------------------------------------------------
(* Safety properties.                                                      *)

(* Every variable stays in its type.                                       *)
TypeOK ==
    /\ clientState \in ClientStates /\ screen \in ClientStates
    /\ isInConversation \in BOOLEAN /\ isCanceledStream \in BOOLEAN
    /\ clientStream \in Out \cup {NoCall}
    /\ timersCount \in [Sides -> Nat]
    /\ missedCalls \subseteq In
    /\ pc \in [Calls -> InPcs \cup OutPcs]
    /\ \A c \in In : pc[c] \in InPcs
    /\ \A c \in Out : pc[c] \in OutPcs
    /\ voice \in [Calls -> [VoiceThreads -> VoiceStates]]
    /\ timer \in [Calls -> [at: TimerStates, number: Nat]]
    /\ helper \in [Calls -> HelperStates]
    /\ response \in [Out -> Responses]
    /\ success \in [Calls -> BOOLEAN]
    /\ outgoingState \in [Out -> OutgoingCallStates]
    /\ closed \in [Calls -> BOOLEAN]
    /\ slots \subseteq Slots

(* The thread of the call still has its setState(Online) ahead of it.      *)
OwesOnline(c) == IF c \in In
                 THEN pc[c] \notin {"none", "arrived", "passed", "done"}
                 ELSE pc[c] \notin {"none", "done"}

(* A call screen is never left behind: whenever the client shows a call,   *)
(* some call thread has still to set it back to Online.  However the calls *)
(* interleave, the last one to finish leaves the user on the Online or the *)
(* Authorization screen (the setState calls of HandShake, sendCallRequest  *)
(* and sendIdByUserNameRequest).                                           *)
CallScreenHasCall == clientState \in CallScreens => \E c \in Calls : OwesOnline(c)

(* The call has set the busy flag, or is bound to clear it.                *)
HoldsBusyFlag(c) == \/ pc[c] = "answered"
                    \/ pc[c] = "voice" /\ ~VoiceEnded(c)

(* The busy flag never outlives the conversations: a client that nobody    *)
(* talks to is not busy, so no caller is turned away into the missed calls *)
(* by a flag somebody forgot (mIsInConversation, lines 75, 122, 138, 160,  *)
(* 176, 187, 206, 222, 232).                                               *)
BusyFlagHasConversation == isInConversation => \E c \in Calls : HoldsBusyFlag(c)

(* A voice thread of the call is past the test of mIsCanceledStream.       *)
ComesDown(c) == /\ pc[c] = "voice"
                /\ \E t \in VoiceThreads : voice[c][t] \in {"cancelling", "clearing", "done"}

(* mIsCanceledStream is set only while an outgoing conversation comes      *)
(* down; the next conversation finds it clear and can cancel its stream.   *)
CancelFlagHasConversation == isCanceledStream => \E c \in Out : ComesDown(c)

(* The user was shown this incoming call.                                  *)
HasRung(c) == pc[c] \notin {"none", "arrived", "passed"} /\ c \notin missedCalls
NoneRang == \A c \in In : ~HasRung(c)

(* The Online screen is the lock that keeps outgoing calls apart.  Without *)
(* incoming calls it does: mClientStream is never replaced under a call    *)
(* that still uses it (lines 57-63).  An incoming call that comes to its   *)
(* setState(Online) opens the lock for a second outgoing call.             *)
StreamIsOwn == NoneRang => \A c \in Out : HasStream(c) => clientStream = c

(* Hanging up reaches the peer: once both voice threads of an outgoing     *)
(* conversation have ended, its stream is cancelled or dead, so Finish     *)
(* returns.  Each of them may leave the cancel to the other.               *)
(* mIsCanceledStream is shared by all calls, so this too holds only as     *)
(* long as no incoming call let a second outgoing call start.              *)
HangUpReachesPeer ==
    NoneRang => \A c \in Out : pc[c] = "voice" /\ VoiceEnded(c) => closed[c]

-----------------------------------------------------------------------------
(* What the comments of the two races promise, and the code does not keep. *)

(* Line 235: "what earlier, user on the other side take a call or user on  *)
(* this side cancel".  A race that the cancel decided, or the timer, must  *)
(* not return success.  outgoingState is an unprotected local that the     *)
(* lambdas test and set in the threads that emit, so two of them can pass  *)
(* the test at line 263.                                                   *)
CancelBeatsAnswer ==
    \A c \in Out :
        /\ pc[c] = "settled" /\ HelperEnded(c)
        /\ outgoingState[c] \in {"FinishedByCancel", "FinishedByTimer"}
        => ~success[c]

(* Same line: whatever came first decides the call.  So a race that sits   *)
(* in its event loop is one that nothing has decided.  An event between    *)
(* connect and loop.exec (lines 261-293) decides the race, but its         *)
(* loop.exit is forgotten by exec, and every later event, the user's       *)
(* cancel and the timer included, is ignored: the call never returns.      *)
WaitingIsUndecided ==
    \A c \in Out : pc[c] = "waiting" => outgoingState[c] = "NotFinished"

(* Line 298: "what earlier, user on the other side cancels a call or user  *)
(* on this side accepts\declines".  So while a call rings, somebody        *)
(* watches for the other side's cancel.  checkCanceledThread starts before *)
(* the loop runs and emits only once: a call cancelled early rings on.     *)
RingingIsWatched == \A c \in In : pc[c] = "ringing" => ~HelperEnded(c)

-----------------------------------------------------------------------------
(* Liveness properties (of FairSpec).                                      *)

(* The timer of another call is past its test and has still to reset the   *)
(* counter that this call's timer took its number from (lines 247-249 and  *)
(* 307-309).  Once it has, this call's timer finds its number nowhere.     *)
Overtaken(c) ==
    /\ timer[c].at = "sleeping" /\ timer[c].number = timersCount[Side(c)]
    /\ \E d \in Calls \ {c} : Side(d) = Side(c) /\ timer[d].at \in {"firing", "fired"}

NeverOvertaken == \A c \in Calls : []~Overtaken(c)

(* A ringing call comes to an end without the user and without the other   *)
(* side: raceIncomingCall's timer sees to it, or, when calls overlap and   *)
(* its own timer is outdated, the timer of a later call, whose emission    *)
(* reaches every ringing call.  Unless a timer resets the counter under    *)
(* another one that has just counted: then the latter's call may ring for  *)
(* ever.                                                                   *)
RingingEnds == NeverOvertaken => \A c \in In : pc[c] = "ringing" ~> pc[c] # "ringing"

(* So does an outgoing race that reached its loop undecided, with the      *)
(* timers of earlier calls still about, and with the same exception: there *)
(* the call waits until its peer answers or the user cancels.              *)
WaitingEnds ==
    NeverOvertaken => \A c \in Out : pc[c] = "waiting" /\ outgoingState[c] = "NotFinished"
                                          ~> pc[c] # "waiting"

(* When the other side cancels or disappears, an incoming call ends,       *)
(* wherever its handler is, with the same exception: if it was cancelled   *)
(* before its loop ran, only a timer ends it.                              *)
RemoteEndEndsIncoming == NeverOvertaken => \A c \in In : closed[c] ~> pc[c] = "done"

(* A conversation that lost its stream ends, on either side, and sets the  *)
(* screen back.                                                            *)
DeadConversationEnds ==
    \A c \in Calls : pc[c] \in {"voice", "finishing"} /\ closed[c] ~> pc[c] = "done"

(* Hanging up ends the conversation unless another call takes the flag.    *)
HangUpEnds ==
    \A c \in Calls : pc[c] = "voice" /\ ~isInConversation
        ~> \/ pc[c] = "done"
           \/ \E d \in Calls \ {c} : pc[d] \in {"answered", "announced", "voice"}

=============================================================================
