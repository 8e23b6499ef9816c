-------------------------- MODULE PeerToPeerProofs --------------------------
(***************************************************************************)
(* Proofs about PeerToPeer for any set of incoming and outgoing calls.     *)
(***************************************************************************)
EXTENDS PeerToPeer, TLAPS

USE DEF Calls

(* What an emission adds is well formed.                                   *)
LEMMA EmitType ==
    ASSUME NEW by \in Emitters, NEW of \in Calls \cup {NoCall}, NEW accept \in BOOLEAN,
           slots \subseteq Slots,
           EmitIncoming(by, of, accept) \/ EmitOutgoing(by, of)
    PROVE  slots' \subseteq Slots
<1>1. CASE EmitIncoming(by, of, accept)
  <2> SUFFICES ASSUME NEW s \in slots', s \notin slots PROVE s \in Slots
    OBVIOUS
  <2>1. s \in [by: {by}, of: {of}, accept: {accept}, to: {c \in In : IsRunning(c)}]
    BY <1>1 DEF EmitIncoming
  <2> QED BY <2>1 DEF Slots
<1>2. CASE EmitOutgoing(by, of)
  <2> SUFFICES ASSUME NEW s \in slots', s \notin slots PROVE s \in Slots
    OBVIOUS
  <2>1. s \in [by: {by}, of: {of}, accept: {FALSE}, to: {c \in Out : IsUndecided(c)}]
    BY <1>2 DEF EmitOutgoing
  <2> QED BY <2>1 DEF Slots
<1> QED BY <1>1, <1>2

LEMMA TypeInit == Init => TypeOK
<1> SUFFICES ASSUME Init PROVE TypeOK
  OBVIOUS
<1> USE DEF Init
<1>1. /\ clientState \in ClientStates /\ screen \in ClientStates
      /\ isInConversation \in BOOLEAN /\ isCanceledStream \in BOOLEAN
      /\ clientStream \in Out \cup {NoCall}
      /\ timersCount \in [Sides -> Nat]
      /\ missedCalls \subseteq In
      /\ slots \subseteq Slots
  BY DEF ClientStates, CallScreens
<1>2. /\ pc \in [Calls -> InPcs \cup OutPcs]
      /\ \A c \in In : pc[c] \in InPcs
      /\ \A c \in Out : pc[c] \in OutPcs
  BY DEF InPcs, OutPcs
<1>3. /\ voice \in [Calls -> [VoiceThreads -> VoiceStates]]
      /\ timer \in [Calls -> [at: TimerStates, number: Nat]]
      /\ helper \in [Calls -> HelperStates]
  BY DEF VoiceStates, TimerStates, HelperStates
<1>4. /\ response \in [Out -> Responses]
      /\ success \in [Calls -> BOOLEAN]
      /\ outgoingState \in [Out -> OutgoingCallStates]
      /\ closed \in [Calls -> BOOLEAN]
  BY DEF Responses, OutgoingCallStates
<1> QED BY <1>1, <1>2, <1>3, <1>4 DEF TypeOK

LEMMA TypeTimer ==
    ASSUME TypeOK, NEW c \in Calls, Timer(c)
    PROVE  TypeOK'
<1> USE DEF TypeOK, shared, TimerStates
<1>1. CASE TimerCounts(c)
  BY <1>1 DEF TimerCounts, Side, Sides
<1>2. CASE TimerWakes(c)
  BY <1>2 DEF TimerWakes
<1>3. CASE TimerFires(c)
  <2>1. slots' \subseteq Slots
    BY <1>3, EmitType DEF TimerFires, Emitters
  <2> QED BY <1>3, <2>1 DEF TimerFires
<1>4. CASE TimerResets(c)
  BY <1>4 DEF TimerResets, Side, Sides
<1> QED BY <1>1, <1>2, <1>3, <1>4 DEF Timer

(* The reader moves within its loop, or out of it, and changes nothing     *)
(* else.                                                                   *)
LEMMA ReadLoopStep ==
    ASSUME NEW c \in Calls, ReadLoop(c)
    PROVE  /\ UNCHANGED <<clientState, screen, isInConversation, isCanceledStream,
                          clientStream, timersCount, missedCalls, pc, timer, helper,
                          response, success, outgoingState, slots, closed>>
           /\ voice[c]["rd"] \in {"loop", "reading"}
           /\ \E v \in {"loop", "reading", "quitting"} : voice' = [voice EXCEPT ![c]["rd"] = v]
BY DEF ReadLoop, ReadVoiceBlocks, ReadVoiceHears, ReadVoiceFails, ReadVoiceEnds, shared, race

LEMMA TypeVoice ==
    ASSUME TypeOK, NEW c \in Calls, Voice(c)
    PROVE  TypeOK'
<1> USE DEF TypeOK, shared, race, VoiceStates, VoiceThreads
<1>1. CASE ReadLoop(c)
  <2>1. PICK v \in {"loop", "reading", "quitting"} : voice' = [voice EXCEPT ![c]["rd"] = v]
    BY <1>1, ReadLoopStep
  <2>2. voice' \in [Calls -> [VoiceThreads -> VoiceStates]]
    BY <2>1
  <2> QED BY <1>1, <2>2, ReadLoopStep
<1>2. CASE WriteVoiceEnds(c)
  BY <1>2 DEF WriteVoiceEnds
<1>3. CASE WriteVoiceFails(c)
  BY <1>3 DEF WriteVoiceFails
<1>4. ASSUME NEW t \in VoiceThreads, VoiceThreadLeaves(c, t)
      PROVE  TypeOK'
  <2>1. CASE VoiceThreadTests(c, t)
    BY <2>1 DEF VoiceThreadTests
  <2>2. CASE VoiceThreadMarks(c, t)
    BY <2>2 DEF VoiceThreadMarks
  <2>3. CASE VoiceThreadCancels(c, t)
    BY <2>3 DEF VoiceThreadCancels
  <2>4. CASE VoiceThreadQuits(c, t)
    BY <2>4 DEF VoiceThreadQuits
  <2> QED BY <1>4, <2>1, <2>2, <2>3, <2>4 DEF VoiceThreadLeaves
<1> QED BY <1>1, <1>2, <1>3, <1>4 DEF Voice

LEMMA TypeHelper ==
    ASSUME TypeOK, NEW c \in Calls, Helper(c)
    PROVE  TypeOK'
<1> USE DEF TypeOK, shared, HelperStates
<1>1. ASSUME NEW r \in Responses, ReaderReturns(c, r)
      PROVE  TypeOK'
  BY <1>1 DEF ReaderReturns
<1>2. CASE CheckerReturns(c)
  BY <1>2 DEF CheckerReturns
<1>3. CASE HelperEmits(c)
  <2>1. slots' \subseteq Slots
    BY <1>3, EmitType DEF HelperEmits, Emitters
  <2> QED BY <1>3, <2>1 DEF HelperEmits
<1> QED BY <1>1, <1>2, <1>3 DEF Helper

LEMMA TypeSlot ==
    ASSUME TypeOK, Slot
    PROVE  TypeOK'
<1> USE DEF TypeOK, shared
<1>1. PICK s \in slots : IncomingSlot(s) \/ OutgoingSlot(s)
  BY DEF Slot
<1>2. /\ s.to \in Calls /\ s.accept \in BOOLEAN /\ s.by \in Emitters
  BY DEF Slots
<1>3. CASE IncomingSlot(s)
  BY <1>2, <1>3, CallsAssumption DEF IncomingSlot, InPcs
<1>4. CASE OutgoingSlot(s)
  <2>1. StateOf(s) \in OutgoingCallStates
    BY <1>2 DEF StateOf, OutgoingCallStates, Emitters
  <2>2. /\ pc' \in [Calls -> InPcs \cup OutPcs]
        /\ \A c \in In : pc'[c] \in InPcs
        /\ \A c \in Out : pc'[c] \in OutPcs
    <3>1. s.to \in Out
      BY <1>4 DEF OutgoingSlot
    <3>2. pc' = pc \/ pc' = [pc EXCEPT ![s.to] = "settled"]
      BY <1>4 DEF OutgoingSlot, ExitLoop
    <3>3. "settled" \in OutPcs
      BY DEF OutPcs
    <3>4. s.to \notin In
      BY <3>1, CallsAssumption
    <3>5. CASE pc' = pc
      BY <3>5
    <3>6. CASE pc' = [pc EXCEPT ![s.to] = "settled"]
      <4> HIDE DEF InPcs, OutPcs
      <4>1. pc \in [Calls -> InPcs \cup OutPcs]
        OBVIOUS
      <4>2. pc' \in [Calls -> InPcs \cup OutPcs]
        BY <3>3, <3>6, <4>1
      <4>3. \A c \in In : pc'[c] = pc[c]
        BY <3>4, <3>6, <4>1
      <4>4. \A c \in Out : pc'[c] = pc[c] \/ pc'[c] = "settled"
        BY <3>6, <4>1
      <4> QED BY <3>3, <4>2, <4>3, <4>4
    <3> QED BY <3>2, <3>5, <3>6
  <2>3. outgoingState' \in [Out -> OutgoingCallStates]
    BY <1>4, <2>1 DEF OutgoingSlot
  <2>4. success' \in [Calls -> BOOLEAN] /\ closed' \in [Calls -> BOOLEAN]
    BY <1>2, <1>4 DEF OutgoingSlot
  <2> QED BY <1>4, <2>2, <2>3, <2>4 DEF OutgoingSlot
<1> QED BY <1>1, <1>3, <1>4

LEMMA TypeHandShake ==
    ASSUME TypeOK, NEW c \in Calls, HandShake(c)
    PROVE  TypeOK'
<1> USE CallsAssumption DEF TypeOK, shared, race, Goto, InPcs
<1>1. CASE MissCall(c)
  BY <1>1 DEF MissCall
<1>2. CASE PassBusyCheck(c)
  BY <1>2 DEF PassBusyCheck
<1>3. CASE Ring(c)
  BY <1>3 DEF Ring, SetState, StartRace, ClientStates, CallScreens, TimerStates, HelperStates
<1>4. CASE ExecIncoming(c)
  BY <1>4 DEF ExecIncoming
<1>5. CASE JoinChecker(c)
  BY <1>5 DEF JoinChecker, EndRace, HelperStates
<1>6. CASE AnswerYes(c)
  BY <1>6 DEF AnswerYes
<1>7. CASE BeginIncomingVoice(c)
  BY <1>7 DEF BeginIncomingVoice, SetState, StartVoice, ClientStates, CallScreens, VoiceStates
<1>8. CASE EndIncoming(c)
  BY <1>8 DEF EndIncoming
<1> QED BY <1>1, <1>2, <1>3, <1>4, <1>5, <1>6, <1>7, <1>8 DEF HandShake

LEMMA TypeSendCallRequest ==
    ASSUME TypeOK, NEW c \in Calls, SendCallRequest(c)
    PROVE  TypeOK'
<1> USE CallsAssumption DEF TypeOK, shared, race, Goto, OutPcs
<1>1. CASE OpenStream(c)
  BY <1>1 DEF OpenStream, StartRace, TimerStates, HelperStates
<1>2. CASE ConnectRace(c)
  BY <1>2 DEF ConnectRace
<1>3. CASE ExecOutgoing(c)
  BY <1>3 DEF ExecOutgoing
<1>4. CASE JoinReader(c)
  BY <1>4 DEF JoinReader, EndRace, HelperStates, Responses, OutgoingCallStates
<1>5. CASE AnnounceConversation(c)
  BY <1>5 DEF AnnounceConversation, SetState, ClientStates, CallScreens
<1>6. CASE BeginOutgoingVoice(c)
  BY <1>6 DEF BeginOutgoingVoice, StartVoice, VoiceStates
<1>7. CASE JoinVoice(c)
  BY <1>7 DEF JoinVoice
<1>8. CASE FinishStream(c)
  BY <1>8 DEF FinishStream
<1> QED BY <1>1, <1>2, <1>3, <1>4, <1>5, <1>6, <1>7, <1>8 DEF SendCallRequest

LEMMA TypeFinishAndLookup ==
    ASSUME TypeOK, NEW c \in Calls, FinishCall(c) \/ Lookup(c)
    PROVE  TypeOK'
<1> USE CallsAssumption DEF TypeOK, shared, race, Goto, ClientStates
<1>1. CASE FinishCall(c)
  BY <1>1 DEF FinishCall, SetState, VoiceStates, InPcs, OutPcs
<1>2. CASE LookupSucceeds(c)
  BY <1>2 DEF LookupSucceeds, OutPcs
<1>3. CASE LookupFails(c)
  BY <1>3 DEF LookupFails, SetStateOnGui, OutPcs
<1> QED BY <1>1, <1>2, <1>3 DEF Lookup

LEMMA TypeUser ==
    ASSUME TypeOK, User
    PROVE  TypeOK'
<1> USE DEF TypeOK, shared, race, ClientStates, CallScreens
<1>1. CASE PressSignIn
  BY <1>1 DEF PressSignIn, SetStateOnGui
<1>2. CASE LeaveOnline
  BY <1>2 DEF LeaveOnline, SetStateOnGui
<1>3. CASE PressCancel
  <2>1. slots' \subseteq Slots
    BY <1>3, EmitType DEF PressCancel, Emitters
  <2> QED BY <1>3, <2>1 DEF PressCancel
<1>4. CASE PressDecline
  BY <1>4 DEF PressDecline
<1>5. ASSUME NEW accept \in BOOLEAN, PressAnswer(accept)
      PROVE  TypeOK'
  <2>1. slots' \subseteq Slots
    BY <1>5, EmitType DEF PressAnswer, Emitters
  <2> QED BY <1>5, <2>1 DEF PressAnswer
<1>6. ASSUME NEW c \in Out, PressCall(c)
      PROVE  TypeOK'
  BY <1>6, CallsAssumption DEF PressCall, SetStateOnGui, Goto, OutPcs
<1> QED BY <1>1, <1>2, <1>3, <1>4, <1>5, <1>6 DEF User

LEMMA TypeRemote ==
    ASSUME TypeOK, Remote
    PROVE  TypeOK'
<1>1. PICK c \in Calls : Arrive(c) \/ RemoteEnds(c)
  BY DEF Remote
<1>2. CASE Arrive(c)
  BY <1>2, CallsAssumption DEF Arrive, TypeOK, shared, race, Goto, InPcs
<1>3. CASE RemoteEnds(c)
  BY <1>3 DEF RemoteEnds, TypeOK, shared, race
<1> QED BY <1>1, <1>2, <1>3

LEMMA TypeStep == TypeOK /\ [Next]_vars => TypeOK'
<1> SUFFICES ASSUME TypeOK, [Next]_vars PROVE TypeOK'
  OBVIOUS
<1>1. CASE ShowState
  BY <1>1 DEF ShowState, TypeOK, shared, race
<1>2. CASE UNCHANGED vars
  BY <1>2 DEF vars, TypeOK
<1> QED
  BY <1>1, <1>2, TypeTimer, TypeHelper, TypeVoice, TypeSlot, TypeHandShake,
     TypeSendCallRequest, TypeFinishAndLookup, TypeUser, TypeRemote DEF Next, Program

(* Every variable keeps its type, whatever the sets of calls.              *)
THEOREM TypeCorrect == Spec => []TypeOK
BY TypeInit, TypeStep, PTL DEF Spec

-----------------------------------------------------------------------------
(* What a step may do to the program counters, once and for all.           *)

(* The steps of timers, helpers, voice threads and of the user's buttons,  *)
(* those that start or fail a call apart, leave the program counters.      *)
LEMMA TimerFrame ==
    ASSUME NEW c \in Calls, Timer(c)
    PROVE  /\ UNCHANGED <<clientState, isInConversation, isCanceledStream, clientStream,
                          missedCalls, pc, voice, closed>>
BY DEF Timer, TimerCounts, TimerWakes, TimerFires, TimerResets, shared

LEMMA HelperFrame ==
    ASSUME NEW c \in Calls, Helper(c)
    PROVE  /\ UNCHANGED <<clientState, isInConversation, isCanceledStream, clientStream,
                          missedCalls, pc, voice, closed>>
BY DEF Helper, ReaderReturns, CheckerReturns, HelperEmits, shared

LEMMA VoiceFrame ==
    ASSUME NEW c \in Calls, Voice(c)
    PROVE  UNCHANGED <<clientState, clientStream, missedCalls, pc>>
BY ReadLoopStep DEF Voice, WriteVoiceEnds, WriteVoiceFails, VoiceThreadLeaves,
   VoiceThreadTests, VoiceThreadMarks, VoiceThreadCancels, VoiceThreadQuits, shared

(* A lambda moves at most a race that is running, and only out of its loop.*)
LEMMA SlotFrame ==
    ASSUME TypeOK, Slot
    PROVE  /\ UNCHANGED <<clientState, isInConversation, isCanceledStream, clientStream,
                          missedCalls, voice>>
           /\ \A d \in Calls : closed[d] => closed'[d]
           /\ \A d \in Calls : \/ pc'[d] = pc[d]
                               \/ /\ pc[d] \in {"connecting", "connected", "waiting",
                                                "ringing", "settled"}
                                  /\ pc'[d] = "settled"
<1>1. PICK s \in slots : IncomingSlot(s) \/ OutgoingSlot(s)
  BY DEF Slot
<1>2. /\ pc \in [Calls -> InPcs \cup OutPcs] /\ closed \in [Calls -> BOOLEAN]
      /\ s.to \in Calls
  BY DEF TypeOK, Slots
<1> HIDE DEF Calls
<1>3. CASE IncomingSlot(s)
  BY <1>2, <1>3 DEF IncomingSlot, RaceReturned, shared
<1>4. CASE OutgoingSlot(s)
  BY <1>2, <1>4 DEF OutgoingSlot, RaceReturned, ExitLoop, shared
<1> QED BY <1>1, <1>3, <1>4

-----------------------------------------------------------------------------
(* The call screens.                                                       *)

LEMMA CallScreenStep == TypeOK /\ CallScreenHasCall /\ [Next]_vars => CallScreenHasCall'
<1> SUFFICES ASSUME TypeOK, CallScreenHasCall, [Next]_vars,
                    clientState' \in CallScreens
             PROVE  \E d \in Calls : OwesOnline(d)'
  BY DEF CallScreenHasCall
<1> USE CallsAssumption DEF CallScreens
<1>0. pc \in [Calls -> InPcs \cup OutPcs]
  BY DEF TypeOK
<1>1. SUFFICES ASSUME \A d \in Calls : ~OwesOnline(d)'
               PROVE  FALSE
  OBVIOUS
(* A step that leaves the state alone and releases no call is harmless.    *)
<1>2. ASSUME clientState' = clientState,
             \A d \in Calls : OwesOnline(d) => OwesOnline(d)'
      PROVE  FALSE
  BY <1>1, <1>2 DEF CallScreenHasCall
<1>3. ASSUME NEW c \in Calls, Timer(c) \/ Helper(c) \/ Voice(c)
      PROVE  FALSE
  BY <1>2, <1>3, TimerFrame, HelperFrame, VoiceFrame DEF OwesOnline
<1>4. ASSUME Slot
      PROVE  FALSE
  BY <1>2, <1>4, SlotFrame DEF OwesOnline
<1>5. ASSUME NEW c \in Calls, HandShake(c)
      PROVE  FALSE
  <2>1. CASE MissCall(c) \/ PassBusyCheck(c)
    BY <1>0, <1>2, <2>1 DEF MissCall, PassBusyCheck, Goto, OwesOnline
  <2>2. CASE Ring(c)
    BY <1>0, <1>1, <2>2 DEF Ring, Goto, OwesOnline
  <2>3. CASE ExecIncoming(c) \/ JoinChecker(c)
    BY <1>0, <1>2, <2>3 DEF ExecIncoming, JoinChecker, Goto, OwesOnline
  <2>4. CASE AnswerYes(c) \/ EndIncoming(c)
    BY <1>0, <1>2, <2>4 DEF AnswerYes, EndIncoming, Goto, OwesOnline
  <2>5. CASE BeginIncomingVoice(c)
    BY <1>0, <1>1, <2>5 DEF BeginIncomingVoice, Goto, OwesOnline
  <2> QED BY <1>5, <2>1, <2>2, <2>3, <2>4, <2>5 DEF HandShake
<1>6. ASSUME NEW c \in Calls, SendCallRequest(c)
      PROVE  FALSE
  <2>1. CASE OpenStream(c) \/ ConnectRace(c) \/ ExecOutgoing(c)
    BY <1>0, <1>2, <2>1 DEF OpenStream, ConnectRace, ExecOutgoing, Goto, OwesOnline
  <2>2. CASE JoinReader(c) \/ BeginOutgoingVoice(c)
    BY <1>0, <1>2, <2>2 DEF JoinReader, BeginOutgoingVoice, Goto, OwesOnline
  <2>3. CASE JoinVoice(c) \/ FinishStream(c)
    BY <1>0, <1>2, <2>3 DEF JoinVoice, FinishStream, Goto, OwesOnline
  <2>4. CASE AnnounceConversation(c)
    BY <1>0, <1>1, <2>4 DEF AnnounceConversation, Goto, OwesOnline
  <2> QED BY <1>6, <2>1, <2>2, <2>3, <2>4 DEF SendCallRequest
<1>7. ASSUME NEW c \in Calls, FinishCall(c)
      PROVE  FALSE
  BY <1>7 DEF FinishCall, SetState
<1>8. ASSUME NEW c \in Calls, Lookup(c)
      PROVE  FALSE
  BY <1>0, <1>2, <1>8 DEF Lookup, LookupSucceeds, LookupFails, SetStateOnGui, Goto, OwesOnline
<1>9. ASSUME User
      PROVE  FALSE
  <2>1. CASE PressSignIn \/ LeaveOnline
    BY <2>1 DEF PressSignIn, LeaveOnline, SetStateOnGui
  <2>2. CASE PressCancel \/ PressDecline \/ \E accept \in BOOLEAN : PressAnswer(accept)
    BY <1>2, <2>2 DEF PressCancel, PressDecline, PressAnswer, OwesOnline
  <2>3. ASSUME NEW c \in Out, PressCall(c)
        PROVE  FALSE
    BY <1>0, <1>1, <2>3 DEF PressCall, Goto, OwesOnline
  <2> QED BY <1>9, <2>1, <2>2, <2>3 DEF User
<1>10. ASSUME Remote
       PROVE  FALSE
  BY <1>0, <1>2, <1>10 DEF Remote, Arrive, RemoteEnds, Goto, OwesOnline
<1>11. CASE ShowState
  BY <1>2, <1>11 DEF ShowState, OwesOnline
<1>12. CASE UNCHANGED vars
  BY <1>2, <1>12 DEF vars, OwesOnline
<1> QED
  BY <1>3, <1>4, <1>5, <1>6, <1>7, <1>8, <1>9, <1>10, <1>11, <1>12 DEF Next, Program

(* Whenever the client shows a call, a call thread has still to set it     *)
(* back to Online (HandShake, sendCallRequest).                            *)
THEOREM CallScreenCorrect == Spec => []CallScreenHasCall
<1>1. Init => CallScreenHasCall
  BY DEF Init, CallScreenHasCall, CallScreens
<1> QED BY <1>1, CallScreenStep, TypeCorrect, PTL DEF Spec

-----------------------------------------------------------------------------
(* The busy flag.                                                          *)

LEMMA BusyFlagStep == TypeOK /\ BusyFlagHasConversation /\ [Next]_vars => BusyFlagHasConversation'
<1> SUFFICES ASSUME TypeOK, BusyFlagHasConversation, [Next]_vars, isInConversation',
                    \A d \in Calls : ~HoldsBusyFlag(d)'
             PROVE  FALSE
  BY DEF BusyFlagHasConversation
<1> USE CallsAssumption DEF VoiceEnded
<1>0. /\ pc \in [Calls -> InPcs \cup OutPcs]
      /\ voice \in [Calls -> [VoiceThreads -> VoiceStates]]
  BY DEF TypeOK
<1>1. ASSUME isInConversation' = isInConversation,
             \A d \in Calls : HoldsBusyFlag(d) => HoldsBusyFlag(d)'
      PROVE  FALSE
  BY <1>1 DEF BusyFlagHasConversation
<1>2. ASSUME NEW c \in Calls, Timer(c) \/ Helper(c)
      PROVE  FALSE
  BY <1>1, <1>2, TimerFrame, HelperFrame DEF HoldsBusyFlag
<1>3. ASSUME NEW c \in Calls, Voice(c)
      PROVE  FALSE
  <2>0. CASE ReadLoop(c)
    <3>1. PICK v \in {"loop", "reading", "quitting"} : voice' = [voice EXCEPT ![c]["rd"] = v]
      BY <2>0, ReadLoopStep
    <3>2. \A d \in Calls, u \in VoiceThreads : voice'[d][u] = "done" => voice[d][u] = "done"
      BY <1>0, <3>1
    <3> QED BY <1>1, <2>0, <3>2, ReadLoopStep DEF HoldsBusyFlag, VoiceThreads
  <2>1. CASE WriteVoiceEnds(c) \/ WriteVoiceFails(c)
    BY <1>0, <1>1, <2>1 DEF WriteVoiceEnds, WriteVoiceFails, HoldsBusyFlag,
       VoiceThreads
  <2>2. ASSUME NEW t \in VoiceThreads,
               VoiceThreadTests(c, t) \/ VoiceThreadMarks(c, t) \/ VoiceThreadCancels(c, t)
        PROVE  FALSE
    <3>1. isInConversation' = isInConversation /\ pc' = pc
      BY <2>2 DEF VoiceThreadTests, VoiceThreadMarks, VoiceThreadCancels
    <3>2. PICK v \in {"clearing", "marking", "cancelling"} :
             voice' = [voice EXCEPT ![c][t] = v]
      BY <2>2 DEF VoiceThreadTests, VoiceThreadMarks, VoiceThreadCancels
    <3>3. \A d \in Calls, u \in VoiceThreads : voice'[d][u] = "done" => voice[d][u] = "done"
      BY <1>0, <3>2
    <3> QED BY <1>1, <3>1, <3>3 DEF HoldsBusyFlag, VoiceThreads
  <2>3. CASE \E t \in VoiceThreads : VoiceThreadQuits(c, t)
    BY <2>3 DEF VoiceThreadQuits
  <2> QED BY <1>3, <2>0, <2>1, <2>2, <2>3 DEF Voice, VoiceThreadLeaves
<1>4. ASSUME Slot
      PROVE  FALSE
  BY <1>1, <1>4, SlotFrame DEF HoldsBusyFlag
<1>5. ASSUME NEW c \in Calls, HandShake(c)
      PROVE  FALSE
  <2>1. CASE MissCall(c) \/ PassBusyCheck(c)
    BY <1>0, <1>1, <2>1 DEF MissCall, PassBusyCheck, Goto, race, HoldsBusyFlag
  <2>2. CASE Ring(c) \/ ExecIncoming(c) \/ JoinChecker(c)
    BY <1>0, <1>1, <2>2 DEF Ring, ExecIncoming, JoinChecker, Goto, HoldsBusyFlag
  <2>3. CASE AnswerYes(c)
    BY <1>0, <2>3 DEF AnswerYes, Goto, HoldsBusyFlag
  <2>4. CASE BeginIncomingVoice(c)
    BY <1>0, <2>4 DEF BeginIncomingVoice, Goto, StartVoice, HoldsBusyFlag, VoiceThreads
  <2>5. CASE EndIncoming(c)
    BY <2>5 DEF EndIncoming
  <2> QED BY <1>5, <2>1, <2>2, <2>3, <2>4, <2>5 DEF HandShake
<1>6. ASSUME NEW c \in Calls, SendCallRequest(c)
      PROVE  FALSE
  <2>1. CASE OpenStream(c) \/ ConnectRace(c) \/ ExecOutgoing(c)
    BY <1>0, <1>1, <2>1 DEF OpenStream, ConnectRace, ExecOutgoing, Goto, HoldsBusyFlag
  <2>2. CASE JoinReader(c) \/ AnnounceConversation(c) \/ FinishStream(c)
    BY <1>0, <1>1, <2>2 DEF JoinReader, AnnounceConversation, FinishStream, Goto, HoldsBusyFlag
  <2>3. CASE BeginOutgoingVoice(c)
    BY <1>0, <2>3 DEF BeginOutgoingVoice, Goto, StartVoice, HoldsBusyFlag, VoiceThreads
  <2>4. CASE JoinVoice(c)
    BY <1>0, <1>1, <2>4 DEF JoinVoice, Goto, HoldsBusyFlag
  <2> QED BY <1>6, <2>1, <2>2, <2>3, <2>4 DEF SendCallRequest
<1>7. ASSUME NEW c \in Calls, FinishCall(c) \/ Lookup(c)
      PROVE  FALSE
  BY <1>0, <1>1, <1>7 DEF FinishCall, Lookup, LookupSucceeds, LookupFails, Goto, HoldsBusyFlag
<1>8. ASSUME User
      PROVE  FALSE
  <2>1. CASE PressSignIn \/ LeaveOnline \/ PressCancel
    BY <1>1, <2>1 DEF PressSignIn, LeaveOnline, PressCancel, HoldsBusyFlag
  <2>2. CASE PressDecline
    BY <2>2 DEF PressDecline
  <2>3. CASE \E accept \in BOOLEAN : PressAnswer(accept)
    BY <1>1, <2>3 DEF PressAnswer, HoldsBusyFlag
  <2>4. CASE \E c \in Out : PressCall(c)
    BY <1>0, <1>1, <2>4 DEF PressCall, Goto, HoldsBusyFlag
  <2> QED BY <1>8, <2>1, <2>2, <2>3, <2>4 DEF User
<1>9. ASSUME Remote
      PROVE  FALSE
  BY <1>0, <1>1, <1>9 DEF Remote, Arrive, RemoteEnds, Goto, HoldsBusyFlag
<1>10. CASE ShowState
  BY <1>1, <1>10 DEF ShowState, HoldsBusyFlag
<1>11. CASE UNCHANGED vars
  BY <1>1, <1>11 DEF vars, HoldsBusyFlag
<1> QED
  BY <1>2, <1>3, <1>4, <1>5, <1>6, <1>7, <1>8, <1>9, <1>10, <1>11 DEF Next, Program

(* A client that talks to nobody is not busy (mIsInConversation).          *)
THEOREM BusyFlagCorrect == Spec => []BusyFlagHasConversation
<1>1. Init => BusyFlagHasConversation
  BY DEF Init, BusyFlagHasConversation
<1> QED BY <1>1, BusyFlagStep, TypeCorrect, PTL DEF Spec

-----------------------------------------------------------------------------
(* Voice threads live only while their call is in "voice": it joins them.  *)

VoiceInCall ==
    \A c \in Calls, t \in VoiceThreads : voice[c][t] \notin {"none", "done"} => pc[c] = "voice"

LEMMA VoiceInCallStep == TypeOK /\ VoiceInCall /\ [Next]_vars => VoiceInCall'
<1> SUFFICES ASSUME TypeOK, VoiceInCall, [Next]_vars PROVE VoiceInCall'
  OBVIOUS
<1> USE CallsAssumption DEF VoiceInCall, VoiceEnded, VoiceThreads
<1>0. /\ pc \in [Calls -> InPcs \cup OutPcs]
      /\ voice \in [Calls -> [VoiceThreads -> VoiceStates]]
  BY DEF TypeOK
<1>1. ASSUME NEW c \in Calls, Timer(c) \/ Helper(c)
      PROVE  VoiceInCall'
  BY <1>1, TimerFrame, HelperFrame
<1>2. ASSUME NEW c \in Calls, Voice(c)
      PROVE  VoiceInCall'
  <2>1. pc' = pc
    BY <1>2, VoiceFrame
  <2>2. CASE ReadLoop(c) \/ WriteVoiceEnds(c) \/ WriteVoiceFails(c)
    BY <1>0, <2>1, <2>2, ReadLoopStep DEF WriteVoiceEnds, WriteVoiceFails
  <2>3. ASSUME NEW t \in VoiceThreads, VoiceThreadLeaves(c, t)
        PROVE  VoiceInCall'
    BY <1>0, <2>1, <2>3 DEF VoiceThreadLeaves, VoiceThreadTests, VoiceThreadMarks,
       VoiceThreadCancels, VoiceThreadQuits
  <2> QED BY <1>2, <2>2, <2>3 DEF Voice
<1>3. ASSUME Slot
      PROVE  VoiceInCall'
  BY <1>3, SlotFrame
<1>4. ASSUME NEW c \in Calls, HandShake(c)
      PROVE  VoiceInCall'
  <2>1. CASE MissCall(c) \/ PassBusyCheck(c) \/ Ring(c)
    BY <1>0, <2>1 DEF MissCall, PassBusyCheck, Ring, Goto
  <2>2. CASE ExecIncoming(c) \/ JoinChecker(c) \/ AnswerYes(c)
    BY <1>0, <2>2 DEF ExecIncoming, JoinChecker, AnswerYes, Goto
  <2>3. CASE BeginIncomingVoice(c)
    BY <1>0, <2>3 DEF BeginIncomingVoice, StartVoice, Goto
  <2>4. CASE EndIncoming(c)
    BY <1>0, <2>4 DEF EndIncoming, Goto
  <2> QED BY <1>4, <2>1, <2>2, <2>3, <2>4 DEF HandShake
<1>5. ASSUME NEW c \in Calls, SendCallRequest(c)
      PROVE  VoiceInCall'
  <2>1. CASE OpenStream(c) \/ ConnectRace(c) \/ ExecOutgoing(c)
    BY <1>0, <2>1 DEF OpenStream, ConnectRace, ExecOutgoing, Goto
  <2>2. CASE JoinReader(c) \/ AnnounceConversation(c) \/ FinishStream(c)
    BY <1>0, <2>2 DEF JoinReader, AnnounceConversation, FinishStream, Goto
  <2>3. CASE BeginOutgoingVoice(c)
    BY <1>0, <2>3 DEF BeginOutgoingVoice, StartVoice, Goto
  <2>4. CASE JoinVoice(c)
    BY <1>0, <2>4 DEF JoinVoice, Goto
  <2> QED BY <1>5, <2>1, <2>2, <2>3, <2>4 DEF SendCallRequest
<1>6. ASSUME NEW c \in Calls, FinishCall(c) \/ Lookup(c)
      PROVE  VoiceInCall'
  BY <1>0, <1>6 DEF FinishCall, Lookup, LookupSucceeds, LookupFails, Goto
<1>7. ASSUME User
      PROVE  VoiceInCall'
  <2>1. CASE PressSignIn \/ LeaveOnline \/ PressCancel \/ PressDecline
    BY <2>1 DEF PressSignIn, LeaveOnline, PressCancel, PressDecline
  <2>2. CASE \E accept \in BOOLEAN : PressAnswer(accept)
    BY <2>2 DEF PressAnswer
  <2>3. CASE \E c \in Out : PressCall(c)
    BY <1>0, <2>3 DEF PressCall, Goto
  <2> QED BY <1>7, <2>1, <2>2, <2>3 DEF User
<1>8. ASSUME Remote
      PROVE  VoiceInCall'
  BY <1>0, <1>8 DEF Remote, Arrive, RemoteEnds, Goto
<1>9. CASE ShowState
  BY <1>9 DEF ShowState
<1>10. CASE UNCHANGED vars
  BY <1>10 DEF vars
<1> QED
  BY <1>1, <1>2, <1>3, <1>4, <1>5, <1>6, <1>7, <1>8, <1>9, <1>10 DEF Next, Program

(* sendCallRequest and HandShake join their voice threads before they go   *)
(* on (lines 83-84 and 131-132), so no thread outlives its conversation.   *)
THEOREM VoiceThreadsJoined == Spec => []VoiceInCall
<1>1. Init => VoiceInCall
  BY DEF Init, VoiceInCall
<1> QED BY <1>1, VoiceInCallStep, TypeCorrect, PTL DEF Spec

-----------------------------------------------------------------------------
(* The cancel flag.                                                        *)

LEMMA CancelFlagStep ==
    TypeOK /\ VoiceInCall /\ CancelFlagHasConversation /\ [Next]_vars =>
        CancelFlagHasConversation'
<1> SUFFICES ASSUME TypeOK, VoiceInCall, CancelFlagHasConversation, [Next]_vars, isCanceledStream',
                    \A d \in Out : ~ComesDown(d)'
             PROVE  FALSE
  BY DEF CancelFlagHasConversation
<1> USE CallsAssumption DEF ComesDown
<1>0. /\ pc \in [Calls -> InPcs \cup OutPcs]
      /\ voice \in [Calls -> [VoiceThreads -> VoiceStates]]
  BY DEF TypeOK
<1>1. ASSUME isCanceledStream' = isCanceledStream,
             \A d \in Out : ComesDown(d) => ComesDown(d)'
      PROVE  FALSE
  BY <1>1 DEF CancelFlagHasConversation
<1>2. ASSUME NEW c \in Calls, Timer(c) \/ Helper(c)
      PROVE  FALSE
  BY <1>1, <1>2, TimerFrame, HelperFrame
<1>3. ASSUME NEW c \in Calls, Voice(c)
      PROVE  FALSE
  <2> DEFINE Past(d, t) == voice[d][t] \in {"cancelling", "clearing", "done"}
  <2>0. CASE ReadLoop(c)
    <3>1. PICK v \in {"loop", "reading", "quitting"} : voice' = [voice EXCEPT ![c]["rd"] = v]
      BY <2>0, ReadLoopStep
    <3>2. \A d \in Calls, t \in VoiceThreads : Past(d, t) => Past(d, t)'
      <4>1. voice[c]["rd"] \in {"loop", "reading"}
        BY <2>0, ReadLoopStep
      <4>2. SUFFICES ASSUME NEW d \in Calls, NEW t \in VoiceThreads, Past(d, t)
                     PROVE  voice'[d][t] = voice[d][t]
        OBVIOUS
      <4>3. ~(d = c /\ t = "rd")
        BY <4>1, <4>2
      <4> QED BY <1>0, <3>1, <4>3
    <3> QED BY <1>1, <2>0, <3>2, ReadLoopStep
  <2>1. CASE WriteVoiceEnds(c) \/ WriteVoiceFails(c)
    <3>1. isCanceledStream' = isCanceledStream /\ pc' = pc
      BY <2>1 DEF WriteVoiceEnds, WriteVoiceFails, shared
    <3>2. \A d \in Calls, t \in VoiceThreads : Past(d, t) => Past(d, t)'
      BY <1>0, <2>1 DEF WriteVoiceEnds, WriteVoiceFails, VoiceThreads
    <3> QED BY <1>1, <3>1, <3>2
  <2>2. ASSUME NEW t \in VoiceThreads,
               VoiceThreadTests(c, t) \/ VoiceThreadCancels(c, t) \/ VoiceThreadQuits(c, t)
        PROVE  FALSE
    <3>1. isCanceledStream' = isCanceledStream /\ pc' = pc
      BY <2>2 DEF VoiceThreadTests, VoiceThreadCancels, VoiceThreadQuits, shared
    <3>2. \A d \in Calls, u \in VoiceThreads : Past(d, u) => Past(d, u)'
      BY <1>0, <2>2 DEF VoiceThreadTests, VoiceThreadCancels, VoiceThreadQuits, VoiceThreads
    <3> QED BY <1>1, <3>1, <3>2
  <2>3. ASSUME NEW t \in VoiceThreads, VoiceThreadMarks(c, t)
        PROVE  FALSE
    <3>1. voice'[c][t] = "cancelling" /\ pc'[c] = "voice"
      BY <1>0, <2>3 DEF VoiceThreadMarks, VoiceInCall
    <3>2. c \in Out
      BY <2>3 DEF VoiceThreadMarks
    <3> QED BY <3>1, <3>2
  <2> QED BY <1>3, <2>0, <2>1, <2>2, <2>3 DEF Voice, VoiceThreadLeaves
<1>4. ASSUME Slot
      PROVE  FALSE
  BY <1>1, <1>4, SlotFrame
<1>5. ASSUME NEW c \in Calls, HandShake(c)
      PROVE  FALSE
  <2>1. CASE MissCall(c) \/ PassBusyCheck(c) \/ Ring(c)
    BY <1>0, <1>1, <2>1 DEF MissCall, PassBusyCheck, Ring, Goto, shared, race
  <2>2. CASE ExecIncoming(c) \/ JoinChecker(c) \/ AnswerYes(c)
    BY <1>0, <1>1, <2>2 DEF ExecIncoming, JoinChecker, AnswerYes, Goto, shared
  <2>3. CASE BeginIncomingVoice(c) \/ EndIncoming(c)
    BY <1>0, <1>1, <2>3 DEF BeginIncomingVoice, EndIncoming, StartVoice, Goto, shared
  <2> QED BY <1>5, <2>1, <2>2, <2>3 DEF HandShake
<1>6. ASSUME NEW c \in Calls, SendCallRequest(c)
      PROVE  FALSE
  <2>1. CASE OpenStream(c) \/ ConnectRace(c) \/ ExecOutgoing(c)
    BY <1>0, <1>1, <2>1 DEF OpenStream, ConnectRace, ExecOutgoing, Goto, shared
  <2>2. CASE JoinReader(c) \/ AnnounceConversation(c) \/ FinishStream(c)
    BY <1>0, <1>1, <2>2 DEF JoinReader, AnnounceConversation, FinishStream, Goto, shared
  <2>3. CASE BeginOutgoingVoice(c)
    BY <1>0, <1>1, <2>3 DEF BeginOutgoingVoice, Goto, StartVoice, shared
  <2>4. CASE JoinVoice(c)
    BY <2>4 DEF JoinVoice
  <2> QED BY <1>6, <2>1, <2>2, <2>3, <2>4 DEF SendCallRequest
<1>7. ASSUME NEW c \in Calls, FinishCall(c) \/ Lookup(c)
      PROVE  FALSE
  BY <1>0, <1>1, <1>7 DEF FinishCall, Lookup, LookupSucceeds, LookupFails, Goto, shared
<1>8. ASSUME User
      PROVE  FALSE
  <2>1. CASE PressSignIn \/ LeaveOnline \/ PressCancel \/ PressDecline
    BY <1>1, <2>1 DEF PressSignIn, LeaveOnline, PressCancel, PressDecline, shared
  <2>2. CASE \E accept \in BOOLEAN : PressAnswer(accept)
    BY <1>1, <2>2 DEF PressAnswer, shared
  <2>3. CASE \E c \in Out : PressCall(c)
    BY <1>0, <1>1, <2>3 DEF PressCall, Goto, shared
  <2> QED BY <1>8, <2>1, <2>2, <2>3 DEF User
<1>9. ASSUME Remote
      PROVE  FALSE
  BY <1>0, <1>1, <1>9 DEF Remote, Arrive, RemoteEnds, Goto, shared
<1>10. CASE ShowState
  BY <1>1, <1>10 DEF ShowState, shared
<1>11. CASE UNCHANGED vars
  BY <1>1, <1>11 DEF vars
<1> QED
  BY <1>2, <1>3, <1>4, <1>5, <1>6, <1>7, <1>8, <1>9, <1>10, <1>11 DEF Next, Program

(* mIsCanceledStream is clear when a new conversation begins.              *)
THEOREM CancelFlagCorrect == Spec => []CancelFlagHasConversation
<1>1. Init => CancelFlagHasConversation
  BY DEF Init, CancelFlagHasConversation
<1> QED BY <1>1, CancelFlagStep, TypeCorrect, VoiceThreadsJoined, PTL DEF Spec

-----------------------------------------------------------------------------
(* One outgoing call at a time, as long as no incoming call has rung.      *)

MissedCallsAreOver == \A c \in missedCalls : pc[c] = "done"

(* The outgoing call is alone, and neither the state nor the screen, which *)
(* may lag behind it, offers the call button while it lasts.               *)
OutgoingIsAlone ==
    NoneRang => \A c \in Out : OwesOnline(c) =>
        /\ \A d \in Out : OwesOnline(d) => d = c
        /\ clientState \in CallScreens /\ screen \in CallScreens

AloneInv == MissedCallsAreOver /\ OutgoingIsAlone

(* A call that has rung stays one.                                         *)
LEMMA RungForGood ==
    ASSUME TypeOK, MissedCallsAreOver, [Next]_vars
    PROVE  MissedCallsAreOver' /\ (NoneRang' => NoneRang)
<1> USE CallsAssumption DEF MissedCallsAreOver
<1> DEFINE Kept == /\ \A c \in missedCalls : c \in missedCalls' /\ pc'[c] = "done"
                   /\ \A c \in missedCalls' : c \in missedCalls \/ pc'[c] = "done"
                   /\ \A c \in In : HasRung(c) => HasRung(c)'
<1>0. pc \in [Calls -> InPcs \cup OutPcs] /\ missedCalls \subseteq In
  BY DEF TypeOK
<1>1. SUFFICES Kept
  BY DEF NoneRang
<1>2. ASSUME UNCHANGED <<pc, missedCalls>> PROVE Kept
  BY <1>2 DEF HasRung
<1>3. ASSUME NEW c \in Calls, Timer(c) \/ Helper(c) \/ Voice(c)
      PROVE  Kept
  BY <1>2, <1>3, TimerFrame, HelperFrame, VoiceFrame
<1>4. ASSUME Slot
      PROVE  Kept
  BY <1>4, <1>0, SlotFrame DEF HasRung
<1>5. ASSUME NEW c \in Calls, HandShake(c)
      PROVE  Kept
  <2>1. CASE MissCall(c)
    BY <1>0, <2>1 DEF MissCall, Goto, HasRung
  <2>2. CASE PassBusyCheck(c) \/ Ring(c)
    BY <1>0, <2>2 DEF PassBusyCheck, Ring, Goto, HasRung, shared
  <2>3. CASE ExecIncoming(c) \/ JoinChecker(c) \/ AnswerYes(c)
    BY <1>0, <2>3 DEF ExecIncoming, JoinChecker, AnswerYes, Goto, HasRung, shared
  <2>4. CASE BeginIncomingVoice(c) \/ EndIncoming(c)
    BY <1>0, <2>4 DEF BeginIncomingVoice, EndIncoming, Goto, HasRung, shared
  <2> QED BY <1>5, <2>1, <2>2, <2>3, <2>4 DEF HandShake
<1>6. ASSUME NEW c \in Calls, SendCallRequest(c)
      PROVE  Kept
  <2>1. CASE OpenStream(c) \/ ConnectRace(c) \/ ExecOutgoing(c)
    BY <1>0, <2>1 DEF OpenStream, ConnectRace, ExecOutgoing, Goto, HasRung, shared
  <2>2. CASE JoinReader(c) \/ AnnounceConversation(c) \/ FinishStream(c)
    BY <1>0, <2>2 DEF JoinReader, AnnounceConversation, FinishStream, Goto, HasRung, shared
  <2>3. CASE BeginOutgoingVoice(c) \/ JoinVoice(c)
    BY <1>0, <2>3 DEF BeginOutgoingVoice, JoinVoice, Goto, HasRung, shared
  <2> QED BY <1>6, <2>1, <2>2, <2>3 DEF SendCallRequest
<1>7. ASSUME NEW c \in Calls, FinishCall(c) \/ Lookup(c)
      PROVE  Kept
  BY <1>0, <1>7 DEF FinishCall, Lookup, LookupSucceeds, LookupFails, Goto, HasRung, shared
<1>8. ASSUME User
      PROVE  Kept
  <2>1. CASE PressSignIn \/ LeaveOnline \/ PressCancel \/ PressDecline
    BY <1>2, <2>1 DEF PressSignIn, LeaveOnline, PressCancel, PressDecline, shared
  <2>2. CASE \E accept \in BOOLEAN : PressAnswer(accept)
    BY <1>2, <2>2 DEF PressAnswer, shared
  <2>3. CASE \E c \in Out : PressCall(c)
    BY <1>0, <2>3 DEF PressCall, Goto, HasRung, shared
  <2> QED BY <1>8, <2>1, <2>2, <2>3 DEF User
<1>9. ASSUME Remote
      PROVE  Kept
  BY <1>0, <1>9 DEF Remote, Arrive, RemoteEnds, Goto, HasRung, shared
<1>10. CASE ShowState
  BY <1>2, <1>10 DEF ShowState, shared
<1>11. CASE UNCHANGED vars
  BY <1>2, <1>11 DEF vars
<1> HIDE DEF Kept
<1> QED
  BY <1>3, <1>4, <1>5, <1>6, <1>7, <1>8, <1>9, <1>10, <1>11 DEF Next, Program

(* While nobody has rung, no incoming call is past its busy check.         *)
LEMMA QuietHandShake ==
    ASSUME TypeOK, MissedCallsAreOver, NoneRang, NEW c \in In
    PROVE  pc[c] \in {"none", "arrived", "passed", "done"}
BY DEF TypeOK, MissedCallsAreOver, NoneRang, HasRung

LEMMA AloneStep == TypeOK /\ AloneInv /\ [Next]_vars => AloneInv'
<1> SUFFICES ASSUME TypeOK, AloneInv, [Next]_vars, NoneRang'
             PROVE  \A c \in Out : OwesOnline(c)' =>
                        /\ \A d \in Out : OwesOnline(d)' => d = c
                        /\ clientState' \in CallScreens /\ screen' \in CallScreens
  BY RungForGood DEF AloneInv, OutgoingIsAlone
<1> USE CallsAssumption
<1> DEFINE Alone == \A c \in Out : OwesOnline(c)' =>
                        /\ \A d \in Out : OwesOnline(d)' => d = c
                        /\ clientState' \in CallScreens /\ screen' \in CallScreens
<1>0. pc \in [Calls -> InPcs \cup OutPcs]
  BY DEF TypeOK
<1>1. /\ NoneRang /\ MissedCallsAreOver
      /\ \A c \in Out : OwesOnline(c) =>
            /\ \A d \in Out : OwesOnline(d) => d = c
            /\ clientState \in CallScreens /\ screen \in CallScreens
  BY RungForGood DEF AloneInv, OutgoingIsAlone
<1>2. \A c \in In : pc[c] \in {"none", "arrived", "passed", "done"}
  BY <1>1, QuietHandShake
(* A step that starts no call and leaves the screen and the state to calls.*)
<1>3. ASSUME \A c \in Out : OwesOnline(c)' => OwesOnline(c),
             clientState' = clientState \/ clientState' \in CallScreens,
             screen' = screen \/ screen' = clientState
      PROVE  Alone
  BY <1>1, <1>3
<1>4. ASSUME NEW c \in Calls, Timer(c) \/ Helper(c) \/ Voice(c)
      PROVE  Alone
  <2>1. screen' = screen
    BY <1>4, ReadLoopStep DEF Timer, TimerCounts, TimerWakes, TimerFires, TimerResets, Helper, ReaderReturns,
         CheckerReturns, HelperEmits, Voice, WriteVoiceEnds, WriteVoiceFails,
         VoiceThreadLeaves, VoiceThreadTests, VoiceThreadMarks, VoiceThreadCancels, VoiceThreadQuits
  <2> QED BY <1>3, <1>4, <2>1, TimerFrame, HelperFrame, VoiceFrame DEF OwesOnline
<1>5. ASSUME Slot
      PROVE  Alone
  <2>1. screen' = screen
    BY <1>5 DEF Slot, IncomingSlot, OutgoingSlot
  <2> QED BY <1>3, <1>5, <2>1, SlotFrame DEF OwesOnline
<1>6. ASSUME NEW c \in Calls, HandShake(c)
      PROVE  Alone
  <2>0. c \in In
    BY <1>6 DEF HandShake, MissCall, PassBusyCheck, Ring, ExecIncoming, JoinChecker, AnswerYes,
         BeginIncomingVoice, EndIncoming
  <2>1. CASE MissCall(c) \/ PassBusyCheck(c)
    BY <1>0, <1>3, <2>0, <2>1 DEF MissCall, PassBusyCheck, Goto, OwesOnline
  <2>2. CASE Ring(c)
    BY <1>0, <1>3, <2>0, <2>2 DEF Ring, SetState, Goto, OwesOnline, CallScreens
  <2>3. CASE ExecIncoming(c) \/ JoinChecker(c) \/ AnswerYes(c)
    BY <1>2, <2>0, <2>3 DEF ExecIncoming, JoinChecker, AnswerYes, Goto
  <2>4. CASE BeginIncomingVoice(c) \/ EndIncoming(c)
    BY <1>2, <2>0, <2>4 DEF BeginIncomingVoice, EndIncoming, Goto
  <2> QED BY <1>6, <2>1, <2>2, <2>3, <2>4 DEF HandShake
<1>7. ASSUME NEW c \in Calls, SendCallRequest(c)
      PROVE  Alone
  <2>1. CASE OpenStream(c) \/ ConnectRace(c) \/ ExecOutgoing(c)
    BY <1>0, <1>3, <2>1 DEF OpenStream, ConnectRace, ExecOutgoing, Goto, OwesOnline
  <2>2. CASE JoinReader(c) \/ FinishStream(c) \/ JoinVoice(c)
    BY <1>0, <1>3, <2>2 DEF JoinReader, JoinVoice, FinishStream, Goto, OwesOnline
  <2>3. CASE AnnounceConversation(c) \/ BeginOutgoingVoice(c)
    BY <1>0, <1>3, <2>3 DEF AnnounceConversation, BeginOutgoingVoice, SetState, Goto, OwesOnline,
         CallScreens
  <2> QED BY <1>7, <2>1, <2>2, <2>3 DEF SendCallRequest
<1>8. ASSUME NEW c \in Calls, FinishCall(c)
      PROVE  Alone
  <2>1. c \in Out /\ OwesOnline(c)
    BY <1>2, <1>8 DEF FinishCall, Goto, OwesOnline
  <2>2. \A d \in Out : ~OwesOnline(d)'
    BY <1>0, <1>1, <1>8, <2>1 DEF FinishCall, Goto, OwesOnline
  <2> QED BY <2>2
<1>9. ASSUME NEW c \in Calls, Lookup(c)
      PROVE  Alone
  <2>1. CASE LookupSucceeds(c)
    BY <1>0, <1>3, <2>1 DEF LookupSucceeds, Goto, OwesOnline
  <2>2. CASE LookupFails(c)
    <3>1. c \in Out /\ OwesOnline(c)
      BY <2>2 DEF LookupFails, Goto, OwesOnline
    <3>2. \A d \in Out : ~OwesOnline(d)'
      BY <1>0, <1>1, <2>2, <3>1 DEF LookupFails, Goto, OwesOnline
    <3> QED BY <3>2
  <2> QED BY <1>9, <2>1, <2>2 DEF Lookup
<1>10. ASSUME User
       PROVE  Alone
  <2>1. CASE PressSignIn \/ LeaveOnline
    BY <1>1, <2>1 DEF PressSignIn, LeaveOnline, Press, SetStateOnGui, OwesOnline, CallScreens
  <2>2. CASE PressCancel \/ PressDecline \/ \E accept \in BOOLEAN : PressAnswer(accept)
    BY <1>3, <2>2 DEF PressCancel, PressDecline, PressAnswer, OwesOnline
  <2>3. ASSUME NEW c \in Out, PressCall(c)
        PROVE  Alone
    <3>1. \A d \in Out : ~OwesOnline(d)
      BY <1>1, <2>3 DEF PressCall, Press, CallScreens
    <3>2. \A d \in Out : OwesOnline(d)' => d = c
      BY <1>0, <2>3, <3>1 DEF PressCall, Goto, OwesOnline
    <3> QED BY <2>3, <3>2 DEF PressCall, SetStateOnGui, CallScreens
  <2> QED BY <1>10, <2>1, <2>2, <2>3 DEF User
<1>11. ASSUME Remote
       PROVE  Alone
  BY <1>0, <1>3, <1>11 DEF Remote, Arrive, RemoteEnds, Goto, OwesOnline
<1>12. ASSUME ShowState
       PROVE  Alone
  BY <1>3, <1>12 DEF ShowState, OwesOnline
<1>13. ASSUME UNCHANGED vars
       PROVE  Alone
  BY <1>3, <1>13 DEF vars, OwesOnline
<1>14. Alone
  <2> HIDE DEF Alone
  <2> QED BY <1>4, <1>5, <1>6, <1>7, <1>8, <1>9, <1>10, <1>11, <1>12, <1>13 DEF Next, Program
<1> QED BY <1>14

(* Until somebody rings, the stream in mClientStream is the one the active *)
(* outgoing call opened.                                                   *)
LEMMA StreamStep == TypeOK /\ AloneInv /\ StreamIsOwn /\ [Next]_vars => StreamIsOwn'
<1> SUFFICES ASSUME TypeOK, AloneInv, StreamIsOwn, [Next]_vars, NoneRang',
                    NEW c \in Out, HasStream(c)'
             PROVE  clientStream' = c
  BY DEF StreamIsOwn
<1> USE CallsAssumption
<1>0. /\ pc \in [Calls -> InPcs \cup OutPcs]
      /\ NoneRang
  BY RungForGood DEF TypeOK, AloneInv
<1>1. HasStream(c) => clientStream = c
  BY <1>0 DEF StreamIsOwn
<1>2. ASSUME clientStream' = clientStream, HasStream(c)
      PROVE  clientStream' = c
  BY <1>1, <1>2
<1>3. ASSUME NEW d \in Calls, Timer(d) \/ Helper(d) \/ Voice(d)
      PROVE  clientStream' = c
  BY <1>2, <1>3, TimerFrame, HelperFrame, VoiceFrame DEF HasStream
<1>4. ASSUME Slot
      PROVE  clientStream' = c
  BY <1>2, <1>4, SlotFrame DEF HasStream
<1>5. ASSUME NEW d \in Calls, HandShake(d)
      PROVE  clientStream' = c
  <2>1. clientStream' = clientStream /\ d \in In
    BY <1>5 DEF HandShake, MissCall, PassBusyCheck, Ring, ExecIncoming, JoinChecker, AnswerYes,
         BeginIncomingVoice, EndIncoming, shared
  <2>2. pc'[c] = pc[c]
    BY <1>0, <1>5, <2>1 DEF HandShake, MissCall, PassBusyCheck, Ring, ExecIncoming, JoinChecker,
         AnswerYes, BeginIncomingVoice, EndIncoming, Goto
  <2> QED BY <1>2, <2>1, <2>2 DEF HasStream
<1>6. ASSUME NEW d \in Calls, SendCallRequest(d)
      PROVE  clientStream' = c
  <2>1. CASE OpenStream(d) /\ d # c
    <3>1. pc[d] = "spawned" /\ pc'[c] = pc[c] /\ d \in Out
      BY <1>0, <2>1 DEF OpenStream, Goto
    <3>2. OwesOnline(c) /\ OwesOnline(d)
      BY <3>1 DEF OwesOnline, HasStream
    <3> QED BY <1>0, <2>1, <3>1, <3>2 DEF AloneInv, OutgoingIsAlone
  <2>2. CASE OpenStream(d) /\ d = c
    BY <2>2 DEF OpenStream
  <2>3. CASE ConnectRace(d) \/ ExecOutgoing(d) \/ JoinReader(d) \/ JoinVoice(d)
    BY <1>0, <1>2, <2>3 DEF ConnectRace, ExecOutgoing, JoinReader, JoinVoice, Goto, HasStream, shared
  <2>4. CASE AnnounceConversation(d) \/ BeginOutgoingVoice(d) \/ FinishStream(d)
    BY <1>0, <1>2, <2>4 DEF AnnounceConversation, BeginOutgoingVoice, FinishStream, Goto, HasStream,
       shared
  <2> QED BY <1>6, <2>1, <2>2, <2>3, <2>4 DEF SendCallRequest
<1>7. ASSUME NEW d \in Calls, FinishCall(d) \/ Lookup(d)
      PROVE  clientStream' = c
  BY <1>0, <1>2, <1>7 DEF FinishCall, Lookup, LookupSucceeds, LookupFails, Goto, HasStream, shared
<1>8. ASSUME User
      PROVE  clientStream' = c
  <2>1. CASE PressSignIn \/ LeaveOnline \/ PressCancel \/ PressDecline
    BY <1>2, <2>1 DEF PressSignIn, LeaveOnline, PressCancel, PressDecline, HasStream, shared
  <2>2. CASE \E accept \in BOOLEAN : PressAnswer(accept)
    BY <1>2, <2>2 DEF PressAnswer, HasStream, shared
  <2>3. CASE \E d \in Out : PressCall(d)
    BY <1>0, <1>2, <2>3 DEF PressCall, Goto, HasStream, shared
  <2> QED BY <1>8, <2>1, <2>2, <2>3 DEF User
<1>9. ASSUME Remote
      PROVE  clientStream' = c
  BY <1>0, <1>2, <1>9 DEF Remote, Arrive, RemoteEnds, Goto, HasStream, shared
<1>10. CASE ShowState
  BY <1>2, <1>10 DEF ShowState, HasStream, shared
<1>11. CASE UNCHANGED vars
  BY <1>2, <1>11 DEF vars, HasStream
<1> QED
  BY <1>3, <1>4, <1>5, <1>6, <1>7, <1>8, <1>9, <1>10, <1>11 DEF Next, Program

(* The two voice threads of the only outgoing conversation cancel it: once *)
(* the flag is set or a thread is past the cancel, the stream is closed or *)
(* some thread is about to close it.                                       *)
Covered(c) == closed[c] \/ \E t \in VoiceThreads : voice[c][t] = "cancelling"

CancelIsUnderWay ==
    NoneRang => \A c \in Out :
        /\ pc[c] = "voice"
        /\ isCanceledStream \/ \E t \in VoiceThreads : voice[c][t] \in {"clearing", "done"}
        => Covered(c)

LEMMA CancelStep ==
    /\ TypeOK /\ VoiceInCall /\ CancelFlagHasConversation
    /\ AloneInv /\ StreamIsOwn /\ CancelIsUnderWay /\ [Next]_vars
    => CancelIsUnderWay'
<1> DEFINE Due(d) == /\ pc[d] = "voice"
                     /\ isCanceledStream \/ \E t \in VoiceThreads : voice[d][t] \in {"clearing", "done"}
<1> SUFFICES ASSUME TypeOK, VoiceInCall, CancelFlagHasConversation, AloneInv, StreamIsOwn,
                    CancelIsUnderWay, [Next]_vars, NoneRang',
                    NEW c \in Out, Due(c)'
             PROVE  Covered(c)'
  BY DEF CancelIsUnderWay
<1> USE CallsAssumption DEF Covered
<1>0. /\ pc \in [Calls -> InPcs \cup OutPcs]
      /\ voice \in [Calls -> [VoiceThreads -> VoiceStates]]
      /\ closed \in [Calls -> BOOLEAN]
      /\ NoneRang
  BY RungForGood DEF TypeOK, AloneInv
<1>1. Due(c) => Covered(c)
  BY <1>0 DEF CancelIsUnderWay
<1>2. ASSUME pc[c] = "voice", isCanceledStream' => isCanceledStream,
             voice'[c] = voice[c], closed[c] => closed'[c]
      PROVE  Covered(c)'
  BY <1>1, <1>2
<1>3. ASSUME NEW d \in Calls, Timer(d) \/ Helper(d)
      PROVE  Covered(c)'
  BY <1>2, <1>3, TimerFrame, HelperFrame
<1>4. ASSUME NEW d \in Calls, Voice(d)
      PROVE  Covered(c)'
  <2>1. pc' = pc /\ pc[c] = "voice"
    BY <1>4, VoiceFrame
  <2>2. CASE ReadLoop(d) \/ WriteVoiceEnds(d)
    <3>1. closed' = closed /\ isCanceledStream' = isCanceledStream
      BY <2>2, ReadLoopStep DEF WriteVoiceEnds, shared
    <3>2. \A t \in VoiceThreads :
             /\ voice'[c][t] \in {"clearing", "done"} => voice[c][t] = voice'[c][t]
             /\ voice[c][t] = "cancelling" => voice'[c][t] = "cancelling"
      BY <1>0, <2>2, ReadLoopStep DEF WriteVoiceEnds, VoiceThreads
    <3> QED BY <1>1, <2>1, <3>1, <3>2
  <2>3. CASE WriteVoiceFails(d)
    <3>1. CASE d = c
      BY <1>0, <2>1, <2>3, <3>1 DEF WriteVoiceFails, MayFail, OwnStream, Replaced,
         StreamIsOwn, HasStream
    <3>2. CASE d # c
      BY <1>0, <1>2, <2>1, <2>3, <3>2 DEF WriteVoiceFails, shared
    <3> QED BY <3>1, <3>2
  <2>4. ASSUME NEW t \in VoiceThreads, VoiceThreadTests(d, t)
        PROVE  Covered(c)'
    <3>1. closed' = closed /\ isCanceledStream' = isCanceledStream
      BY <2>4 DEF VoiceThreadTests, shared
    <3>2. \A u \in VoiceThreads : voice[c][u] = "cancelling" => voice'[c][u] = "cancelling"
      BY <1>0, <2>4 DEF VoiceThreadTests
    <3>3. CASE isCanceledStream
      BY <1>1, <2>1, <3>1, <3>2, <3>3
    <3>4. CASE ~isCanceledStream
      <4>1. \A u \in VoiceThreads :
               voice'[c][u] \in {"clearing", "done"} => voice[c][u] = voice'[c][u]
        BY <1>0, <2>4, <3>4 DEF VoiceThreadTests
      <4> QED BY <1>1, <2>1, <3>1, <3>2, <4>1
    <3> QED BY <3>3, <3>4
  <2>5. ASSUME NEW t \in VoiceThreads, VoiceThreadMarks(d, t)
        PROVE  Covered(c)'
    <3>1. d \in Out /\ pc[d] = "voice"
      BY <2>5 DEF VoiceThreadMarks, VoiceInCall
    <3>2. d = c
      BY <1>0, <2>1, <3>1 DEF AloneInv, OutgoingIsAlone, OwesOnline
    <3> QED BY <1>0, <2>5, <3>2 DEF VoiceThreadMarks
  <2>6. ASSUME NEW t \in VoiceThreads, VoiceThreadCancels(d, t)
        PROVE  Covered(c)'
    <3>1. CASE d = c
      BY <1>0, <2>6, <3>1 DEF VoiceThreadCancels
    <3>2. CASE d # c
      BY <1>0, <1>2, <2>1, <2>6, <3>2 DEF VoiceThreadCancels, shared
    <3> QED BY <3>1, <3>2
  <2>7. ASSUME NEW t \in VoiceThreads, VoiceThreadQuits(d, t)
        PROVE  Covered(c)'
    <3>1. closed' = closed /\ isCanceledStream' = isCanceledStream
      BY <2>7 DEF VoiceThreadQuits, shared
    <3>2. \A u \in VoiceThreads :
             /\ voice'[c][u] \in {"clearing", "done"} => voice[c][u] \in {"clearing", "done"}
             /\ voice[c][u] = "cancelling" => voice'[c][u] = "cancelling"
      BY <1>0, <2>7 DEF VoiceThreadQuits
    <3> QED BY <1>1, <2>1, <3>1, <3>2
  <2> QED BY <1>4, <2>2, <2>3, <2>4, <2>5, <2>6, <2>7 DEF Voice, VoiceThreadLeaves
<1>5. ASSUME Slot
      PROVE  Covered(c)'
  BY <1>2, <1>5, SlotFrame
<1>6. ASSUME NEW d \in Calls, HandShake(d)
      PROVE  Covered(c)'
  <2>1. d \in In
    BY <1>6 DEF HandShake, MissCall, PassBusyCheck, Ring, ExecIncoming, JoinChecker, AnswerYes,
         BeginIncomingVoice, EndIncoming
  <2>2. /\ pc'[c] = pc[c] /\ voice'[c] = voice[c] /\ closed'[c] = closed[c]
        /\ isCanceledStream' = isCanceledStream
    BY <1>0, <1>6, <2>1 DEF HandShake, MissCall, PassBusyCheck, Ring, ExecIncoming, JoinChecker,
         AnswerYes, BeginIncomingVoice, StartVoice, EndIncoming, Goto, shared
  <2> QED BY <1>2, <2>2
<1>7. ASSUME NEW d \in Calls, SendCallRequest(d)
      PROVE  Covered(c)'
  <2>1. CASE BeginOutgoingVoice(d)
    <3>1. CASE d # c
      BY <1>0, <1>2, <2>1, <3>1 DEF BeginOutgoingVoice, StartVoice, Goto, shared
    <3>2. CASE d = c
      <4>1. pc[c] = "announced" /\ isCanceledStream' = isCanceledStream
        BY <2>1, <3>2 DEF BeginOutgoingVoice, Goto, shared
      <4>2. \A t \in VoiceThreads : voice'[c][t] = "loop"
        BY <1>0, <2>1, <3>2 DEF BeginOutgoingVoice, StartVoice
      <4>3. ~isCanceledStream
        BY <1>0, <4>1 DEF CancelFlagHasConversation, ComesDown, AloneInv, OutgoingIsAlone, OwesOnline
      <4> QED BY <4>1, <4>2, <4>3
    <3> QED BY <3>1, <3>2
  <2>2. CASE OpenStream(d) \/ ConnectRace(d) \/ ExecOutgoing(d) \/ JoinReader(d)
    BY <1>0, <1>2, <2>2 DEF OpenStream, ConnectRace, ExecOutgoing, JoinReader, Goto, shared
  <2>3. CASE AnnounceConversation(d) \/ JoinVoice(d) \/ FinishStream(d)
    BY <1>0, <1>2, <2>3 DEF AnnounceConversation, JoinVoice, FinishStream, Goto, shared
  <2> QED BY <1>7, <2>1, <2>2, <2>3 DEF SendCallRequest
<1>8. ASSUME NEW d \in Calls, FinishCall(d) \/ Lookup(d)
      PROVE  Covered(c)'
  BY <1>0, <1>2, <1>8 DEF FinishCall, Lookup, LookupSucceeds, LookupFails, Goto, shared
<1>9. ASSUME User
      PROVE  Covered(c)'
  <2>1. CASE PressSignIn \/ LeaveOnline \/ PressCancel \/ PressDecline
    BY <1>2, <2>1 DEF PressSignIn, LeaveOnline, PressCancel, PressDecline, shared
  <2>2. CASE \E accept \in BOOLEAN : PressAnswer(accept)
    BY <1>2, <2>2 DEF PressAnswer, shared
  <2>3. CASE \E d \in Out : PressCall(d)
    BY <1>0, <1>2, <2>3 DEF PressCall, Goto, shared
  <2> QED BY <1>9, <2>1, <2>2, <2>3 DEF User
<1>10. ASSUME Remote
       PROVE  Covered(c)'
  BY <1>0, <1>2, <1>10 DEF Remote, Arrive, RemoteEnds, Goto, shared
<1>11. CASE ShowState
  BY <1>2, <1>11 DEF ShowState, shared
<1>12. CASE UNCHANGED vars
  BY <1>2, <1>12 DEF vars
<1> QED
  BY <1>3, <1>4, <1>5, <1>6, <1>7, <1>8, <1>9, <1>10, <1>11, <1>12 DEF Next, Program

LEMMA AloneCorrect == Spec => []AloneInv
<1>1. Init => AloneInv
  BY DEF Init, AloneInv, MissedCallsAreOver, OutgoingIsAlone, OwesOnline
<1> QED BY <1>1, AloneStep, TypeCorrect, PTL DEF Spec

(* mClientStream is not replaced under an outgoing call before an incoming *)
(* call has rung (lines 57-63).                                            *)
THEOREM StreamCorrect == Spec => []StreamIsOwn
<1>1. Init => StreamIsOwn
  BY DEF Init, StreamIsOwn, HasStream
<1> QED BY <1>1, StreamStep, AloneCorrect, TypeCorrect, PTL DEF Spec

(* Until then, when both voice threads of an outgoing conversation have    *)
(* ended, one of them has cancelled the stream or found it dead, so the    *)
(* call's Finish returns (lines 156-160, 171-187, 83-86).                  *)
THEOREM HangUpCorrect == Spec => []HangUpReachesPeer
<1>1. Init => CancelIsUnderWay
  BY DEF Init, CancelIsUnderWay
<1>2. TypeOK /\ CancelIsUnderWay => HangUpReachesPeer
  BY DEF CancelIsUnderWay, HangUpReachesPeer, Covered, VoiceEnded, VoiceThreads
<1> QED
  BY <1>1, <1>2, CancelStep, StreamCorrect, AloneCorrect, CancelFlagCorrect, VoiceThreadsJoined,
     TypeCorrect, PTL DEF Spec

=============================================================================
