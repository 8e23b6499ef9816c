------------------------------- MODULE Player -------------------------------
(***************************************************************************)
(* The loudspeaker's ring (Tools/Sources/player.cpp) and AudioReader,      *)
(* which fills it: the voice threads of the calls push what they receive,  *)
(* the player's thread reads sample after sample.  Nothing is locked.      *)
(***************************************************************************)
EXTENDS Conversations

CONSTANTS
    PlayBuffSize   \* mBuffSize of the player, in samples

ASSUME PlayerAssumption == PlayBuffSize \in Nat \ {0}

VARIABLES
    playBuff,      \* the samples in mBuff
    readyToRead,   \* mBufReadyToRead
    readPos,       \* mBufReadPos
    pushing,       \* of each call: what pushDataToBuff has still to push, the
                   \* position it read, how much it has copied there
    heard          \* everything the loudspeaker was given

playVars == <<playBuff, readyToRead, readPos, pushing, heard>>

NotPushing == [rest |-> <<>>, at |-> 0, part |-> 0]

PlayInit ==
    /\ playBuff = [i \in 0 .. PlayBuffSize - 1 |-> Noise]
    /\ readyToRead = 0 /\ readPos = 0
    /\ pushing = [c \in Calls |-> NotPushing]
    /\ heard = <<>>

-----------------------------------------------------------------------------
Push(c, samples) ==
    /\ pushing[c] = NotPushing
    /\ pushing' = [pushing EXCEPT ![c].rest = samples]
    /\ UNCHANGED <<playBuff, readyToRead, readPos, heard>>

(* Mutant: the split at the ring's end is off by one.                      *)
PartSizeOneLess(c) ==
    LET remaining == PlayBuffSize - 1 - (readyToRead % PlayBuffSize)
    IN  IF remaining \in 1 .. Len(pushing[c].rest) THEN remaining ELSE Len(pushing[c].rest)

(* pushDataToBuff calls itself for each part up to the ring's end.         *)
PartSize(c) ==
    LET remaining == PlayBuffSize - (readyToRead % PlayBuffSize)
    IN  IF remaining < Len(pushing[c].rest) THEN remaining ELSE Len(pushing[c].rest)

(* memcpy of a part: nothing keeps it from what was not played yet.        *)
StorePart(c) ==
    /\ pushing[c].rest # <<>> /\ pushing[c].part = 0
    /\ LET start == readyToRead % PlayBuffSize
           size == PartSize(c)
       IN  /\ playBuff' = [i \in DOMAIN playBuff |->
                              IF i \in start .. start + size - 1
                              THEN pushing[c].rest[i - start + 1] ELSE playBuff[i]]
           /\ pushing' = [pushing EXCEPT ![c].at = readyToRead, ![c].part = size]
    /\ UNCHANGED <<readyToRead, readPos, heard>>

(* `+=' on a position that two calls share: either may lose its update.    *)
AdvanceReady(c) ==
    /\ pushing[c].part > 0
    /\ readyToRead' \in {readyToRead + pushing[c].part, pushing[c].at + pushing[c].part}
    /\ pushing' = [pushing EXCEPT ![c] =
                      [NotPushing EXCEPT !.rest = SubSeq(pushing[c].rest, pushing[c].part + 1,
                                                         Len(pushing[c].rest))]]
    /\ UNCHANGED <<playBuff, readPos, heard>>

(* One round of readData's loop.                                           *)
PlaySample ==
    /\ readyToRead > readPos
    /\ heard' = Append(heard, playBuff[readPos % PlayBuffSize])
    /\ readPos' = readPos + 1
    /\ UNCHANGED <<playBuff, readyToRead, pushing>>

ReadAudio(c) == StorePart(c) \/ AdvanceReady(c)
=============================================================================
