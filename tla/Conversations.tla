---------------------------- MODULE Conversations ---------------------------
(***************************************************************************)
(* What the microphone's and the loudspeaker's side of a conversation      *)
(* share.  The unit of voice is the 16-bit sample (RECORDING_BYTES and     *)
(* PLAYING_BYTES); samples are numbered in the order they are recorded.    *)
(***************************************************************************)
EXTENDS Integers, Sequences

CONSTANTS
    Calls,        \* the conversations
    PacketSize    \* mPacketSize of AudioWriter and AudioReader, in samples

ASSUME PacketAssumption == PacketSize \in Nat \ {0}

(* What memory holds that nobody wrote, inside a ring or past its end.     *)
Noise == -1
=============================================================================
