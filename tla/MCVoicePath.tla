----------------------------- MODULE MCVoicePath ----------------------------
(***************************************************************************)
(* Instances of VoicePath small enough for TLC.                            *)
(***************************************************************************)
EXTENDS VoicePath, TLC

CONSTANTS
    MaxSamples,       \* bound: the samples recorded and sent
    MaxOverlapping    \* bound: the same once conversations have overlapped

Symmetry == Permutations(Calls)

(* Once conversations have overlapped, the order of what is heard is not   *)
(* promised any more; what is left to see needs few samples.               *)
Bounded ==
    /\ sendPos <= IF overlapped THEN 2 * MaxOverlapping ELSE MaxSamples
    /\ writePos <= IF overlapped THEN MaxOverlapping ELSE MaxSamples
    /\ overlapped => readyToRead < MaxOverlapping
=============================================================================
