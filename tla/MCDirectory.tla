----------------------------- MODULE MCDirectory ----------------------------
(* Instances of Directory small enough for TLC.                            *)
EXTENDS Directory, TLC

Symmetry == Permutations(Streams) \cup Permutations(UserNames)
=============================================================================
