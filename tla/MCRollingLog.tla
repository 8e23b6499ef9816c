----------------------------- MODULE MCRollingLog ---------------------------
(* Instances of RollingLog small enough for TLC.                           *)
EXTENDS RollingLog, TLC

CONSTANTS
    MaxLines,    \* lines that the threads log in all
    MaxForeign   \* how far the other process writes

Bounded == /\ FoldFunction(+, 0, [t \in Threads |-> record[t].no]) <= MaxLines
           /\ other <= MaxForeign
=============================================================================
