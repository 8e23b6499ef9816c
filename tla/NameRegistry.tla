---------------------------- MODULE NameRegistry ----------------------------
(***************************************************************************)
(* What the directory server promises about user names: a name is granted  *)
(* to one session at a time, a session is granted at most one name, and    *)
(* only the session itself gives its name back.  A session may also go     *)
(* away without giving its name back; then nobody ever gets it again.      *)
(***************************************************************************)

CONSTANTS
    Sessions,
    UserNames,
    Free, Lost   \* not sessions, and different

VARIABLES
    holder,   \* the session that holds a name, Free or Lost
    served    \* the sessions that have been granted a name

Init == holder = [n \in UserNames |-> Free] /\ served = {}

Grant(s, n) ==
    /\ holder[n] = Free /\ s \notin served
    /\ holder' = [holder EXCEPT ![n] = s]
    /\ served' = served \cup {s}

Release(s, n) ==
    /\ holder[n] = s
    /\ holder' = [holder EXCEPT ![n] = Free]
    /\ UNCHANGED served

Lose(s, n) ==
    /\ holder[n] = s
    /\ holder' = [holder EXCEPT ![n] = Lost]
    /\ UNCHANGED served

Next == \E s \in Sessions, n \in UserNames : Grant(s, n) \/ Release(s, n) \/ Lose(s, n)

Spec == Init /\ [][Next]_<<holder, served>>
=============================================================================
