------------------------------- MODULE MCStartup ----------------------------
(* Instances of Startup small enough for TLC.                              *)
EXTENDS Startup, TLC

(* Values: a host, another port than the defaults, 0, a number that becomes *)
(* 0 as an int, one that stays out of range, one that becomes a port.      *)
TextNumber == ("prog" :> 0) @@ ("1.2.3.4" :> 1) @@ ("localhost" :> 0) @@ ("12" :> 12)
              @@ ("64" :> 64) @@ ("31" :> 31) @@ ("76" :> 76)
              @@ [o \in Options |-> 0]

Values == {"1.2.3.4", "localhost", "12", "64", "31", "76"}
Texts == Options \cup Values

(* Bound: at most two pairs, and one text too many.                        *)
Pairs == {<<o, v>> : o \in Options, v \in Values}
Few == {<<"-server_port", "12">>, <<"-p2p_serverside_port", "76">>}
Lists == {<<"prog">>} \cup {<<"prog">> \o a : a \in Pairs}
         \cup {<<"prog">> \o a \o b : a \in Pairs, b \in Few}
         \cup {<<"prog", t>> : t \in Texts}
         \cup {<<"prog">> \o a \o <<t>> : a \in Few, t \in Texts}
         \cup {<<"prog">> \o <<t, "12">> : t \in Values}

CONSTANT Plain   \* the processes that are started without arguments

(* Bound: one of the other processes is started with arguments.            *)
OneWithArguments ==
    /\ StartInit
    /\ Cardinality({p \in Processes : argv[p] # <<"prog">>}) <= 1
    /\ \A p \in Plain : argv[p] = <<"prog">>

BoundedSpec ==
    /\ OneWithArguments /\ [][StartNext]_startVars
    /\ \A p \in Processes : WF_startVars(Main(p)) /\ WF_startVars(Listener(p))
=============================================================================
