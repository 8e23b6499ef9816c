------------------------------ MODULE Addresses -----------------------------
(***************************************************************************)
(* Addresses of peers (Tools/Sources/utils.cpp).  gRPC writes a peer's     *)
(* address as ipv4:host:port or ipv6:[host]:port; the regular expression   *)
(* of utils.cpp accepts four numbers, with or without the prefix.  A text  *)
(* is abstracted to its host and its port.                                 *)
(***************************************************************************)
CONSTANTS
    DottedHosts,   \* hosts written as four numbers of up to three digits
    OtherHosts,    \* any other host
    LongPorts,     \* ports of more than five digits, or not a number
    Nothing        \* the empty text

Hosts == DottedHosts \cup OtherHosts

IsValidIp(ip) == ip.host \in DottedHosts /\ ip.port \notin LongPorts \cup {Nothing}

(* What a group of the expression captured: nothing if it did not match.   *)
Captured(ip) == IF IsValidIp(ip) THEN ip ELSE [host |-> Nothing, port |-> Nothing]

ChangeHost(ip, host) == [host |-> host, port |-> Captured(ip).port]

(* Mutant: the host is taken along unseen.                                 *)
ChangePortOfAny(ip, port) == [host |-> ip.host, port |-> ip.port]

ChangePort(ip, port) == [host |-> Captured(ip).host, port |-> port]
=============================================================================
