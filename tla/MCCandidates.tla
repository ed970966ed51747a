---------------------------- MODULE MCCandidates ----------------------------
(* Candidates on a small instance: a server that can forward a port, and one *)
(* that cannot.  The mixes of faults separate what a property depends on:   *)
(* servers that come and go, a plan that changes or is learned late, and a  *)
(* disk that does not take a write.                                         *)
EXTENDS Candidates

CONSTANTS a, b

Both   == {a, b}
JustA  == {a}
JustB  == {b}
Percents == {10, 95}
Either   == {"wireguard", "openvpn"}

Plain        == {[only |-> FALSE, forwarding |-> FALSE]}

\* Without either setting Gluetun asks nothing of a server.
AnyContainer == [only : BOOLEAN, forwarding : BOOLEAN] \ Plain

Mixes ==
    {{"list", "restart", "gluetunRestart"},
     {"list", "restart", "gluetunRestart", "maintenance"},
     {"account", "list", "restart", "gluetunRestart", "plan"},
     {"list", "gluetunRestart", "maintenance"},
     {"disk", "restart"}}
=============================================================================
