----------------------------- MODULE MCSwitching -----------------------------
(* Values for the constants of Switching in the runs without history.       *)
EXTENDS Switching

CONSTANTS a, b, c

Row(h, s, l) == [host |-> h, score |-> s, load |-> l]

ThreeServers == {a, b, c}
OneRanking   == {<<Row(a, 1, 10), Row(b, 3, 20), Row(c, 5, 30)>>}

\* Gluetun may lack the best candidates, and its updater may bring them.
FullList  == {{a, b, c}}
AllLists  == {{a, b, c}, {b, c}, {c}}
NoServers == {}
NoRoles   == {{}}

==============================================================================
