------------------------- MODULE MCSwitchingHistory -------------------------
(* Values for the constants of SwitchingHistory in the runs of TLC.         *)
EXTENDS SwitchingHistory

CONSTANTS a, b, c

Row(h, s, l) == [host |-> h, score |-> s, load |-> l]

TwoServers  == {a, b}

\* Far enough apart for every change of order to be worth a move; b exceeds the
\* load trigger in the first, and the second leaves it as the only candidate.
TwoRankings == {<<Row(a, 1, 10), Row(b, 3, 90)>>, <<Row(b, 1, 10)>>}
PairRanking == {<<Row(a, 1, 10), Row(b, 3, 20)>>}

\* Gluetun may lack the best candidates, and its updater may bring them.
PairList  == {{a, b}}
PairLists == {{a, b}, {b}}
NoServers == {}

NoRoles   == {{}}
SomeRoles == {{}, {"status", "updater"}}
StatusOrNot == {{}, {"status"}}

=============================================================================
