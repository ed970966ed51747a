--------------------------- MODULE MCTransferGuard ---------------------------
(* The transfer guard on a small instance: an idle tunnel, a download at    *)
(* its limit, an upload above its own, and both directions below; with a    *)
(* window and a limit, with the latest reading alone, and with no limit.    *)
EXTENDS TransferGuard

Readings == {[down |-> 0, up |-> 0], [down |-> 2, up |-> 0],
             [down |-> 0, up |-> 3], [down |-> 1, up |-> 1]}

Settings == {[window |-> 2, maxDefer |-> 2], [window |-> 0, maxDefer |-> 2],
             [window |-> 2, maxDefer |-> 0]}
=============================================================================
