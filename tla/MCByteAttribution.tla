-------------------------- MODULE MCByteAttribution --------------------------
(* The attribution of bytes on a small instance: two servers, three moves,  *)
(* enough to leave a server, pass over another and come back twice.         *)
EXTENDS ByteAttribution

Harmless   == {"qbRestart", "restart", "down"}
Everything == Harmless \cup {"switchTo", "late", "moves", "unanswered", "busyLoop", "dips"}
Mixes      == {Harmless, Everything}
=============================================================================
