------------------------------ MODULE MCService ------------------------------
(* The process on a small instance.  Commands: two whose callers wait and   *)
(* one whose caller does not, for a queue of one.  Streams: one while the   *)
(* snapshot changes three times, two while it changes once.  And a command  *)
(* and a stream together.                                                   *)
EXTENDS Service

CONSTANTS r1, r2, r3, s1, s2

Commands == {r1, r2, r3}
Waiting  == {r1, r2}
Clients  == {s1, s2}

Mixes == {[requests |-> Commands, streams |-> {}, changes |-> 0],
          [requests |-> {}, streams |-> Clients, changes |-> 1],
          [requests |-> {}, streams |-> {s1}, changes |-> 3],
          [requests |-> {r1}, streams |-> {s1}, changes |-> 1]}
=============================================================================
