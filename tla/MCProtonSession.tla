--------------------------- MODULE MCProtonSession ---------------------------
(* The Proton session on a small instance: accounts of every kind and a few *)
(* faults, enough for tokens to be lost, replaced and lost again.           *)
EXTENDS ProtonSession

AnyFactor == {"none", "secret", "manual"}

Answered   == {"expire", "revoke", "crash", "password"}
DiskGood   == Answered \cup {"outage", "lost"}
Everything == DiskGood \cup {"disk"}
Mixes   == {Answered, DiskGood, Everything}
=============================================================================
