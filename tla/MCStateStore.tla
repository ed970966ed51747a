---------------------------- MODULE MCStateStore ----------------------------
(* The state file on a small instance: two records are kept and four made, *)
(* so that trim drops some of them.                                        *)
EXTENDS StateStore

AllFaults == {"io", "kill", "power", "unreadable"}
=============================================================================
