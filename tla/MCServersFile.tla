---------------------------- MODULE MCServersFile ----------------------------
(* A volume that a release with the legacy layout and a later image with    *)
(* the directory layout and another schema version take turns on.           *)
EXTENDS ServersFile

Release == [layout |-> "legacy", schema |-> 1]
Latest  == [layout |-> "directory", schema |-> 2]

TwoImages == {Release, Latest}
Settings  == [mode : {"update", "replace"}, storage : BOOLEAN]
=============================================================================
