--------------------------- MODULE SerialCommands ---------------------------
(***************************************************************************)
(* What the dashboard may rely on when it hands a command to the engine:   *)
(* commands run one at a time, each at most once and only after it was     *)
(* accepted; one that was refused never runs; and a caller that is told a  *)
(* result is told the result of its own command.                           *)
(***************************************************************************)
EXTENDS Integers

CONSTANT Requests

VARIABLES
    phase,   \* where each command stands
    told     \* what each caller has been told, "" while nothing

vars == <<phase, told>>

Results == {"ok", "failed"}
Phases  == {"new", "accepted", "running", "refused"} \cup Results

Init == phase = [r \in Requests |-> "new"] /\ told = [r \in Requests |-> ""]

Accept(r) == phase[r] = "new" /\ phase' = [phase EXCEPT ![r] = "accepted"] /\ UNCHANGED told

\* Refusing a command and saying so is one step.
Refuse(r) ==
    /\ phase[r] = "new" /\ phase' = [phase EXCEPT ![r] = "refused"]
    /\ told' = [told EXCEPT ![r] = "refused"]

Begin(r) ==
    /\ phase[r] = "accepted" /\ \A other \in Requests : phase[other] # "running"
    /\ phase' = [phase EXCEPT ![r] = "running"] /\ UNCHANGED told

Finish(r) ==
    /\ phase[r] = "running"
    /\ \E result \in Results : phase' = [phase EXCEPT ![r] = result]
    /\ UNCHANGED told

Tell(r) ==
    /\ phase[r] \in Results /\ told[r] = ""
    /\ told' = [told EXCEPT ![r] = phase[r]] /\ UNCHANGED phase

Next == \E r \in Requests : Accept(r) \/ Refuse(r) \/ Begin(r) \/ Finish(r) \/ Tell(r)

Spec == Init /\ [][Next]_vars
=============================================================================
