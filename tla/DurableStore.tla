---------------------------- MODULE DurableStore ----------------------------
(***************************************************************************)
(* What the state file promises: what is on disk is always one whole state *)
(* the program held at some moment, it changes only by a complete save of  *)
(* what the program holds now, and a start resumes from it or from         *)
(* nothing.  A power failure may bring an earlier save back, never a mix.  *)
(***************************************************************************)
EXTENDS Integers, Sequences

VARIABLES
    running,  \* the program runs
    held,     \* the state it holds, <<>> while it does not run
    disk,     \* the state a read of the file returns, <<>> when there is none
    past      \* the states a power failure may bring back

vars == <<running, held, disk, past>>

Init == ~running /\ held = <<>> /\ disk = <<>> /\ past = {<<>>}

Start == ~running /\ running' /\ held' \in {disk, <<>>} /\ UNCHANGED <<disk, past>>

Change == running /\ held' \in Seq(Nat) /\ UNCHANGED <<running, disk, past>>

Gone == ~running' /\ held' = <<>>

\* One complete save of what the program holds, after which it may end.
Save ==
    /\ running /\ disk' = held /\ past' = past \cup {held}
    /\ Gone \/ UNCHANGED <<running, held>>

End == running /\ Gone /\ UNCHANGED <<disk, past>>

\* The operating system settles what a power failure could undo.
Settle == past' = {disk} /\ UNCHANGED <<running, held, disk>>

Fail == Gone /\ disk' \in past /\ past' = {disk'}

Next == Start \/ Change \/ Save \/ End \/ Settle \/ Fail

Spec == Init /\ [][Next]_vars
=============================================================================
