----------------------------- MODULE StateStore -----------------------------
(***************************************************************************)
(* The state file: stateStore (update, mutate, flush, load, trim), the     *)
(* timer and the shutdown that flush it, and atomicfile.Write below, one   *)
(* step per system call, with a process that dies, a machine that loses    *)
(* power and calls that fail between any two of them.                      *)
(*                                                                         *)
(* The persisted state is the sequence of what was recorded, oldest first: *)
(* the n-th change ever made is the number n, and trim keeps the newest.   *)
(* Only the run loop writes, so a write is never overtaken by a change.    *)
(***************************************************************************)
EXTENDS Integers, Sequences

CONSTANTS
    Cap,          \* maxHistory and maxServerStats: how much is kept
    MaxChanges,   \* BOUND on how many changes a behaviour makes
    FaultKinds,   \* the kinds of fault that happen: "io", "kill", "power", "unreadable"
    MaxFaults     \* BOUND on how many happen in a behaviour

ASSUME StateStoreAssumption ==
    Cap \in Nat \ {0} /\ MaxChanges \in Nat /\ MaxFaults \in Nat

VARIABLES
    mem,      \* s.state
    dirty,    \* s.dirty
    pc,       \* "down", "idle", or the system call of a write that is due
    job,      \* what the write is for: "update", "flush" or "shutdown"
    temp,     \* the temporary file: whether it exists, is whole, is on the medium
    file,     \* the state file
    durable,  \* what the state file may hold after a power failure
    made,     \* changes made so far
    faults    \* faults still allowed

vars == <<mem, dirty, pc, job, temp, file, durable, made, faults>>
diskVars == <<temp, file, durable>>

\* What a path holds: a whole state, or an empty or half-written file.  A
\* missing file is the state of the first run.
Whole(s) == [whole |-> TRUE, state |-> s]
Torn     == [whole |-> FALSE, state |-> <<>>]
NoTemp  == [exists |-> FALSE, whole |-> FALSE, synced |-> FALSE]

\* Every variable has its type; in particular neither memory nor file ever
\* holds more than the caps of trim allow, pending changes included.
TypeOK ==
    /\ mem \in Seq(Nat) /\ Len(mem) <= Cap
    /\ dirty \in BOOLEAN
    /\ pc \in {"down", "idle", "create", "write", "sync", "close", "rename"}
    /\ job \in {"none", "update", "flush", "shutdown"}
    /\ temp \in [exists : BOOLEAN, whole : BOOLEAN, synced : BOOLEAN]
    /\ made \in 0..MaxChanges /\ faults \in 0..MaxFaults
    /\ file \in [whole : BOOLEAN, state : Seq(Nat)] /\ Len(file.state) <= Cap

Fault(kind) == kind \in FaultKinds /\ faults > 0 /\ faults' = faults - 1

Init ==
    /\ mem = <<>> /\ dirty = FALSE /\ pc = "down" /\ job = "none"
    /\ temp = NoTemp
    /\ file = Whole(<<>>) /\ durable = {file}
    /\ made = 0 /\ faults = MaxFaults

-----------------------------------------------------------------------------
(* stateStore                                                               *)

\* Faulty variant: what only lives in memory is not trimmed.
Untrimmed(s) == s

Trimmed(s) == IF Len(s) > Cap THEN SubSeq(s, Len(s) - Cap + 1, Len(s)) ELSE s

\* What load makes of a file: an empty or undecodable one is a fresh start.
Read(f) == IF f.whole THEN f.state ELSE <<>>

Changed == made < MaxChanges /\ made' = made + 1 /\ mem' = Trimmed(Append(mem, made + 1))

BeginWrite(for) == pc' = "create" /\ job' = for /\ dirty' = FALSE

\* Faulty variant: decoding straight into s.state, of which a failure leaves a
\* part behind.
LoadInPlace ==
    /\ pc = "down" /\ pc' = "idle"
    /\ dirty' = FALSE
    /\ \/ mem' = Read(file) /\ UNCHANGED faults
       \/ Fault("unreadable") /\ \E n \in 0..Len(Read(file)) : mem' = SubSeq(Read(file), 1, n)
    /\ UNCHANGED <<job, made>> /\ UNCHANGED diskVars

\* load: a file that cannot be read or decoded is a fresh start too (New).
Load ==
    /\ pc = "down" /\ pc' = "idle"
    /\ dirty' = FALSE
    /\ \/ mem' = Read(file) /\ UNCHANGED faults
       \/ Fault("unreadable") /\ mem' = <<>>
    /\ UNCHANGED <<job, made>> /\ UNCHANGED diskVars

Update ==
    /\ pc = "idle" /\ Changed /\ BeginWrite("update")
    /\ UNCHANGED faults /\ UNCHANGED diskVars

ClearHistory ==
    /\ pc = "idle" /\ mem' = <<>> /\ BeginWrite("update")
    /\ UNCHANGED <<made, faults>> /\ UNCHANGED diskVars

Mutate ==
    /\ pc = "idle" /\ Changed /\ dirty' = TRUE
    /\ UNCHANGED <<pc, job, faults>> /\ UNCHANGED diskVars

Flush ==
    /\ pc = "idle" /\ dirty /\ BeginWrite("flush")
    /\ UNCHANGED <<mem, made, faults>> /\ UNCHANGED diskVars

Ended == pc' = "down" /\ job' = "none" /\ mem' = <<>> /\ dirty' = FALSE

\* Faulty variant: the run loop returns without settling what is pending.
ShutdownUnflushed ==
    /\ pc = "idle" /\ Ended
    /\ UNCHANGED <<made, faults>> /\ UNCHANGED diskVars

\* ctx.Done in Run: what is pending is flushed before the program ends.
Shutdown ==
    /\ pc = "idle"
    /\ IF dirty THEN BeginWrite("shutdown") /\ UNCHANGED mem ELSE Ended
    /\ UNCHANGED <<made, faults>> /\ UNCHANGED diskVars

-----------------------------------------------------------------------------
(* atomicfile.Write                                                         *)

\* The write is over; the caller goes on, or the program ends after the last.
Returned(failed) ==
    IF job = "shutdown" THEN Ended
    ELSE pc' = "idle" /\ job' = "none" /\ dirty' = failed /\ UNCHANGED mem

\* Faulty variant: a failed write drops the change instead of trying again.
FailedSettled ==
    /\ pc \in {"create", "write", "sync", "close", "rename"}
    /\ Fault("io")
    /\ temp' = NoTemp /\ Returned(FALSE)
    /\ UNCHANGED <<file, durable, made>>

\* A call failed: the temporary file is removed and the state stays dirty.
Failed ==
    /\ pc \in {"create", "write", "sync", "close", "rename"}
    /\ Fault("io")
    /\ temp' = NoTemp /\ Returned(TRUE)
    /\ UNCHANGED <<file, durable, made>>

Step(from, to) == pc = from /\ pc' = to /\ UNCHANGED <<mem, dirty, job, made, faults>>

CreateTemp ==
    /\ Step("create", "write") /\ temp' = [NoTemp EXCEPT !.exists = TRUE]
    /\ UNCHANGED <<file, durable>>

WriteTemp ==
    /\ Step("write", "sync") /\ temp' = [temp EXCEPT !.whole = TRUE]
    /\ UNCHANGED <<file, durable>>

Sync ==
    /\ Step("sync", "close") /\ temp' = [temp EXCEPT !.synced = TRUE]
    /\ UNCHANGED <<file, durable>>

CloseAndChmod == Step("close", "rename") /\ UNCHANGED diskVars

\* Readers see the new file at once.  The directory is not synced, so a power
\* failure may still bring the previous one back; data that was not on the
\* medium would be gone with it.
Rename ==
    /\ pc = "rename"
    /\ file' = IF temp.whole THEN Whole(mem) ELSE Torn
    /\ durable' = durable \cup {IF temp.whole /\ temp.synced THEN Whole(mem) ELSE Torn}
    /\ temp' = NoTemp /\ Returned(FALSE)
    /\ UNCHANGED <<made, faults>>

-----------------------------------------------------------------------------
(* The machine                                                              *)

Died == temp' = NoTemp /\ Ended

Kill ==
    /\ pc # "down" /\ Fault("kill") /\ Died
    /\ UNCHANGED <<file, durable, made>>

PowerFailure ==
    /\ Fault("power") /\ Died
    /\ file' \in durable /\ durable' = {file'}
    /\ UNCHANGED made

\* The file system commits the rename.
Commit ==
    /\ durable # {file} /\ file.whole /\ durable' = {file}
    /\ UNCHANGED <<mem, dirty, pc, job, temp, file, made, faults>>

Write == CreateTemp \/ WriteTemp \/ Sync \/ CloseAndChmod \/ Rename \/ Failed

Next ==
    \/ Load \/ Update \/ ClearHistory \/ Mutate \/ Flush \/ Shutdown
    \/ Write \/ Kill \/ PowerFailure \/ Commit

Spec == Init /\ [][Next]_vars

\* The restart policy starts the container again, a write runs to its end and
\* the flush timer of Run fires every minute.  No change has to come, no fault
\* has to happen and nobody has to stop the program.
LiveSpec == Spec /\ WF_vars(Load) /\ WF_vars(Write) /\ WF_vars(Flush)

-----------------------------------------------------------------------------
(* Correctness                                                              *)

\* The file is never empty or half-written, whatever fails, dies or loses
\* power in the middle of a write (atomicfile.Write).
NeverTorn == \A f \in {file} \cup durable : f.whole

\* When nothing is pending and no write is under way, what the program holds
\* is what a restart would read; a program that started fresh and has not
\* changed anything is the one exception (update, flush, load).
Settled == (pc = "idle" /\ ~dirty) => (mem = <<>> \/ file = Whole(mem))

\* A program that is stopped and meets no error on the way leaves behind
\* everything it held, the changes made since the last write included (Run's
\* ctx.Done case).
ShutdownKeepsAll ==
    [][(pc # "down" /\ pc' = "down" /\ faults' = faults) => (mem = <<>> \/ file' = Whole(mem))]_vars

\* What was recorded reaches the file, unless the program dies first or trim
\* or the operator drops it: a failed write is tried again (flush).
ChangesReachTheFile ==
    \A c \in 1..MaxChanges :
        (\E i \in DOMAIN mem : mem[i] = c) ~>
            \/ \A i \in DOMAIN mem : mem[i] # c
            \/ \E i \in DOMAIN Read(file) : Read(file)[i] = c

\* A torn file is no state at all: the sequence <<0>>, which nothing records.
Reading(f) == IF f.whole THEN f.state ELSE <<0>>

\* The write protocol implements a store that saves in one step.
Durable == INSTANCE DurableStore
               WITH running <- pc # "down", held <- mem,
                    disk <- Reading(file),
                    past <- {Reading(f) : f \in durable}
SavesAreAtomic == Durable!Spec
=============================================================================
