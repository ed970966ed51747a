---------------------------- MODULE CommandQueue ----------------------------
(***************************************************************************)
(* Commands of the dashboard and the run loop that executes them: submit   *)
(* with its bounded queue, two seconds of patience and callers that leave; *)
(* the select of Engine.Run; handleCommand.  The steps here say nothing of *)
(* who starts and stops the loop: Service composes them with that.         *)
(***************************************************************************)
EXTENDS Integers, Sequences

CONSTANTS
    Requests,   \* the commands that are issued
    Waits,      \* those whose caller waits for the result
    Capacity,   \* of e.commands
    None

ASSUME CommandQueueAssumption ==
    Waits \subseteq Requests /\ Capacity \in Nat \ {0} /\ None \notin Requests

VARIABLES
    queue,      \* e.commands
    loop,       \* where Engine.Run is
    running,    \* the command in handleCommand
    done,       \* what became of each command: its buffered channel
    call        \* where the caller of each command is in submit

queueVars == <<queue, loop, running, done, call>>

Results == {"ok", "failed"}
Active  == {"queueing", "waiting"}

QueueInit ==
    /\ queue = <<>> /\ loop = "startup" /\ running = None
    /\ done = [r \in Requests |-> "empty"]
    /\ call = [r \in Requests |-> "none"]

-----------------------------------------------------------------------------
(* submit                                                                   *)

\* A handler reached the select of submit.
Submit(r) ==
    /\ call[r] = "none" /\ call' = [call EXCEPT ![r] = "queueing"]
    /\ UNCHANGED <<queue, loop, running, done>>

\* Without wait, submit returns as soon as the command is in the queue.
Enqueue(r) ==
    /\ call[r] = "queueing" /\ Len(queue) < Capacity
    /\ queue' = Append(queue, r)
    /\ call' = [call EXCEPT ![r] = IF r \in Waits THEN "waiting" ELSE "accepted"]
    /\ UNCHANGED <<loop, running, done>>

\* Faulty variant: the patience of two seconds covers the wait for the result.
BusyWhileWaiting(r) ==
    /\ call[r] \in Active /\ Len(queue) = Capacity
    /\ call' = [call EXCEPT ![r] = "busy"]
    /\ UNCHANGED <<queue, loop, running, done>>

\* Two seconds without room in the queue.  A sender that waits is handed the
\* place by the receive that frees it, so the timer never wins while there is
\* room.
Busy(r) ==
    /\ call[r] = "queueing" /\ Len(queue) = Capacity
    /\ call' = [call EXCEPT ![r] = "busy"]
    /\ UNCHANGED <<queue, loop, running, done>>

\* The context of the request ended; the command, once queued, stays queued.
Leave(r) ==
    /\ call[r] \in Active /\ call' = [call EXCEPT ![r] = "left"]
    /\ UNCHANGED <<queue, loop, running, done>>

Answer(r) ==
    /\ call[r] = "waiting" /\ done[r] \in Results
    /\ call' = [call EXCEPT ![r] = done[r]]
    /\ UNCHANGED <<queue, loop, running, done>>

-----------------------------------------------------------------------------
(* Engine.Run                                                               *)

\* The first round of work is done before the select is reached for the first
\* time; later ones are started by a ticker.
BeginTask ==
    /\ loop = "select" /\ loop' = "task"
    /\ UNCHANGED <<queue, running, done, call>>

EndTask ==
    /\ loop \in {"startup", "task"} /\ loop' = "select"
    /\ UNCHANGED <<queue, running, done, call>>

Take ==
    /\ loop = "select" /\ queue # <<>>
    /\ loop' = "command" /\ running' = Head(queue) /\ queue' = Tail(queue)
    /\ UNCHANGED <<done, call>>

Finish(result) ==
    /\ done' = [done EXCEPT ![running] = result]
    /\ loop' = "select" /\ running' = None
    /\ UNCHANGED <<queue, call>>

\* Faulty variant: done without a buffer, so that the loop waits for a caller.
AnswerUnbuffered ==
    /\ loop = "command" /\ (running \in Waits => call[running] = "waiting")
    /\ \E result \in Results : Finish(result)

\* handleCommand ends: done has room for the one result it is ever sent.
EndCommand == loop = "command" /\ \E result \in Results : Finish(result)

\* ctx.Done, which select may pass over while a ticker or a command is ready.
BeginFlush ==
    /\ loop = "select" /\ loop' = "flush"
    /\ UNCHANGED <<queue, running, done, call>>

\* flushState has returned, and Run with it; what is queued stays there.
EndFlush ==
    /\ loop = "flush" /\ loop' = "ended"
    /\ UNCHANGED <<queue, running, done, call>>

-----------------------------------------------------------------------------
QueueTypeOK ==
    /\ queue \in Seq(Requests) /\ Len(queue) <= Capacity
    /\ loop \in {"startup", "select", "task", "command", "flush", "ended"}
    /\ running \in Requests \cup {None} /\ (loop = "command" <=> running # None)
    /\ done \in [Requests -> Results \cup {"empty"}]
    /\ call \in [Requests -> Active \cup Results \cup {"none", "accepted", "busy", "left"}]

\* What a command is to the abstract specification.
Phase(r) ==
    CASE done[r] # "empty"                               -> done[r]
      [] done[r] = "empty" /\ running = r                -> "running"
      [] done[r] = "empty" /\ running # r /\ call[r] = "busy" -> "refused"
      [] done[r] = "empty" /\ running # r /\ call[r] # "busy" ->
            IF \E i \in DOMAIN queue : queue[i] = r THEN "accepted" ELSE "new"

Told(r) ==
    IF call[r] \in Results THEN call[r] ELSE IF call[r] = "busy" THEN "refused" ELSE ""

Serial == INSTANCE SerialCommands
            WITH phase <- [r \in Requests |-> Phase(r)], told <- [r \in Requests |-> Told(r)]

\* Commands run one at a time and at most once, never after they were refused,
\* and a caller is told what its own command came to, whatever queues before it,
\* however long the loop is busy and whether or not the caller stays.
CommandsAreSerial == Serial!Spec
=============================================================================
