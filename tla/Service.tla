------------------------------- MODULE Service -------------------------------
(***************************************************************************)
(* The process: the run loop with its commands (CommandQueue), the         *)
(* snapshot and its watchers (EventStream), the dashboard's HTTP server    *)
(* with its graceful shutdown, and main, which starts both, stops both     *)
(* when one returns or a signal comes, and does not wait for ever.         *)
(*                                                                         *)
(* Time is counted from the signal on, since nothing before it has a       *)
(* deadline here; it passes only when every step that needs no waiting has *)
(* been taken, so that a deadline means what it says.                      *)
(***************************************************************************)
EXTENDS CommandQueue, EventStream

CONSTANTS
    Drain,        \* how long Server.Run gives its handlers, 5 s
    Unwind,       \* how long main gives the second component, 6 s
    Dashboards,   \* whether DASHBOARD_ENABLED, as a set of choices
    Workloads     \* BOUND: what one behaviour may issue, open and change

ASSUME ServiceAssumption ==
    /\ Drain \in Nat /\ Unwind \in Nat /\ Dashboards \subseteq BOOLEAN /\ Dashboards # {}
    /\ Drain < Unwind /\ Workloads # {}
    /\ Workloads \subseteq [requests : SUBSET Requests, streams : SUBSET Streams, changes : 0..MaxVersion]

VARIABLES
    workload,     \* the choice made of Workloads
    process,      \* "up", "exited" or "crashed"
    stopping,     \* main's context is done
    server,       \* "off", "serving", "draining" or "returned"
    clock,        \* since stopping
    first,        \* when the first component returned, Never before
    cut           \* history: a deadline ended what was still going on

lifeVars == <<workload, process, stopping, server, clock, first, cut>>
vars     == <<queueVars, streamVars, lifeVars>>

Never == -1

Init ==
    /\ QueueInit /\ StreamInit /\ workload \in Workloads
    /\ process = "up" /\ stopping = FALSE /\ clock = 0 /\ first = Never /\ cut = {}
    /\ \E enabled \in Dashboards : server = IF enabled THEN "serving" ELSE "off"

Up == process = "up"

-----------------------------------------------------------------------------
(* The engine: what its goroutine does while no notification is due         *)

Working == loop \in {"startup", "task", "command"}

Loops(step) == Up /\ ~due /\ step /\ UNCHANGED streamVars /\ UNCHANGED lifeVars

Publishes(change) ==
    Up /\ Working /\ version < workload.changes /\ change /\ UNCHANGED queueVars

EngineChanges ==
    Publishes(Change \/ ChangeSelection) /\ UNCHANGED lifeVars

\* Writing to a map another goroutine iterates over is a fatal error of the Go
\* runtime, when it notices.
EngineConfirms ==
    /\ Publishes(ConfirmTarget)
    /\ process' \in IF Shared # {} THEN {"up", "crashed"} ELSE {"up"}
    /\ UNCHANGED <<workload, stopping, server, clock, first, cut>>

\* A send on a closed channel panics.
EngineNotifies ==
    /\ Up /\ Notify
    /\ process' = IF subs \cap closed = {} THEN "up" ELSE "crashed"
    /\ UNCHANGED queueVars /\ UNCHANGED <<workload, stopping, server, clock, first, cut>>

EngineBegins == Loops(BeginTask) \/ Loops(Take)

EngineEnds == Loops(EndTask) \/ Loops(EndCommand)

EngineStops == stopping /\ Loops(BeginFlush)

\* main takes the first return as the signal to stop.
Returned ==
    /\ stopping' = TRUE
    /\ first' = IF first = Never THEN clock ELSE first

EngineReturns ==
    /\ Up /\ EndFlush /\ Returned
    /\ UNCHANGED streamVars /\ UNCHANGED <<workload, process, server, clock, cut>>

-----------------------------------------------------------------------------
(* The server and its handlers                                              *)

Handles(step) == Up /\ step /\ UNCHANGED streamVars /\ UNCHANGED lifeVars

Requested(r) == server = "serving" /\ r \in workload.requests /\ Handles(Submit(r))

Submits(r) == Handles(Enqueue(r)) \/ Handles(Busy(r))

Answers(r) == Handles(Answer(r))

Leaves(r) == Handles(Leave(r))

Streaming(step) == Up /\ step /\ UNCHANGED queueVars /\ UNCHANGED lifeVars

Opens(s) == server = "serving" /\ s \in workload.streams /\ Streaming(Connect(s))

Reads(s) == Streaming(Read(s))

Writes(s) == Streaming(Sent(s)) \/ Streaming(SendFails(s))

Follows(s) == Streaming(Receive(s)) \/ Streaming(Throttle(s))

\* The client left, or Server.shutdown is closed.
LetsGo(s) == Streaming(Disconnect(s))

Closes(s) == Streaming(Cancel(s))

\* Faulty variant: without the hook a stream ends only with its client.
HeldOpen == FALSE

\* New registers with RegisterOnShutdown what closes Server.shutdown.
LetGo == server \in {"draining", "returned"}

Handlers == {r \in Requests : call[r] \in Active} \cup {s \in Streams : at[s] # "none"}

\* What a handler does without waiting for anybody, or for no longer than the
\* two seconds of submit, which are over within a tick.
HandlersMove ==
    \/ \E r \in Requests : call[r] = "queueing" \/ (call[r] = "waiting" /\ done[r] \in Results)
    \/ \E s \in Streams : at[s] \in {"send", "return"} \/ (at[s] = "wait" /\ LetGo)

\* ListenAndServe failed: Run returns the error without a shutdown.
ListenFails ==
    /\ Up /\ server = "serving" /\ ~stopping /\ Handlers = {}
    /\ server' = "returned" /\ Returned
    /\ UNCHANGED queueVars /\ UNCHANGED streamVars /\ UNCHANGED <<workload, process, clock, cut>>

\* Shutdown closes the listener and lets go of the streams.
BeginsDraining ==
    /\ Up /\ server = "serving" /\ stopping /\ server' = "draining"
    /\ UNCHANGED queueVars /\ UNCHANGED streamVars /\ UNCHANGED <<workload, process, stopping, clock, first, cut>>

\* Shutdown returns when no handler is left, or with an error at its deadline.
Drained ==
    /\ Up /\ server = "draining"
    /\ Handlers = {} \/ (clock >= Drain /\ ~HandlersMove)
    /\ server' = "returned" /\ Returned
    /\ cut' = IF Handlers = {} THEN cut ELSE cut \cup {"server"}
    /\ UNCHANGED queueVars /\ UNCHANGED streamVars /\ UNCHANGED <<workload, process, clock>>

-----------------------------------------------------------------------------
(* main                                                                     *)

Signal ==
    /\ Up /\ ~stopping /\ stopping' = TRUE
    /\ UNCHANGED queueVars /\ UNCHANGED streamVars /\ UNCHANGED <<workload, process, server, clock, first, cut>>

BothReturned == loop = "ended" /\ server = "returned"

OutOfPatience == first # Never /\ clock - first >= Unwind

Exit ==
    /\ Up /\ (BothReturned \/ OutOfPatience) /\ process' = "exited"
    /\ cut' = cut \cup (IF loop = "ended" THEN {} ELSE {"engine"})
                  \cup (IF server \in {"returned", "off"} THEN {} ELSE {"main"})
    /\ UNCHANGED queueVars /\ UNCHANGED streamVars /\ UNCHANGED <<workload, stopping, server, clock, first>>

\* Steps that wait for nobody are taken before time passes.
Immediate ==
    \/ server = "serving" \/ BothReturned \/ OutOfPatience \/ HandlersMove
    \/ server = "draining" /\ (Handlers = {} \/ clock >= Drain)

\* Time matters while a deadline runs.
Tick ==
    /\ Up /\ ~Immediate /\ (server = "draining" \/ first # Never) /\ clock' = clock + 1
    /\ UNCHANGED queueVars /\ UNCHANGED streamVars /\ UNCHANGED <<workload, process, stopping, server, first, cut>>

\* The process is gone.
Gone == ~Up /\ UNCHANGED vars

Next ==
    \/ EngineChanges \/ EngineConfirms \/ EngineNotifies
    \/ EngineBegins \/ EngineEnds \/ EngineStops \/ EngineReturns
    \/ \E r \in Requests : Requested(r) \/ Submits(r) \/ Answers(r) \/ Leaves(r)
    \/ \E s \in Streams : Opens(s) \/ Reads(s) \/ Writes(s) \/ Follows(s) \/ LetsGo(s) \/ Closes(s)
    \/ ListenFails \/ BeginsDraining \/ Drained
    \/ Signal \/ Exit \/ Tick \/ Gone

Spec == Init /\ [][Next]_vars

\* The loop takes the steps of what it is doing and, since select is fair at
\* random, passes over no command and no stop for ever.  Handlers are
\* goroutines that run, and a client reads what it is sent or goes away.
LiveSpec ==
    /\ Spec
    /\ WF_vars(EngineNotifies) /\ WF_vars(EngineEnds) /\ WF_vars(EngineReturns)
    /\ SF_vars(Loops(Take)) /\ SF_vars(EngineStops)
    /\ \A r \in Requests : WF_vars(Submits(r)) /\ WF_vars(Answers(r))
    /\ \A s \in Streams :
          /\ WF_vars(Reads(s)) /\ WF_vars(Writes(s)) /\ WF_vars(Closes(s))
          /\ WF_vars(LetGo /\ LetsGo(s))
    /\ WF_vars(BeginsDraining) /\ WF_vars(Drained) /\ WF_vars(Exit) /\ WF_vars(Tick)

-----------------------------------------------------------------------------
(* Correctness                                                              *)

View == [number : Nat, map : Nat, written : Nat, changed : Nat]

\* Every variable has its type.
TypeOK ==
    /\ QueueTypeOK
    /\ version \in Nat /\ map \in Nat /\ written \in 0..version /\ changed \in Nat /\ due \in BOOLEAN
    /\ \A set \in {subs, closed, slot, pending} : set \subseteq Streams
    /\ at \in [Streams -> {"none", "send", "encode", "wait", "return"}]
    /\ copy \in [Streams -> View] /\ shown \in [Streams -> View]
    /\ workload \in Workloads /\ process \in {"up", "exited", "crashed"} /\ stopping \in BOOLEAN
    /\ server \in {"off", "serving", "draining", "returned"}
    /\ clock \in Nat /\ first \in (0..clock) \cup {Never}
    /\ cut \subseteq {"engine", "server", "main"}

\* A stream that has not written the latest snapshot has been told, or is about
\* to be told, that there is one, whatever changes while it subscribes, encodes,
\* waits for its throttle or has a notification in its slot (subscriberSet.add
\* and notify, handleEvents).
NoLostWakeup ==
    \A s \in Streams :
        LET told == due \/ s \in slot \/ s \in pending
        IN  /\ at[s] = "wait"   => told \/ shown[s].number = version
            /\ at[s] = "encode" => told \/ copy[s].number = version

\* What a stream writes is one snapshot, as it was when it was copied: changes
\* that come while it is encoded do not show in it, except the selection of a
\* switch that is confirmed in the meantime, which is written into a map the
\* copy shares.  That write is also the only thing here that can end the
\* process before it is asked to stop (tryCandidates; Engine.Snapshot).
ViewsAreWhole ==
    /\ \A s \in Streams : shown[s].written > shown[s].number => changed > shown[s].changed
    /\ process = "crashed" => changed > 0

\* The shutdown waits for nobody but a caller whose command has no result yet
\* and a client that does not read, never for an idle stream, and main never
\* leaves before the server has had its time (dashboard.New, Server.Run, main).
ShutdownIsOrderly ==
    [][/\ "server" \in cut' \ cut =>
            \/ \E r \in Requests : call[r] = "waiting" /\ done[r] = "empty"
            \/ \E s \in Streams : at[s] = "encode"
       /\ "main" \notin cut']_vars

\* A caller of submit hears something in the end, or the process ends: the
\* loop is never held up by callers that left, and the queue moves on.
CallersHear ==
    \A r \in Requests : call[r] \in Active ~> (call[r] \notin Active \/ ~Up)
=============================================================================
