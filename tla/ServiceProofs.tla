--------------------------- MODULE ServiceProofs ---------------------------
(***************************************************************************)
(* Theorems about Service, for any number of commands and streams, any     *)
(* capacity of the queue and any two deadlines of which main's is the      *)
(* later: commands are serial and take turns, no caller is forgotten and   *)
(* no wake-up is lost, what a stream writes is whole but for the shared    *)
(* map, the shutdown waits for nobody idle and is over in time.            *)
(***************************************************************************)
EXTENDS Service, SequenceTheorems, TLAPS

Outside == {"none", "queueing", "busy"}

InQueue(r) == \E i \in DOMAIN queue : queue[i] = r

\* Every command is in one place: with its caller, in the queue, in the run
\* loop, or done.
Placed ==
    /\ \A i, j \in DOMAIN queue : queue[i] = queue[j] => i = j
    /\ \A r \in Requests : InQueue(r) => running # r /\ done[r] = "empty" /\ call[r] \notin Outside
    /\ running # None => done[running] = "empty" /\ call[running] \notin Outside
    /\ \A r \in Requests : done[r] # "empty" => call[r] \notin Outside
    /\ \A r \in Requests : call[r] \in Results => done[r] = call[r]

QueueInv == QueueTypeOK /\ Placed

\* One step of the queue, its callers or the loop, or none of them.
QueueStep ==
    \/ \E r \in Requests : Submit(r) \/ Enqueue(r) \/ Busy(r) \/ Leave(r) \/ Answer(r)
    \/ BeginTask \/ EndTask \/ Take \/ EndCommand \/ BeginFlush \/ EndFlush
    \/ UNCHANGED queueVars

-----------------------------------------------------------------------------
(* Commands                                                                 *)

LEMMA NextQueue == [Next]_vars => QueueStep
<1> SUFFICES ASSUME [Next]_vars PROVE QueueStep
  OBVIOUS
<1>1. CASE EngineChanges \/ EngineConfirms \/ EngineNotifies
  BY <1>1 DEF EngineChanges, EngineConfirms, EngineNotifies, Publishes, QueueStep
<1>2. CASE EngineBegins \/ EngineEnds \/ EngineStops \/ EngineReturns
  BY <1>2 DEF EngineBegins, EngineEnds, EngineStops, EngineReturns, Loops, QueueStep
<1>3. CASE \E r \in Requests : Requested(r) \/ Submits(r) \/ Answers(r) \/ Leaves(r)
  BY <1>3 DEF Requested, Submits, Answers, Leaves, Handles, QueueStep
<1>4. CASE \E s \in Streams : Opens(s) \/ Reads(s) \/ Writes(s) \/ Follows(s) \/ LetsGo(s) \/ Closes(s)
  BY <1>4 DEF Opens, Reads, Writes, Follows, LetsGo, Closes, Streaming, QueueStep
<1>5. CASE ListenFails \/ BeginsDraining \/ Drained \/ Signal \/ Exit \/ Tick
  BY <1>5 DEF ListenFails, BeginsDraining, Drained, Signal, Exit, Tick, QueueStep
<1>6. CASE Gone \/ UNCHANGED vars
  BY <1>6 DEF Gone, vars, QueueStep
<1> QED
  BY <1>1, <1>2, <1>3, <1>4, <1>5, <1>6 DEF Next

LEMMA Entered ==
    ASSUME queue \in Seq(Requests), NEW r \in Requests, queue' = Append(queue, r), ~InQueue(r),
           \A i, j \in DOMAIN queue : queue[i] = queue[j] => i = j
    PROVE  /\ queue' \in Seq(Requests) /\ Len(queue') = Len(queue) + 1
           /\ \A x : InQueue(x)' <=> InQueue(x) \/ x = r
           /\ (\A i, j \in DOMAIN queue : queue[i] = queue[j] => i = j)'
<1>1. /\ queue' \in Seq(Requests) /\ Len(queue') = Len(queue) + 1 /\ Len(queue) \in Nat
      /\ DOMAIN queue = 1..Len(queue) /\ DOMAIN queue' = 1..(Len(queue) + 1)
      /\ \A i \in 1..Len(queue) : queue'[i] = queue[i]
      /\ queue'[Len(queue) + 1] = r
  OBVIOUS
<1>2. \A x : InQueue(x)' <=> InQueue(x) \/ x = r
  BY <1>1 DEF InQueue
<1>3. (\A i, j \in DOMAIN queue : queue[i] = queue[j] => i = j)'
  <2> SUFFICES ASSUME NEW i \in DOMAIN queue', NEW j \in DOMAIN queue', queue'[i] = queue'[j]
               PROVE  i = j
    OBVIOUS
  <2> QED
    BY <1>1 DEF InQueue
<1> QED
  BY <1>1, <1>2, <1>3

LEMMA Taken ==
    ASSUME queue \in Seq(Requests), queue # <<>>, queue' = Tail(queue),
           \A i, j \in DOMAIN queue : queue[i] = queue[j] => i = j
    PROVE  /\ queue' \in Seq(Requests) /\ Len(queue') = Len(queue) - 1
           /\ Head(queue) \in Requests /\ InQueue(Head(queue))
           /\ \A x : InQueue(x)' <=> InQueue(x) /\ x # Head(queue)
           /\ (\A i, j \in DOMAIN queue : queue[i] = queue[j] => i = j)'
<1>1. /\ queue' \in Seq(Requests) /\ Len(queue') = Len(queue) - 1 /\ Len(queue) \in Nat \ {0}
      /\ DOMAIN queue = 1..Len(queue) /\ DOMAIN queue' = 1..(Len(queue) - 1)
      /\ \A i \in 1..(Len(queue) - 1) : queue'[i] = queue[i + 1]
      /\ Head(queue) = queue[1] /\ Head(queue) \in Requests
  OBVIOUS
<1>2. InQueue(Head(queue))
  BY <1>1 DEF InQueue
<1>3. ASSUME NEW x PROVE InQueue(x)' <=> InQueue(x) /\ x # Head(queue)
  <2>1. ASSUME InQueue(x)' PROVE InQueue(x) /\ x # Head(queue)
    <3>1. PICK i \in 1..(Len(queue) - 1) : queue'[i] = x
      BY <1>1, <2>1 DEF InQueue
    <3>2. i + 1 \in DOMAIN queue /\ queue[i + 1] = x /\ i + 1 # 1 /\ 1 \in DOMAIN queue
      BY <1>1, <3>1
    <3> QED
      BY <1>1, <3>2 DEF InQueue
  <2>2. ASSUME InQueue(x), x # Head(queue) PROVE InQueue(x)'
    <3>1. PICK i \in DOMAIN queue : queue[i] = x
      BY <2>2 DEF InQueue
    <3>2. i # 1 /\ i - 1 \in 1..(Len(queue) - 1) /\ (i - 1) + 1 = i
      BY <1>1, <2>2, <3>1
    <3>3. queue'[i - 1] = x
      BY <1>1, <3>1, <3>2
    <3> QED
      BY <1>1, <3>2, <3>3 DEF InQueue
  <2> QED
    BY <2>1, <2>2
<1>4. (\A i, j \in DOMAIN queue : queue[i] = queue[j] => i = j)'
  <2> SUFFICES ASSUME NEW i \in DOMAIN queue', NEW j \in DOMAIN queue', queue'[i] = queue'[j]
               PROVE  i = j
    OBVIOUS
  <2>1. i \in Nat /\ j \in Nat /\ queue[i + 1] = queue[j + 1] /\ i + 1 \in DOMAIN queue /\ j + 1 \in DOMAIN queue
    BY <1>1
  <2> QED
    BY <2>1
<1> QED
  BY <1>1, <1>2, <1>3, <1>4

-----------------------------------------------------------------------------
(* What a command is to the abstract specification                          *)

LEMMA PhaseIs ==
    ASSUME NEW r
    PROVE  /\ done[r] # "empty" => Phase(r) = done[r]
           /\ done[r] = "empty" /\ running = r => Phase(r) = "running"
           /\ done[r] = "empty" /\ running # r /\ call[r] = "busy" => Phase(r) = "refused"
           /\ done[r] = "empty" /\ running # r /\ call[r] # "busy" /\ InQueue(r) => Phase(r) = "accepted"
           /\ done[r] = "empty" /\ running # r /\ call[r] # "busy" /\ ~InQueue(r) => Phase(r) = "new"
BY DEF Phase, InQueue

LEMMA PhaseIsNext ==
    ASSUME NEW r
    PROVE  /\ done'[r] # "empty" => Phase(r)' = done'[r]
           /\ done'[r] = "empty" /\ running' = r => Phase(r)' = "running"
           /\ done'[r] = "empty" /\ running' # r /\ call'[r] = "busy" => Phase(r)' = "refused"
           /\ done'[r] = "empty" /\ running' # r /\ call'[r] # "busy" /\ InQueue(r)' => Phase(r)' = "accepted"
           /\ done'[r] = "empty" /\ running' # r /\ call'[r] # "busy" /\ ~InQueue(r)' => Phase(r)' = "new"
BY DEF Phase, InQueue

Moves(r, to)  == \A x \in Requests : Phase(x)' = IF x = r THEN to ELSE Phase(x)
Says(r, what) == \A x \in Requests : Told(x)' = IF x = r THEN what ELSE Told(x)
Still  == \A x \in Requests : Phase(x)' = Phase(x)
Silent == \A x \in Requests : Told(x)' = Told(x)

LEMMA Accepts == ASSUME NEW r \in Requests, Phase(r) = "new", Moves(r, "accepted"), Silent PROVE Serial!Accept(r)
BY DEF Serial!Accept, Moves, Silent

LEMMA Refuses ==
    ASSUME NEW r \in Requests, Phase(r) = "new", Moves(r, "refused"), Says(r, "refused") PROVE Serial!Refuse(r)
BY DEF Serial!Refuse, Moves, Says

LEMMA Begins ==
    ASSUME NEW r \in Requests, Phase(r) = "accepted", \A x \in Requests : Phase(x) # "running",
           Moves(r, "running"), Silent
    PROVE  Serial!Begin(r)
BY DEF Serial!Begin, Moves, Silent

LEMMA Finishes ==
    ASSUME NEW r \in Requests, Phase(r) = "running", NEW result \in Results, Moves(r, result), Silent
    PROVE  Serial!Finish(r)
BY DEF Serial!Finish, Serial!Results, Results, Moves, Silent

LEMMA Tells ==
    ASSUME NEW r \in Requests, Phase(r) \in Results, Told(r) = "", Says(r, Phase(r)), Still
    PROVE  Serial!Tell(r)
BY DEF Serial!Tell, Serial!Results, Results, Says, Still

LEMMA Stutters == Still /\ Silent => UNCHANGED Serial!vars
BY DEF Serial!vars, Still, Silent

SerialStep == Serial!Next \/ UNCHANGED Serial!vars

LEMMA QueueInitInv == QueueInit => QueueInv /\ Serial!Init
<1> SUFFICES ASSUME QueueInit PROVE QueueInv /\ Serial!Init
  OBVIOUS
<1>1. /\ queue = <<>> /\ running = None /\ loop = "startup"
      /\ \A r \in Requests : done[r] = "empty" /\ call[r] = "none"
      /\ done \in [Requests -> {"empty"}] /\ call \in [Requests -> {"none"}]
  BY DEF QueueInit
<1>2. queue \in Seq(Requests) /\ Len(queue) = 0 /\ DOMAIN queue = {}
  BY <1>1, EmptySeq
<1>3. QueueTypeOK
  BY <1>1, <1>2, CommandQueueAssumption DEF QueueTypeOK, Results, Active
<1>4. Placed
  BY <1>1, <1>2 DEF Placed, InQueue, Results
<1>5. \A r \in Requests : Phase(r) = "new" /\ Told(r) = ""
  <2> TAKE r \in Requests
  <2>1. running # r
    BY <1>1, CommandQueueAssumption
  <2>2. ~InQueue(r)
    BY <1>2 DEF InQueue
  <2>3. Told(r) = ""
    BY <1>1 DEF Told, Results
  <2> QED
    BY <1>1, <2>1, <2>2, <2>3, PhaseIs
<1> QED
  BY <1>3, <1>4, <1>5 DEF QueueInv, Serial!Init

\* The caller's steps: nothing but its place in submit changes, and a command
\* that is elsewhere by now is not affected.
LEMMA CallStep ==
    ASSUME QueueInv, NEW r \in Requests, NEW to, call' = [call EXCEPT ![r] = to],
           UNCHANGED <<queue, loop, running, done>>,
           \/ to = "queueing" /\ call[r] = "none"
           \/ to = "busy" /\ call[r] = "queueing"
           \/ to = "left" /\ call[r] \in Active
           \/ to = done[r] /\ to \in Results /\ call[r] = "waiting"
    PROVE  QueueInv' /\ SerialStep
<1>1. /\ call \in [Requests -> Active \cup Results \cup {"none", "accepted", "busy", "left"}]
      /\ done \in [Requests -> Results \cup {"empty"}] /\ Placed
  BY DEF QueueInv, QueueTypeOK
<1>2. /\ \A x \in Requests : call'[x] = IF x = r THEN to ELSE call[x]
      /\ \A x : InQueue(x)' <=> InQueue(x)
  BY <1>1 DEF InQueue
<1>3. QueueTypeOK'
  BY <1>1 DEF QueueInv, QueueTypeOK, Active, Results
<1>4. Placed'
  BY <1>1, <1>2 DEF Placed, InQueue, Outside, Active, Results
<1>5. Moves(r, Phase(r)) \/ to = "busy"
  BY <1>1, <1>2, PhaseIs, PhaseIsNext DEF Moves, Active, Results
<1>6. CASE to = "busy"
  <2>1. Phase(r) = "new"
    BY <1>1, <1>6, PhaseIs, CommandQueueAssumption DEF Placed, Outside, Results
  <2>2. Moves(r, "refused")
    BY <1>1, <1>2, <1>6, PhaseIs, PhaseIsNext, CommandQueueAssumption DEF Moves, Placed, Outside, Results
  <2>3. Says(r, "refused")
    BY <1>2, <1>6 DEF Says, Told, Results
  <2> QED
    BY <1>3, <1>4, <2>1, <2>2, <2>3, Refuses DEF QueueInv, SerialStep, Serial!Next
<1>7. CASE to \in Results
  <2>1. Phase(r) = to
    BY <1>1, <1>7, PhaseIs DEF Results, Active
  <2>2. Told(r) = "" /\ Says(r, to)
    BY <1>1, <1>2, <1>7 DEF Says, Told, Results, Active
  <2>3. Still
    BY <1>5, <1>7 DEF Moves, Still, Results
  <2> QED
    BY <1>3, <1>4, <1>7, <2>1, <2>2, <2>3, Tells DEF QueueInv, SerialStep, Serial!Next
<1>8. CASE to \in {"queueing", "left"}
  <2>1. Still
    BY <1>5, <1>8 DEF Moves, Still
  <2>2. Silent
    BY <1>1, <1>2, <1>8 DEF Silent, Told, Results, Active
  <2> QED
    BY <1>3, <1>4, <2>1, <2>2, Stutters DEF QueueInv, SerialStep
<1> QED
  BY <1>6, <1>7, <1>8

LEMMA EnqueueStep == ASSUME QueueInv, NEW r \in Requests, Enqueue(r) PROVE QueueInv' /\ SerialStep
<1> DEFINE to == IF r \in Waits THEN "waiting" ELSE "accepted"
<1>1. /\ call[r] = "queueing" /\ Len(queue) < Capacity /\ queue' = Append(queue, r)
      /\ call' = [call EXCEPT ![r] = to] /\ UNCHANGED <<loop, running, done>>
  BY DEF Enqueue
<1>2. /\ call \in [Requests -> Active \cup Results \cup {"none", "accepted", "busy", "left"}]
      /\ done \in [Requests -> Results \cup {"empty"}] /\ Placed /\ queue \in Seq(Requests)
  BY DEF QueueInv, QueueTypeOK
<1>3. to \in {"waiting", "accepted"} /\ \A x \in Requests : call'[x] = IF x = r THEN to ELSE call[x]
  BY <1>1, <1>2
<1> HIDE DEF to
<1>4. ~InQueue(r) /\ running # r /\ done[r] = "empty"
  BY <1>1, <1>2, CommandQueueAssumption DEF Placed, Outside
<1>5. /\ queue' \in Seq(Requests) /\ Len(queue') = Len(queue) + 1
      /\ \A x : InQueue(x)' <=> InQueue(x) \/ x = r
      /\ (\A i, j \in DOMAIN queue : queue[i] = queue[j] => i = j)'
  BY <1>1, <1>2, <1>4, Entered DEF Placed
<1>6. QueueTypeOK'
  <2>1. Len(queue') <= Capacity /\ Len(queue) \in Nat
    BY <1>1, <1>2, <1>5, CommandQueueAssumption
  <2> QED
    BY <1>1, <1>3, <1>5, <2>1 DEF QueueInv, QueueTypeOK, Active, Results
<1>7. Placed'
  <2>1. \A x \in Requests : InQueue(x)' => running' # x /\ done'[x] = "empty" /\ call'[x] \notin Outside
    BY <1>1, <1>2, <1>3, <1>4, <1>5 DEF Placed, Outside
  <2>2. running' # None => done'[running'] = "empty" /\ call'[running'] \notin Outside
    BY <1>1, <1>2, <1>3, <1>4 DEF Placed, Outside, QueueInv, QueueTypeOK
  <2>3. /\ \A x \in Requests : done'[x] # "empty" => call'[x] \notin Outside
        /\ \A x \in Requests : call'[x] \in Results => done'[x] = call'[x]
    BY <1>1, <1>2, <1>3 DEF Placed, Outside, Results
  <2> QED
    BY <1>5, <2>1, <2>2, <2>3 DEF Placed
<1>8. Phase(r) = "new" /\ Phase(r)' = "accepted"
  BY <1>1, <1>2, <1>3, <1>4, <1>5, PhaseIs, PhaseIsNext
<1>9. Moves(r, "accepted")
  BY <1>1, <1>2, <1>3, <1>5, <1>8, PhaseIs, PhaseIsNext DEF Moves
<1>10. Silent
  BY <1>1, <1>2, <1>3 DEF Silent, Told, Results
<1> QED
  BY <1>6, <1>7, <1>8, <1>9, <1>10, Accepts DEF QueueInv, SerialStep, Serial!Next

LEMMA TakeStep == QueueInv /\ Take => QueueInv' /\ SerialStep
<1> SUFFICES ASSUME QueueInv, Take PROVE QueueInv' /\ SerialStep
  OBVIOUS
<1>0. PICK r : r = Head(queue)
  OBVIOUS
<1>1. /\ loop = "select" /\ queue # <<>> /\ loop' = "command" /\ running' = r /\ queue' = Tail(queue)
      /\ UNCHANGED <<done, call>>
  BY <1>0 DEF Take
<1>2. /\ call \in [Requests -> Active \cup Results \cup {"none", "accepted", "busy", "left"}]
      /\ done \in [Requests -> Results \cup {"empty"}] /\ Placed /\ queue \in Seq(Requests)
      /\ Len(queue) <= Capacity /\ Len(queue) \in Nat /\ running = None
  BY <1>1 DEF QueueInv, QueueTypeOK
<1>3. /\ queue' \in Seq(Requests) /\ Len(queue') = Len(queue) - 1
      /\ r \in Requests /\ InQueue(r)
      /\ \A x : InQueue(x)' <=> InQueue(x) /\ x # r
      /\ (\A i, j \in DOMAIN queue : queue[i] = queue[j] => i = j)'
  BY <1>0, <1>1, <1>2, Taken DEF Placed
<1>4. r # None /\ \A x \in Requests : x # None
  BY <1>3, CommandQueueAssumption
<1>5. QueueTypeOK'
  <2>1. Len(queue') <= Capacity
    BY <1>2, <1>3, CommandQueueAssumption
  <2> QED
    BY <1>1, <1>3, <1>4, <2>1 DEF QueueInv, QueueTypeOK
<1>6. Placed'
  BY <1>1, <1>2, <1>3, <1>4 DEF Placed
<1>7. done[r] = "empty" /\ call[r] # "busy"
  BY <1>2, <1>3 DEF Placed, Outside
<1>8. Phase(r) = "accepted" /\ Phase(r)' = "running"
  BY <1>1, <1>2, <1>3, <1>4, <1>7, PhaseIs, PhaseIsNext
<1>9. Moves(r, "running")
  BY <1>1, <1>2, <1>3, <1>4, <1>8, PhaseIs, PhaseIsNext DEF Moves
<1>10. \A x \in Requests : Phase(x) # "running"
  BY <1>2, <1>4, PhaseIs DEF Results
<1>11. Silent
  BY <1>1 DEF Silent, Told
<1> QED
  BY <1>3, <1>5, <1>6, <1>8, <1>9, <1>10, <1>11, Begins DEF QueueInv, SerialStep, Serial!Next

LEMMA EndCommandStep == QueueInv /\ EndCommand => QueueInv' /\ SerialStep
<1> SUFFICES ASSUME QueueInv, EndCommand PROVE QueueInv' /\ SerialStep
  OBVIOUS
<1>1. PICK result \in Results : Finish(result)
  BY DEF EndCommand
<1>0. PICK r : r = running
  OBVIOUS
<1>2. /\ loop = "command" /\ done' = [done EXCEPT ![r] = result]
      /\ loop' = "select" /\ running' = None /\ UNCHANGED <<queue, call>>
  BY <1>0, <1>1 DEF EndCommand, Finish
<1>3. /\ call \in [Requests -> Active \cup Results \cup {"none", "accepted", "busy", "left"}]
      /\ done \in [Requests -> Results \cup {"empty"}] /\ Placed /\ r \in Requests /\ r # None
  BY <1>0, <1>2 DEF QueueInv, QueueTypeOK
<1>4. /\ \A x \in Requests : done'[x] = IF x = r THEN result ELSE done[x]
      /\ \A x : InQueue(x)' <=> InQueue(x)
      /\ \A x \in Requests : x # None
  BY <1>2, <1>3, CommandQueueAssumption DEF InQueue
<1>5. done[r] = "empty" /\ call[r] \notin Outside /\ ~InQueue(r) /\ result # "empty"
  BY <1>0, <1>1, <1>3 DEF Placed, Results
<1>6. QueueTypeOK'
  BY <1>1, <1>2, <1>3 DEF QueueInv, QueueTypeOK
<1>7. Placed'
  <2>1. (\A i, j \in DOMAIN queue : queue[i] = queue[j] => i = j)'
    BY <1>2, <1>3 DEF Placed
  <2>2. \A x \in Requests : InQueue(x)' => running' # x /\ done'[x] = "empty" /\ call'[x] \notin Outside
    BY <1>2, <1>3, <1>4, <1>5 DEF Placed
  <2>3. \A x \in Requests : done'[x] # "empty" => call'[x] \notin Outside
    BY <1>2, <1>3, <1>4, <1>5 DEF Placed
  <2>4. \A x \in Requests : call'[x] \in Results => done'[x] = call'[x]
    BY <1>2, <1>3, <1>4, <1>5 DEF Placed, Results
  <2> QED
    BY <1>2, <2>1, <2>2, <2>3, <2>4 DEF Placed
<1>8. Phase(r) = "running" /\ Phase(r)' = result
  BY <1>0, <1>2, <1>3, <1>4, <1>5, PhaseIs, PhaseIsNext
<1>9. Moves(r, result)
  BY <1>0, <1>2, <1>3, <1>4, <1>8, PhaseIs, PhaseIsNext DEF Moves
<1>10. Silent
  BY <1>2 DEF Silent, Told
<1> QED
  BY <1>3, <1>6, <1>7, <1>8, <1>9, <1>10, Finishes DEF QueueInv, SerialStep, Serial!Next

\* The loop goes from one piece of work to the next without a command.
LEMMA LoopStep ==
    ASSUME QueueInv, UNCHANGED <<queue, running, done, call>>, loop # "command", loop' # "command",
           loop' \in {"startup", "select", "task", "flush", "ended"}
    PROVE  QueueInv' /\ SerialStep
<1>1. QueueTypeOK'
  BY DEF QueueInv, QueueTypeOK
<1>2. Placed'
  BY DEF QueueInv, Placed, InQueue
<1>3. Still /\ Silent
  BY DEF Still, Silent, Phase, Told
<1> QED
  BY <1>1, <1>2, <1>3, Stutters DEF QueueInv, SerialStep

LEMMA QueueSteps == QueueInv /\ [Next]_vars => QueueInv' /\ SerialStep
<1> SUFFICES ASSUME QueueInv, QueueStep PROVE QueueInv' /\ SerialStep
  BY NextQueue
<1>1. CASE \E r \in Requests : Submit(r) \/ Busy(r) \/ Leave(r) \/ Answer(r)
  BY <1>1, CallStep DEF Submit, Busy, Leave, Answer
<1>2. CASE \E r \in Requests : Enqueue(r)
  BY <1>2, EnqueueStep
<1>3. CASE BeginTask \/ EndTask \/ BeginFlush \/ EndFlush
  BY <1>3, LoopStep DEF BeginTask, EndTask, BeginFlush, EndFlush
<1>4. CASE UNCHANGED queueVars
  <2>1. UNCHANGED <<queue, loop, running, done, call>>
    BY <1>4 DEF queueVars
  <2>2. QueueTypeOK'
    BY <2>1 DEF QueueInv, QueueTypeOK
  <2>3. Placed'
    BY <2>1 DEF QueueInv, Placed, InQueue
  <2>4. Still /\ Silent
    BY <2>1 DEF Still, Silent, Phase, Told
  <2> QED
    BY <2>2, <2>3, <2>4, Stutters DEF QueueInv, SerialStep
<1> QED
  BY <1>1, <1>2, <1>3, <1>4, TakeStep, EndCommandStep DEF QueueStep

\* Commands run one at a time, at most once and never after they were refused,
\* for any number of them and any capacity of the queue.
THEOREM SerialExecution == Spec => CommandsAreSerial
<1>1. Init => QueueInv /\ Serial!Init
  BY QueueInitInv DEF Init
<1>2. QueueInv /\ [Next]_vars => QueueInv' /\ [Serial!Next]_(Serial!vars)
  BY QueueSteps DEF SerialStep
<1>3. Spec => []QueueInv
  BY <1>1, <1>2, PTL DEF Spec
<1>4. Spec => Serial!Spec
  BY <1>1, <1>2, <1>3, PTL DEF Spec, Serial!Spec
<1> QED
  BY <1>4 DEF CommandsAreSerial

-----------------------------------------------------------------------------
(* Callers that wait                                                        *)

\* The command of a caller that waits is somewhere where it will be answered:
\* it is queued, it runs, or its result is there to be read.
NobodyForgotten ==
    \A r \in Requests : call[r] = "waiting" => InQueue(r) \/ running = r \/ done[r] \in Results

\* A command in the queue keeps its place, moves up by one, or runs; and the
\* one that runs gets its result: nothing is overtaken, dropped or begun twice.
InTurn ==
    [][/\ \A i \in DOMAIN queue :
             \/ i \in DOMAIN queue' /\ queue'[i] = queue[i]
             \/ i > 1 /\ i - 1 \in DOMAIN queue' /\ queue'[i - 1] = queue[i]
             \/ i = 1 /\ running = None /\ running' = queue[1]
       /\ running # None => \/ running' = running
                            \/ running' = None /\ done'[running] \in Results]_vars

\* A caller enters the queue as it begins to wait, and leaves nothing behind.
LEMMA ForgottenByNone == QueueInv /\ NobodyForgotten /\ [Next]_vars => NobodyForgotten'
<1> SUFFICES ASSUME QueueInv, NobodyForgotten, QueueStep PROVE NobodyForgotten'
  BY NextQueue
<1>1. /\ call \in [Requests -> Active \cup Results \cup {"none", "accepted", "busy", "left"}]
      /\ done \in [Requests -> Results \cup {"empty"}] /\ Placed /\ queue \in Seq(Requests)
  BY DEF QueueInv, QueueTypeOK
<1>2. CASE \E r \in Requests : Submit(r) \/ Busy(r) \/ Leave(r) \/ Answer(r)
  <2>1. UNCHANGED <<queue, running, done>> /\ \A x \in Requests : call'[x] = "waiting" => call[x] = "waiting"
    BY <1>1, <1>2 DEF Submit, Busy, Leave, Answer, Results
  <2> QED
    BY <2>1 DEF NobodyForgotten, InQueue
<1>3. CASE \E r \in Requests : Enqueue(r)
  <2>1. PICK r \in Requests : Enqueue(r)
    BY <1>3
  <2>2. /\ queue' = Append(queue, r) /\ UNCHANGED <<running, done>>
        /\ \A x \in Requests : x # r => call'[x] = call[x]
    BY <1>1, <2>1 DEF Enqueue
  <2>3. ~InQueue(r)
    BY <1>1, <2>1 DEF Enqueue, Placed, Outside
  <2>4. \A x : InQueue(x)' <=> InQueue(x) \/ x = r
    BY <1>1, <2>2, <2>3, Entered DEF Placed
  <2> QED
    BY <2>2, <2>4 DEF NobodyForgotten
<1>4. CASE Take
  <2>1. /\ queue # <<>> /\ queue' = Tail(queue) /\ running' = Head(queue) /\ UNCHANGED <<done, call>>
        /\ running = None
    BY <1>4 DEF Take, QueueInv, QueueTypeOK
  <2>2. \A x : InQueue(x)' <=> InQueue(x) /\ x # Head(queue)
    BY <1>1, <2>1, Taken DEF Placed
  <2> QED
    BY <2>1, <2>2, CommandQueueAssumption DEF NobodyForgotten
<1>5. CASE EndCommand
  <2>1. PICK result \in Results : Finish(result)
    BY <1>5 DEF EndCommand
  <2>2. UNCHANGED <<queue, call>> /\ \A x \in Requests : done'[x] = IF x = running THEN result ELSE done[x]
    BY <1>1, <2>1 DEF Finish
  <2> QED
    BY <2>2 DEF NobodyForgotten, InQueue
<1>6. CASE BeginTask \/ EndTask \/ BeginFlush \/ EndFlush \/ UNCHANGED queueVars
  <2>1. UNCHANGED <<queue, running, done, call>>
    BY <1>6 DEF BeginTask, EndTask, BeginFlush, EndFlush, queueVars
  <2> QED
    BY <2>1 DEF NobodyForgotten, InQueue
<1> QED
  BY <1>2, <1>3, <1>4, <1>5, <1>6 DEF QueueStep

\* Behind "a caller hears something in the end": fairness only has to make the
\* loop move.
THEOREM WaitersAreServed == Spec => []NobodyForgotten
<1>1. Init => QueueInv /\ NobodyForgotten
  <2> SUFFICES ASSUME QueueInit PROVE NobodyForgotten
    BY QueueInitInv DEF Init
  <2> QED
    BY DEF QueueInit, NobodyForgotten
<1>2. QueueInv /\ NobodyForgotten /\ [Next]_vars => (QueueInv /\ NobodyForgotten)'
  BY QueueSteps, ForgottenByNone
<1> QED
  BY <1>1, <1>2, PTL DEF Spec

\* First come, first served, and never before the command in front is done.
THEOREM CommandsTakeTurns == Spec => InTurn
<1> DEFINE Turn ==
        /\ \A i \in DOMAIN queue :
              \/ i \in DOMAIN queue' /\ queue'[i] = queue[i]
              \/ i > 1 /\ i - 1 \in DOMAIN queue' /\ queue'[i - 1] = queue[i]
              \/ i = 1 /\ running = None /\ running' = queue[1]
        /\ running # None => \/ running' = running
                             \/ running' = None /\ done'[running] \in Results
<1>1. QueueInv /\ [Next]_vars => Turn
  <2> SUFFICES ASSUME QueueInv, QueueStep PROVE Turn
    BY NextQueue
  <2>1. queue \in Seq(Requests) /\ done \in [Requests -> Results \cup {"empty"}]
    BY DEF QueueInv, QueueTypeOK
  <2>2. CASE UNCHANGED <<queue, running>>
    BY <2>2
  <2>3. CASE \E r \in Requests : Enqueue(r)
    <3>1. PICK r \in Requests : queue' = Append(queue, r) /\ running' = running
      BY <2>3 DEF Enqueue
    <3>2. /\ DOMAIN queue = 1..Len(queue) /\ DOMAIN queue' = 1..(Len(queue) + 1) /\ Len(queue) \in Nat
          /\ \A i \in 1..Len(queue) : queue'[i] = queue[i]
      BY <2>1, <3>1
    <3> QED
      BY <3>1, <3>2
  <2>4. CASE Take
    <3>1. queue # <<>> /\ queue' = Tail(queue) /\ running' = Head(queue) /\ running = None
      BY <2>4 DEF Take, QueueInv, QueueTypeOK
    <3>2. /\ DOMAIN queue = 1..Len(queue) /\ DOMAIN queue' = 1..(Len(queue) - 1) /\ Len(queue) \in Nat \ {0}
          /\ \A i \in 1..(Len(queue) - 1) : queue'[i] = queue[i + 1]
          /\ Head(queue) = queue[1]
      BY <2>1, <3>1
    <3>3. ASSUME NEW i \in DOMAIN queue, i # 1
          PROVE  i > 1 /\ i - 1 \in DOMAIN queue' /\ queue'[i - 1] = queue[i]
      <4>1. i > 1 /\ i - 1 \in 1..(Len(queue) - 1) /\ (i - 1) + 1 = i
        BY <3>2, <3>3
      <4> QED
        BY <3>2, <4>1
    <3> QED
      BY <3>1, <3>2, <3>3
  <2>5. CASE EndCommand
    <3>1. PICK result \in Results : Finish(result)
      BY <2>5 DEF EndCommand
    <3>2. queue' = queue /\ running \in Requests /\ running' = None /\ done' = [done EXCEPT ![running] = result]
      BY <2>5, <3>1, CommandQueueAssumption DEF EndCommand, Finish, QueueInv, QueueTypeOK
    <3> QED
      BY <2>1, <3>1, <3>2
  <2> QED
    BY <2>2, <2>3, <2>4, <2>5 DEF QueueStep, queueVars, Submit, Busy, Leave, Answer, BeginTask, EndTask,
                                  BeginFlush, EndFlush
<1> HIDE DEF Turn
<1>2. Spec => []QueueInv
  <2>1. Init => QueueInv
    BY QueueInitInv DEF Init
  <2> QED
    BY <2>1, QueueSteps, PTL DEF Spec
<1>3. Spec => [][Turn]_vars
  BY <1>1, <1>2, PTL DEF Spec
<1> QED
  BY <1>3 DEF Turn, InTurn

-----------------------------------------------------------------------------
(* Streams                                                                  *)

StreamTypes ==
    /\ version \in Nat /\ map \in Nat /\ written \in 0..version /\ changed \in Nat /\ due \in BOOLEAN
    /\ subs \subseteq Streams /\ closed \subseteq Streams /\ slot \subseteq Streams /\ pending \subseteq Streams
    /\ at \in [Streams -> {"none", "send", "encode", "wait", "return"}]
    /\ copy \in [Streams -> View] /\ shown \in [Streams -> View]

\* A handler that runs is subscribed, and no subscriber's channel is closed.
Subscribed ==
    /\ \A s \in Streams : at[s] # "none" => s \in subs
    /\ subs \cap closed = {}

\* Only a write into a published map shows in a view that is older.
Honest(view) == view.changed <= changed /\ (view.written > view.number => changed > view.changed)
ViewsAreHonest == \A s \in Streams : Honest(copy[s]) /\ Honest(shown[s])

StreamInv == StreamTypes /\ Subscribed /\ NoLostWakeup /\ ViewsAreHonest

StreamStep ==
    \/ Change \/ ChangeSelection \/ ConfirmTarget \/ Notify
    \/ \E s \in Streams : \/ Connect(s) \/ Read(s) \/ Sent(s) \/ SendFails(s) \/ Receive(s)
                          \/ Throttle(s) \/ Disconnect(s) \/ Cancel(s)
    \/ UNCHANGED streamVars

LEMMA NextStream == [Next]_vars => StreamStep
<1> SUFFICES ASSUME [Next]_vars PROVE StreamStep
  OBVIOUS
<1>1. CASE EngineChanges \/ EngineConfirms \/ EngineNotifies
  BY <1>1 DEF EngineChanges, EngineConfirms, EngineNotifies, Publishes, StreamStep
<1>2. CASE EngineBegins \/ EngineEnds \/ EngineStops \/ EngineReturns
  BY <1>2 DEF EngineBegins, EngineEnds, EngineStops, EngineReturns, Loops, StreamStep
<1>3. CASE \E r \in Requests : Requested(r) \/ Submits(r) \/ Answers(r) \/ Leaves(r)
  BY <1>3 DEF Requested, Submits, Answers, Leaves, Handles, StreamStep
<1>4. CASE \E s \in Streams : Opens(s) \/ Reads(s) \/ Writes(s) \/ Follows(s) \/ LetsGo(s) \/ Closes(s)
  BY <1>4 DEF Opens, Reads, Writes, Follows, LetsGo, Closes, Streaming, StreamStep
<1>5. CASE ListenFails \/ BeginsDraining \/ Drained \/ Signal \/ Exit \/ Tick
  BY <1>5 DEF ListenFails, BeginsDraining, Drained, Signal, Exit, Tick, StreamStep
<1>6. CASE Gone \/ UNCHANGED vars
  BY <1>6 DEF Gone, vars, StreamStep
<1> QED
  BY <1>1, <1>2, <1>3, <1>4, <1>5, <1>6 DEF Next

LEMMA StreamInitInv == StreamInit => StreamInv
<1> SUFFICES ASSUME StreamInit PROVE StreamInv
  OBVIOUS
<1>1. Nothing \in View /\ Nothing.written = 0 /\ Nothing.number = 0 /\ Nothing.changed = 0
  BY DEF Nothing, View
<1>2. \A s \in Streams : at[s] = "none" /\ copy[s] = Nothing /\ shown[s] = Nothing
  BY DEF StreamInit
<1>3. StreamTypes
  <2>1. version \in Nat /\ map \in Nat /\ written \in 0..version /\ changed \in Nat
    BY DEF StreamInit
  <2>2. due \in BOOLEAN /\ at \in [Streams -> {"none", "send", "encode", "wait", "return"}]
    BY DEF StreamInit
  <2>3. subs \subseteq Streams /\ closed \subseteq Streams /\ slot \subseteq Streams /\ pending \subseteq Streams
    BY DEF StreamInit
  <2>4. copy \in [Streams -> View] /\ shown \in [Streams -> View]
    BY <1>1 DEF StreamInit
  <2> QED
    BY <2>1, <2>2, <2>3, <2>4 DEF StreamTypes
<1>4. Subscribed /\ NoLostWakeup
  BY <1>2 DEF StreamInit, Subscribed, NoLostWakeup
<1>5. ViewsAreHonest
  BY <1>1, <1>2 DEF StreamInit, ViewsAreHonest, Honest
<1> QED
  BY <1>3, <1>4, <1>5 DEF StreamInv

\* After a change a notification is due, which is all a stream needs.
LEMMA PublishInv ==
    ASSUME StreamInv, Change \/ ChangeSelection \/ ConfirmTarget
    PROVE  StreamInv'
<1>1. /\ due' = TRUE /\ version' = version + 1 /\ UNCHANGED <<subs, closed, slot, pending, at, shown>>
      /\ map' \in {map, version'} /\ written' \in {written, version'} /\ changed' \in {changed, changed + 1}
  BY DEF Change, ChangeSelection, ConfirmTarget
<1>2. /\ version \in Nat /\ map \in Nat /\ written \in 0..version /\ changed \in Nat
      /\ copy \in [Streams -> View] /\ shown \in [Streams -> View]
  BY DEF StreamInv, StreamTypes
<1>3. /\ version' \in Nat /\ map' \in Nat /\ written' \in 0..version' /\ changed' \in Nat /\ changed' >= changed
  <2>1. version' \in Nat /\ version' >= version
    BY <1>1, <1>2
  <2>2. map' \in Nat
    BY <1>1, <1>2, <2>1
  <2>3. written' \in 0..version'
    BY <1>1, <1>2, <2>1
  <2>4. changed' \in Nat /\ changed' >= changed
    BY <1>1, <1>2
  <2> QED
    BY <2>1, <2>2, <2>3, <2>4
<1>4. \A s \in Streams :
         /\ copy'[s] \in View /\ copy'[s].changed = copy[s].changed /\ copy'[s].number = copy[s].number
         /\ copy'[s] = copy[s] \/ changed' = changed + 1
  <2>1. CASE Change \/ ChangeSelection
    BY <1>2, <2>1 DEF Change, ChangeSelection
  <2>2. CASE ConfirmTarget
    <3>1. PICK torn \in SUBSET Shared :
             copy' = [s \in Streams |-> IF s \in torn THEN [copy[s] EXCEPT !.written = version'] ELSE copy[s]]
      BY <2>2 DEF ConfirmTarget
    <3>2. CASE torn = {}
      BY <1>2, <3>1, <3>2
    <3>3. CASE torn # {}
      <4>1. map # 0
        BY <3>1, <3>3 DEF Shared
      <4>2. changed' = changed + 1
        BY <2>2, <4>1 DEF ConfirmTarget
      <4>3. \A s \in Streams : copy[s] \in View /\ copy'[s] \in {copy[s], [copy[s] EXCEPT !.written = version']}
        BY <1>2, <3>1
      <4> QED
        BY <1>3, <4>2, <4>3 DEF View
    <3> QED
      BY <3>2, <3>3
  <2> QED
    BY <2>1, <2>2
<1>5. copy' \in [Streams -> View]
  <2>1. copy' = [s \in Streams |-> copy'[s]]
    BY <1>2 DEF Change, ChangeSelection, ConfirmTarget
  <2> QED
    BY <1>4, <2>1
<1>6. StreamTypes'
  BY <1>1, <1>3, <1>5 DEF StreamInv, StreamTypes
<1>7. Subscribed' /\ NoLostWakeup'
  BY <1>1 DEF StreamInv, Subscribed, NoLostWakeup
<1>8. ViewsAreHonest'
  <2> SUFFICES ASSUME NEW s \in Streams PROVE (Honest(copy[s]) /\ Honest(shown[s]))'
    BY DEF ViewsAreHonest
  <2>1. Honest(copy[s]) /\ Honest(shown[s]) /\ copy[s] \in View /\ shown[s] \in View
    BY <1>2 DEF StreamInv, ViewsAreHonest
  <2>2. Honest(shown[s])'
    BY <1>1, <1>2, <1>3, <2>1 DEF Honest, View
  <2>3. Honest(copy[s])'
    BY <1>2, <1>3, <1>4, <2>1 DEF Honest, View
  <2> QED
    BY <2>2, <2>3
<1> QED
  BY <1>6, <1>7, <1>8 DEF StreamInv

LEMMA NotifyInv == StreamInv /\ Notify => StreamInv'
<1> SUFFICES ASSUME StreamInv, Notify PROVE StreamInv'
  OBVIOUS
<1>1. /\ due' = FALSE /\ slot' = slot \cup subs
      /\ UNCHANGED <<version, map, written, changed, subs, closed, pending, at, copy, shown>>
  BY DEF Notify
<1>2. StreamTypes'
  BY <1>1 DEF StreamInv, StreamTypes
<1>3. Subscribed' /\ ViewsAreHonest'
  BY <1>1 DEF StreamInv, Subscribed, ViewsAreHonest, Honest
<1>4. NoLostWakeup'
  BY <1>1 DEF StreamInv, Subscribed, NoLostWakeup
<1> QED
  BY <1>2, <1>3, <1>4 DEF StreamInv

\* A step of one handler, which leaves the others as they are.
LEMMA HandlerInv ==
    ASSUME StreamInv, NEW s \in Streams,
           \/ Connect(s) \/ Read(s) \/ Sent(s) \/ SendFails(s)
           \/ Receive(s) \/ Throttle(s) \/ Disconnect(s) \/ Cancel(s)
    PROVE  StreamInv'
<1>1. /\ UNCHANGED <<version, map, written, changed, due>>
      /\ at' \in [Streams -> {"none", "send", "encode", "wait", "return"}]
      /\ subs' \subseteq Streams /\ closed' \subseteq Streams /\ slot' \subseteq Streams /\ pending' \subseteq Streams
  BY DEF published, StreamInv, StreamTypes, Connect, Read, Sent, SendFails, Receive, Throttle, Disconnect, Cancel
<1>2. \A x \in Streams : x # s =>
         /\ at'[x] = at[x] /\ copy'[x] = copy[x] /\ shown'[x] = shown[x]
         /\ (x \in subs' <=> x \in subs) /\ (x \in closed' <=> x \in closed)
         /\ (x \in slot' <=> x \in slot) /\ (x \in pending' <=> x \in pending)
  BY DEF StreamInv, StreamTypes, Connect, Read, Sent, SendFails, Receive, Throttle, Disconnect, Cancel
<1>3. /\ version \in Nat /\ map \in Nat /\ written \in 0..version /\ changed \in Nat
      /\ copy \in [Streams -> View] /\ shown \in [Streams -> View] /\ Nothing \in View
      /\ Nothing.written = 0 /\ Nothing.number = 0 /\ Nothing.changed = 0
  BY DEF StreamInv, StreamTypes, Nothing, View
<1> DEFINE now == [number |-> version, map |-> map, written |-> written, changed |-> changed]
<1>4. now \in View
  BY <1>3 DEF View
<1>5. /\ copy' \in [Streams -> View] /\ shown' \in [Streams -> View]
      /\ copy'[s] \in {copy[s], Nothing, now} /\ shown'[s] \in {shown[s], copy[s], Nothing}
  BY <1>3, <1>4 DEF Connect, Read, Sent, SendFails, Receive, Throttle, Disconnect, Cancel
<1>6. StreamTypes'
  BY <1>1, <1>5 DEF StreamInv, StreamTypes
<1>7. Subscribed'
  <2>1. (at'[s] # "none" => s \in subs') /\ (s \notin subs' \/ s \notin closed')
    BY DEF StreamInv, StreamTypes, Subscribed, Connect, Read, Sent, SendFails, Receive, Throttle, Disconnect, Cancel
  <2> QED
    BY <1>1, <1>2, <2>1 DEF StreamInv, Subscribed
<1>8. NoLostWakeup'
  <2>1. LET told == due' \/ s \in slot' \/ s \in pending'
        IN  /\ at'[s] = "wait"   => told \/ shown'[s].number = version'
            /\ at'[s] = "encode" => told \/ copy'[s].number = version'
    BY <1>1, <1>3 DEF StreamInv, StreamTypes, NoLostWakeup, Connect, Read, Sent, SendFails, Receive, Throttle,
                      Disconnect, Cancel
  <2> QED
    BY <1>1, <1>2, <2>1 DEF StreamInv, NoLostWakeup
<1>9. ViewsAreHonest'
  <2>1. Honest(Nothing) /\ Honest(now) /\ \A x \in Streams : Honest(copy[x]) /\ Honest(shown[x])
    BY <1>3 DEF Honest, StreamInv, ViewsAreHonest
  <2> HIDE DEF now
  <2>2. \A x \in Streams : Honest(copy'[x]) /\ Honest(shown'[x])
    BY <1>2, <1>5, <2>1
  <2> QED
    BY <1>1, <2>2 DEF ViewsAreHonest, Honest
<1> QED
  BY <1>6, <1>7, <1>8, <1>9 DEF StreamInv

LEMMA StreamSteps == StreamInv /\ [Next]_vars => StreamInv'
<1> SUFFICES ASSUME StreamInv, StreamStep PROVE StreamInv'
  BY NextStream
<1>1. CASE UNCHANGED streamVars
  BY <1>1 DEF streamVars, StreamInv, StreamTypes, Subscribed, NoLostWakeup, ViewsAreHonest, Honest
<1> QED
  BY <1>1, PublishInv, NotifyInv, HandlerInv DEF StreamStep

\* The two parts side by side, and the types of what Service adds.
LifeTypes ==
    /\ workload \in Workloads /\ process \in {"up", "exited", "crashed"} /\ stopping \in BOOLEAN
    /\ server \in {"off", "serving", "draining", "returned"}
    /\ clock \in Nat /\ first \in (0..clock) \cup {Never}
    /\ cut \subseteq {"engine", "server", "main"}

\* The server has had no more than its time, and only a write into a published
\* map ends the process early.
InTime ==
    /\ server = "serving" => clock = 0
    /\ server = "draining" => clock <= Drain
    /\ "main" \notin cut
CrashNeedsWrite == process = "crashed" => changed > 0

Inv == QueueInv /\ StreamInv /\ LifeTypes /\ InTime /\ CrashNeedsWrite

LEMMA InitInv == Init => Inv
<1> SUFFICES ASSUME Init PROVE Inv
  OBVIOUS
<1>1. QueueInv /\ StreamInv
  BY QueueInitInv, StreamInitInv DEF Init
<1>2. server \in {"off", "serving"} /\ clock = 0 /\ first = Never /\ process = "up"
  BY DEF Init
<1>3. LifeTypes
  <2>1. clock \in Nat /\ first \in (0..clock) \cup {Never}
    BY <1>2
  <2>2. workload \in Workloads /\ stopping \in BOOLEAN /\ cut \subseteq {"engine", "server", "main"}
    BY DEF Init
  <2> QED
    BY <1>2, <2>1, <2>2 DEF LifeTypes
<1> QED
  BY <1>1, <1>2, <1>3 DEF Init, Inv, InTime, CrashNeedsWrite

\* main is out of patience only after the server has returned.
LEMMA MainWaits == Inv /\ Exit => server \in {"returned", "off"}
<1> SUFFICES ASSUME Inv, Exit, server \in {"serving", "draining"} PROVE FALSE
  BY DEF Inv, LifeTypes
<1>1. clock \in Nat /\ first \in (0..clock) \cup {Never} /\ Drain \in Nat /\ Unwind \in Nat /\ Drain < Unwind
  BY ServiceAssumption DEF Inv, LifeTypes
<1>2. first # Never /\ clock - first >= Unwind
  BY DEF Exit, BothReturned, OutOfPatience
<1>3. clock <= Drain
  BY <1>1 DEF Inv, InTime
<1> QED
  BY <1>1, <1>2, <1>3 DEF Never

\* Steps that leave Service's own variables alone but for the process.
LEMMA LifeStays ==
    ASSUME Inv, UNCHANGED <<workload, stopping, server, clock, first, cut>>,
           process' \in {"up", "exited", "crashed"}
    PROVE  LifeTypes' /\ InTime'
BY DEF Inv, LifeTypes, InTime, Never

LEMMA ReturnedTypes ==
    LifeTypes /\ first' = (IF first = Never THEN clock ELSE first) /\ clock' = clock
        => first' \in (0..clock') \cup {Never} /\ clock' \in Nat
<1> SUFFICES ASSUME LifeTypes, first' = (IF first = Never THEN clock ELSE first), clock' = clock
             PROVE  first' \in (0..clock) \cup {Never}
  BY DEF LifeTypes
<1>1. clock \in Nat /\ first \in (0..clock) \cup {Never}
  BY DEF LifeTypes
<1>2. clock \in 0..clock
  BY <1>1
<1> QED
  BY <1>1, <1>2

LEMMA LifeInv == Inv /\ [Next]_vars => LifeTypes' /\ InTime' /\ CrashNeedsWrite'
<1> SUFFICES ASSUME Inv, [Next]_vars PROVE LifeTypes' /\ InTime' /\ CrashNeedsWrite'
  OBVIOUS
<1>0. changed \in Nat /\ changed' \in Nat /\ LifeTypes
  BY StreamSteps DEF Inv, StreamInv, StreamTypes
<1>1. CASE UNCHANGED lifeVars
  <2>1. UNCHANGED <<workload, stopping, server, clock, first, cut, process>>
    BY <1>1 DEF lifeVars
  <2>2. changed' >= changed
    <3>1. StreamStep
      BY NextStream
    <3> QED
      BY <1>0, <3>1 DEF StreamStep, streamVars, published, Change, ChangeSelection, ConfirmTarget, Notify,
                        Connect, Read, Sent, SendFails, Receive, Throttle, Disconnect, Cancel
  <2> QED
    BY <1>0, <2>1, <2>2, LifeStays DEF Inv, LifeTypes, CrashNeedsWrite
<1>2. CASE EngineConfirms
  <2>1. /\ UNCHANGED <<workload, stopping, server, clock, first, cut>> /\ process' \in {"up", "crashed"}
        /\ process' = "crashed" => Shared # {}
    BY <1>2 DEF EngineConfirms
  <2>2. Shared # {} => map # 0
    BY DEF Shared
  <2>3. map # 0 => changed' = changed + 1
    BY <1>2 DEF EngineConfirms, Publishes, ConfirmTarget
  <2> QED
    BY <1>0, <2>1, <2>2, <2>3, LifeStays DEF CrashNeedsWrite
<1>3. CASE EngineNotifies
  <2>1. UNCHANGED <<workload, stopping, server, clock, first, cut>> /\ process' = "up"
    BY <1>3 DEF EngineNotifies, Inv, StreamInv, Subscribed
  <2> QED
    BY <2>1, LifeStays DEF CrashNeedsWrite
<1>4. CASE EngineReturns \/ ListenFails \/ BeginsDraining \/ Drained \/ Signal \/ Exit \/ Tick
  <2>1. CrashNeedsWrite'
    BY <1>4 DEF EngineReturns, ListenFails, BeginsDraining, Drained, Signal, Exit, Tick, Up, CrashNeedsWrite
  <2>2. CASE EngineReturns
    <3>1. /\ stopping' = TRUE /\ first' = (IF first = Never THEN clock ELSE first)
          /\ UNCHANGED <<workload, process, server, clock, cut>>
      BY <2>2 DEF EngineReturns, Returned
    <3> QED
      BY <1>0, <2>1, <3>1, ReturnedTypes DEF Inv, LifeTypes, InTime
  <2>3. CASE ListenFails \/ Drained
    <3>1. /\ stopping' = TRUE /\ first' = (IF first = Never THEN clock ELSE first)
          /\ UNCHANGED <<workload, process, clock>> /\ server' = "returned"
          /\ cut' \in {cut, cut \cup {"server"}}
      BY <2>3 DEF ListenFails, Drained, Returned
    <3>2. cut' \subseteq {"engine", "server", "main"} /\ "main" \notin cut'
      BY <1>0, <3>1 DEF Inv, LifeTypes, InTime
    <3> QED
      BY <1>0, <2>1, <3>1, <3>2, ReturnedTypes DEF LifeTypes, InTime
  <2>4. CASE BeginsDraining
    BY <1>0, <2>1, <2>4, ServiceAssumption DEF BeginsDraining, Inv, LifeTypes, InTime, Never
  <2>5. CASE Signal
    BY <1>0, <2>1, <2>5 DEF Signal, Inv, LifeTypes, InTime, Never
  <2>6. CASE Exit
    <3>1. cut' \subseteq {"engine", "server", "main"} /\ "main" \notin cut'
      BY <1>0, <2>6, MainWaits DEF Exit, Inv, LifeTypes, InTime
    <3> QED
      BY <1>0, <2>1, <2>6, <3>1 DEF Exit, Inv, LifeTypes, InTime, Never
  <2>7. CASE Tick
    <3>1. /\ server # "serving" /\ (server = "draining" => ~(clock >= Drain)) /\ clock' = clock + 1
          /\ UNCHANGED <<workload, process, stopping, server, first, cut>>
      BY <2>7 DEF Tick, Immediate
    <3>2. clock' \in Nat /\ first' \in (0..clock') \cup {Never}
      BY <1>0, <3>1 DEF LifeTypes, Never
    <3>3. InTime'
      <4>1. clock \in Nat /\ Drain \in Nat /\ (server = "draining" => clock + 1 <= Drain)
        BY <1>0, <3>1, ServiceAssumption DEF LifeTypes
      <4> QED
        BY <3>1, <4>1 DEF Inv, InTime
    <3> QED
      BY <1>0, <2>1, <3>1, <3>2, <3>3 DEF LifeTypes
  <2> QED
    BY <1>4, <2>2, <2>3, <2>4, <2>5, <2>6, <2>7
<1>5. \/ UNCHANGED lifeVars \/ EngineConfirms \/ EngineNotifies
      \/ EngineReturns \/ ListenFails \/ BeginsDraining \/ Drained \/ Signal \/ Exit \/ Tick
  BY DEF Next, vars, EngineChanges, EngineBegins, EngineEnds, EngineStops, Loops, Requested, Submits, Answers,
         Leaves, Handles, Opens, Reads, Writes, Follows, LetsGo, Closes, Streaming, Gone
<1> QED
  BY <1>1, <1>2, <1>3, <1>4, <1>5

\* The invariant holds in every behaviour.
THEOREM Invariance == Spec => []Inv
<1>1. Inv /\ [Next]_vars => Inv'
  BY QueueSteps, StreamSteps, LifeInv DEF Inv
<1> QED
  BY InitInv, <1>1, PTL DEF Spec

\* Every variable has its type.
THEOREM TypeCorrectness == Spec => []TypeOK
<1>1. Inv => TypeOK
  BY DEF Inv, QueueInv, StreamInv, StreamTypes, LifeTypes, TypeOK
<1> QED
  BY Invariance, <1>1, PTL

\* No stream misses the latest snapshot.
THEOREM WakeupsArrive == Spec => []NoLostWakeup
<1>1. Inv => NoLostWakeup
  BY DEF Inv, StreamInv
<1> QED
  BY Invariance, <1>1, PTL

\* What a stream writes is one snapshot, the shared map excepted.
THEOREM WholeViews == Spec => []ViewsAreWhole
<1>1. Inv => ViewsAreWhole
  BY DEF Inv, StreamInv, ViewsAreHonest, Honest, CrashNeedsWrite, ViewsAreWhole
<1> QED
  BY Invariance, <1>1, PTL

\* The shutdown waits for callers without a result and for slow clients only,
\* and main for the server.
THEOREM OrderlyShutdown == Spec => ShutdownIsOrderly
<1> DEFINE Orderly ==
        /\ "server" \in cut' \ cut =>
               \/ \E r \in Requests : call[r] = "waiting" /\ done[r] = "empty"
               \/ \E s \in Streams : at[s] = "encode"
        /\ "main" \notin cut'
<1>1. Inv /\ [Next]_vars => Orderly
  <2> SUFFICES ASSUME Inv, [Next]_vars PROVE Orderly
    OBVIOUS
  <2>1. "main" \notin cut'
    BY LifeInv DEF InTime
  <2>2. ASSUME "server" \in cut' \ cut
        PROVE  \/ \E r \in Requests : call[r] = "waiting" /\ done[r] = "empty"
               \/ \E s \in Streams : at[s] = "encode"
    <3>1. Drained /\ Handlers # {}
      <4>1. UNCHANGED cut \/ Drained \/ Exit
        BY DEF Next, vars, lifeVars, EngineChanges, EngineConfirms, EngineNotifies, EngineBegins, EngineEnds,
               EngineStops, EngineReturns, Loops, Requested, Submits, Answers, Leaves, Handles, Opens, Reads,
               Writes, Follows, LetsGo, Closes, Streaming, ListenFails, BeginsDraining, Signal, Tick, Gone
      <4>2. Exit => "server" \notin cut' \ cut
        BY DEF Exit
      <4>3. Drained
        BY <2>2, <4>1, <4>2
      <4> QED
        BY <2>2, <4>3 DEF Drained
    <3>2. ~HandlersMove /\ LetGo
      BY <3>1 DEF Drained, LetGo
    <3>3. CASE \E r \in Requests : call[r] \in Active
      <4>1. PICK r \in Requests : call[r] \in Active
        BY <3>3
      <4>2. call[r] = "waiting" /\ done[r] \notin Results
        BY <3>2, <4>1 DEF HandlersMove, Active
      <4>3. done[r] = "empty"
        BY <4>2 DEF Inv, QueueInv, QueueTypeOK
      <4> QED
        BY <4>2, <4>3
    <3>4. CASE \E s \in Streams : at[s] # "none"
      <4>1. PICK s \in Streams : at[s] # "none"
        BY <3>4
      <4>2. at[s] = "encode"
        BY <3>2, <4>1 DEF HandlersMove, Inv, StreamInv, StreamTypes
      <4> QED
        BY <4>2
    <3> QED
      BY <3>1, <3>3, <3>4 DEF Handlers
  <2> QED
    BY <2>1, <2>2
<1> HIDE DEF Orderly
<1>2. Spec => [][Orderly]_vars
  BY Invariance, <1>1, PTL DEF Spec
<1> QED
  BY <1>2 DEF Orderly, ShutdownIsOrderly
-----------------------------------------------------------------------------
(* How long the process can take to stop                                    *)

\* Until something has returned only the server's time passes, and after that
\* only main's.
WithinDeadlines ==
    /\ first = Never => clock <= Drain /\ (server # "draining" => clock = 0)
    /\ first # Never => first <= Drain /\ clock - first <= Unwind

LEMMA DeadlinesHold == Inv /\ WithinDeadlines /\ [Next]_vars => WithinDeadlines'
<1> SUFFICES ASSUME Inv, WithinDeadlines, [Next]_vars PROVE WithinDeadlines'
  OBVIOUS
<1>1. /\ clock \in Nat /\ first \in (0..clock) \cup {Never} /\ Drain \in Nat /\ Unwind \in Nat
      /\ server = "draining" => clock <= Drain
  BY ServiceAssumption DEF Inv, LifeTypes, InTime
<1>2. CASE UNCHANGED <<server, clock, first>>
  BY <1>2 DEF WithinDeadlines
<1>3. CASE EngineReturns \/ ListenFails \/ Drained
  <2>1. first' = (IF first = Never THEN clock ELSE first) /\ clock' = clock
    BY <1>3 DEF EngineReturns, ListenFails, Drained, Returned
  <2>2. CASE first = Never
    <3>1. clock <= Drain /\ first' = clock /\ first' # Never /\ clock' - first' = 0
      BY <1>1, <2>1, <2>2 DEF WithinDeadlines, Never
    <3> QED
      BY <1>1, <3>1 DEF WithinDeadlines
  <2>3. CASE first # Never
    BY <2>1, <2>3 DEF WithinDeadlines
  <2> QED
    BY <2>2, <2>3
<1>4. CASE BeginsDraining
  BY <1>4 DEF BeginsDraining, WithinDeadlines
<1>5. CASE Tick
  <2>1. /\ clock' = clock + 1 /\ server' = server /\ first' = first
        /\ server = "draining" \/ first # Never
        /\ server = "draining" => ~(clock >= Drain)
        /\ ~(first # Never /\ clock - first >= Unwind)
    BY <1>5 DEF Tick, Immediate, OutOfPatience
  <2>2. CASE first = Never
    BY <1>1, <2>1, <2>2 DEF WithinDeadlines
  <2>3. CASE first # Never
    BY <1>1, <2>1, <2>3 DEF WithinDeadlines
  <2> QED
    BY <2>2, <2>3
<1>6. \/ UNCHANGED <<server, clock, first>> \/ EngineReturns \/ ListenFails \/ Drained
      \/ BeginsDraining \/ Tick
  BY DEF Next, vars, lifeVars, EngineChanges, EngineConfirms, EngineNotifies, EngineBegins, EngineEnds,
         EngineStops, Loops, Publishes, Requested, Submits, Answers, Leaves, Handles, Opens, Reads, Writes,
         Follows, LetsGo, Closes, Streaming, Signal, Exit, Gone
<1> QED
  BY <1>2, <1>3, <1>4, <1>5, <1>6

\* Whatever the handlers, their clients and the engine are doing, the process
\* that was asked to stop is gone when both deadlines are over, and it takes
\* both only if no component returned before the server's deadline.
THEOREM StopsInTime == Spec => [](clock <= Drain + Unwind)
<1>1. Init => WithinDeadlines
  BY ServiceAssumption DEF Init, WithinDeadlines
<1>2. Inv /\ WithinDeadlines => clock <= Drain + Unwind
  <2> SUFFICES ASSUME Inv, WithinDeadlines PROVE clock <= Drain + Unwind
    OBVIOUS
  <2>1. clock \in Nat /\ first \in (0..clock) \cup {Never} /\ Drain \in Nat /\ Unwind \in Nat
    BY ServiceAssumption DEF Inv, LifeTypes
  <2> QED
    BY <2>1 DEF WithinDeadlines, Never
<1> QED
  BY Invariance, DeadlinesHold, <1>1, <1>2, PTL DEF Spec
====
