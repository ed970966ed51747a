-------------------------- MODULE SwitchingHistory --------------------------
(***************************************************************************)
(* Switching with a memory of what happened, for the properties that       *)
(* relate a step to an earlier one.  The history variables only observe:   *)
(* every behaviour of Switching is a behaviour here.  A run tracks the     *)
(* ones its properties need.                                               *)
(***************************************************************************)
EXTENDS Switching

CONSTANT Track   \* which of "operatorDown", "torn", "landed", "sinceTorn" a run follows

VARIABLES
    operatorDown,  \* the tunnel is down since the operator stopped it here
    torn,          \* how often the round in progress took a live tunnel down
    landed,        \* where the last verified automatic switch went, while that stands
    sinceTorn      \* ticks since an automatic round last took a live tunnel down

history == <<operatorDown, torn, landed, sinceTorn>>

\* A step of the loop that takes a live tunnel down.
Tears == gl.on # None /\ gl'.on = None /\ pc \in {"pin", "stop"} /\ pc' # pc

\* The operator stops the tunnel through this tool, and Gluetun answers.
OperatorStops ==
    /\ gl.status # "stopped" /\ gl'.status = "stopped"
    /\ pc = "idle" /\ pc' = "check"

NextOperatorDown == gl'.status = "stopped" /\ (operatorDown \/ OperatorStops)

NextTorn ==
    CASE job'.kind = "none" -> 0
      [] job'.kind # "none" /\ Tears /\ torn < 2 -> torn + 1
      [] OTHER -> torn

\* It no longer stands when the ranking, Gluetun or this process is replaced, or
\* the operator moves the tunnel.
NextLanded ==
    CASE age' = 0 /\ age # 0 /\ job.kind = "auto" -> job.target
      [] \/ ranked' # ranked \/ Faulty \/ LateEffect
         \/ job'.kind \in {"best", "host"}         -> None
      [] OTHER -> landed

NextSinceTorn ==
    CASE Tears /\ job.kind = "auto" -> 0
      [] ~(Tears /\ job.kind = "auto") /\ Tick /\ sinceTorn < MaxAge -> sinceTorn + 1
      [] OTHER -> sinceTorn

Follow(name, next, current) == IF name \in Track THEN next ELSE current

HInit ==
    /\ Init
    /\ operatorDown = FALSE /\ torn = 0 /\ landed = None /\ sinceTorn = MaxAge

HNext ==
    /\ Next
    /\ operatorDown' = Follow("operatorDown", NextOperatorDown, operatorDown)
    /\ torn' = Follow("torn", NextTorn, torn)
    /\ landed' = Follow("landed", NextLanded, landed)
    /\ sinceTorn' = Follow("sinceTorn", NextSinceTorn, sinceTorn)

HSpec == HInit /\ [][HNext]_<<vars, history>>

\* With the deadlines of the loop; what ends a round is then up to the loop alone.
HLoopSpec == HSpec /\ LoopFairness

-----------------------------------------------------------------------------
\* A tunnel the operator was told is stopped is not started by an automatic
\* round, whatever fails, drops or restarts since: evaluate treats a stopped
\* tunnel as a decision, and a round never has one under it.
StopStands ==
    [][operatorDown /\ gl'.status # "stopped" =>
          ~(pc = "start" /\ job.kind = "auto")]_<<vars, history>>

\* One round interrupts a live tunnel at most once, whatever times out, is
\* refused or is refreshed: a mutation whose outcome is unknown is verified and
\* never sent again, and any error but a refusal ends the round.
OneInterruption == torn <= 1

\* A verified switch to the best server is not followed by another automatic
\* round while nothing has changed, although the next health check may be
\* minutes away: tryCandidates records the selection it just applied.
StaysOnBest ==
    landed # None /\ ranked # <<>> /\ landed = ranked[1].host /\ job.kind = "auto" =>
        ~Attempting

\* engine.go, minIntervalRemaining: "the tunnel - and every connection through
\* it - cannot be torn down more often than this".  Only a verified switch is
\* dated, so a round whose verification fails leaves the next one free to go.
FloorBoundsTearDowns ==
    [][Tears /\ job.kind = "auto" => sinceTorn >= MinInterval]_<<vars, history>>

=============================================================================
