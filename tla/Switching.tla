------------------------------ MODULE Switching ------------------------------
(***************************************************************************)
(* The engine's run loop as far as it moves the tunnel: the health check,  *)
(* the evaluation, a switch round (one candidate after another, the        *)
(* explicit restart, the verification, the refresh of Gluetun's own list), *)
(* the dashboard commands that touch the tunnel, and Gluetun as the loop   *)
(* meets it through its control server.                                    *)
(*                                                                         *)
(* One goroutine runs all of it, so there is one program counter.  Every   *)
(* call to Gluetun is a step of its own, between which Gluetun, the clock  *)
(* and the operator move freely; whatever the loop does between two calls  *)
(* is part of the step that ends the first one.                            *)
(***************************************************************************)
EXTENDS Integers, Sequences

CONSTANTS
    Servers,          \* hostnames of the catalogue
    None,             \* no server: "" in the code
    Mode,             \* RECONNECT_MODE: "settings", "status" or "none"
    MinInterval,      \* SWITCHING_MIN_INTERVAL, in ticks of the clock
    Cooldown,         \* SWITCHING_COOLDOWN, in ticks of the clock
    MaxAge,           \* BOUND on the clock: an older switch is as good as none
    MinImprovement,   \* SWITCHING_MIN_IMPROVEMENT
    LoadTrigger,      \* SWITCHING_LOAD_TRIGGER, 0 when disabled
    Candidates,       \* SWITCHING_CANDIDATES, how many are tried
    RefreshOnReject,  \* GLUETUN_REFRESH_SERVERS_ON_REJECT
    Guarded,          \* whether qBittorrent is configured
    Rankings,         \* the rankings rerank can publish, best server first
    BootSelection,    \* hostnames in the filters Gluetun is started with
    Lists,            \* the server lists Gluetun can load
    Published,        \* servers whose exit address is the one Proton lists
    Dead,             \* servers a connection to never comes up
    Roles,            \* sets of routes the control server's role may forbid
    FaultKinds,       \* the kinds of fault that happen in a run
    MaxFaults         \* BOUND on how many faults happen in a behaviour

Statuses == {"running", "starting", "stopping", "stopped", "crashed"}
Entries  == [host : Servers, score : Nat, load : Nat]

ASSUME SwitchingAssumption ==
    /\ None \notin Servers
    /\ {"stop", "start"} \cap (Servers \cup {None}) = {}
    /\ Mode \in {"settings", "status", "none"}
    /\ MinInterval \in Nat /\ Cooldown \in Nat
    /\ MaxAge \in Nat /\ MinInterval <= MaxAge /\ Cooldown <= MaxAge
    /\ MinImprovement \in Nat /\ LoadTrigger \in Nat /\ Candidates \in Nat
    /\ RefreshOnReject \in BOOLEAN /\ Guarded \in BOOLEAN
    /\ Rankings # {} /\ Rankings \subseteq Seq(Entries)
    /\ Lists # {} /\ Lists \subseteq (SUBSET Servers) \ {{}}
    /\ BootSelection \subseteq Servers /\ Published \subseteq Servers /\ Dead \subseteq Servers
    /\ Roles # {} /\ Roles \subseteq SUBSET {"settings", "status", "updater"}
    /\ MaxFaults \in Nat

VARIABLES
    gl,            \* Gluetun: status, sel(ection), list, on, late, updating, proton, denied
    snap,          \* the part of the published snapshot that decisions read
    ranked,        \* e.ranked
    known,         \* e.gluetunKnownHosts, {} when nothing was learned
    needsRestart,  \* snapshot.Selection.NeedsGluetunRestart
    pc,            \* where the run loop is
    seen,          \* the status checkGluetun read before the settings
    job,           \* the locals of the round in progress
    pinned,        \* persisted: PinnedHostname
    age,           \* persisted: ticks since LastSwitchAt, MaxAge when long ago or never
    auto,          \* persisted: AutoSwitch
    faults         \* faults still allowed

engineVars == <<snap, ranked, known, needsRestart, pc, seen, job, pinned, age, auto>>
vars == <<gl, snap, ranked, known, needsRestart, pc, seen, job, pinned, age, auto, faults>>

NoJob == [kind |-> "none", prev |-> None, at |-> 1, target |-> None, second |-> FALSE,
          refused |-> FALSE, skipped |-> FALSE, prevIP |-> None, why |-> "none"]

NoSnapshot == [reachable |-> FALSE, status |-> "", readable |-> FALSE, sel |-> {},
               exit |-> None, mismatch |-> FALSE]

PCs == {"idle", "check", "settings", "evaluate", "next", "settle", "pin", "stop", "start",
        "verify", "confirm", "refresh", "await"}

Gluetuns ==
    [status : Statuses, sel : SUBSET Servers, list : SUBSET Servers,
     on : Servers \cup {None}, late : Servers \cup {None, "stop", "start"},
     updating : BOOLEAN, proton : BOOLEAN, denied : Roles]

Snapshots ==
    [reachable : BOOLEAN, status : Statuses \cup {""}, readable : BOOLEAN,
     sel : SUBSET Servers, exit : Servers \cup {None}, mismatch : BOOLEAN]

Jobs ==
    [kind : {"none", "auto", "best", "host", "updater"}, prev : Servers \cup {None},
     at : Nat \ {0}, target : Servers \cup {None}, second : BOOLEAN,
     refused : BOOLEAN, skipped : BOOLEAN, prevIP : Servers \cup {None},
     why : {"none", "retry", "after", "command"}]

\* Every variable has its type; in particular what Gluetun disclosed in a
\* refusal (learnGluetunHostnames) holds hostnames and nothing else.
TypeOK ==
    /\ gl \in Gluetuns /\ snap \in Snapshots /\ job \in Jobs
    /\ ranked \in Rankings
    /\ known \in SUBSET Servers
    /\ needsRestart \in BOOLEAN
    /\ pc \in PCs
    /\ seen \in Statuses \cup {""}
    /\ pinned \in Servers \cup {None}
    /\ age \in 0..MaxAge
    /\ auto \in BOOLEAN
    /\ faults \in 0..MaxFaults

Fault(kind) ==
    /\ kind \in FaultKinds
    /\ faults > 0
    /\ faults' = faults - 1

-----------------------------------------------------------------------------
(* What the loop reads from the ranking and the snapshot.                   *)

Hosts(r)    == {r[i].host : i \in DOMAIN r}
Entry(r, h) == r[CHOOSE i \in DOMAIN r : r[i].host = h]

\* scoring.TopN: a prefix of the ranking, all of it for n <= 0.
TopN == IF Candidates = 0 \/ Candidates >= Len(ranked) THEN Len(ranked) ELSE Candidates

CurrentHostname ==
    CASE \E h \in Servers : snap.sel = {h} -> CHOOSE h \in Servers : snap.sel = {h}
      [] (\A h \in Servers : snap.sel # {h}) /\ snap.exit \in Published -> snap.exit
      [] (\A h \in Servers : snap.sel # {h}) /\ snap.exit \notin Published ->
            IF snap.readable /\ Mode = "settings" THEN None ELSE pinned

MightKnow(h) == known = {} \/ h \in known

Remaining(window) == age < window

\* transferBlocksSwitch: held is what the transfer guard would answer now.
TransferBlocks(held) == Guarded /\ held /\ snap.status # "crashed"

Overloaded(current, best) ==
    LoadTrigger > 0 /\ current.load > LoadTrigger /\ best.load <= LoadTrigger

\* Faulty variant: the floor below the case of the unknown server, which then
\* bypasses it.
FloorAfterUnknown(held) ==
    LET here == CurrentHostname
        best == ranked[1]
        current == Entry(ranked, here)
    IN  /\ auto
        /\ ~TransferBlocks(held)
        /\ here # best.host
        /\ \/ here \notin Hosts(ranked)
           \/ /\ ~Remaining(MinInterval)
              /\ \/ Overloaded(current, best)
                 \/ ~Remaining(Cooldown) /\ current.score - best.score >= MinImprovement

Decide(held) ==
    LET here == CurrentHostname
        best == ranked[1]
        current == Entry(ranked, here)
    IN  /\ auto
        /\ ~TransferBlocks(held)
        /\ here # best.host
        /\ ~Remaining(MinInterval)
        /\ \/ here \notin Hosts(ranked)
           \/ Overloaded(current, best)
           \/ ~Remaining(Cooldown) /\ current.score - best.score >= MinImprovement

\* Faulty variant: a stopped tunnel is evaluated like any other.
EligibleWhenStopped(force) ==
    /\ ranked # <<>>
    /\ Mode # "none" \/ force
    /\ snap.reachable
    /\ ~snap.mismatch

Eligible(force) ==
    /\ ranked # <<>>
    /\ Mode # "none" \/ force
    /\ snap.reachable
    /\ snap.status \in {"running", "crashed"} \/ force
    /\ ~snap.mismatch

Usable(s) == s.reachable /\ s.status \in {"running", "crashed"}
BecameUsable(was, now) == Usable(now) /\ ~Usable(was)

-----------------------------------------------------------------------------
(* Gluetun, as its control server shows it.                                 *)

\* A selection restarts a running loop and is only stored by one that is down.
Selected(g, h) ==
    [g EXCEPT !.sel = {h}, !.late = None,
              !.status = IF @ = "running" THEN "starting" ELSE @,
              !.on = None]

Stopped(g) == [g EXCEPT !.status = "stopped", !.on = None, !.late = None]

Started(g) ==
    [g EXCEPT !.status = IF @ \in {"stopped", "crashed"} THEN "starting" ELSE @, !.late = None]

InTransition == gl.status \in {"starting", "stopping"}

\* A mutation that is not answered: its effect came, comes later or never comes.
\* A loop in transition queues the request, and one that stays there ("slow")
\* lets every such request time out.
Unanswered(effect, late) ==
    /\ \/ Fault("timeout")
       \/ InTransition /\ "slow" \in FaultKinds /\ UNCHANGED faults
    /\ gl' \in {gl, effect, [gl EXCEPT !.late = late]}

\* A mutation whose connection fails, before or after Gluetun acted on it.
Unavailable(effect) == Fault("down") /\ gl' \in {gl, effect}

\* A mutation that is answered, which is once the loop has settled.
Answered(effect) == ~InTransition /\ gl' = effect /\ UNCHANGED faults

Connect ==
    /\ gl.status = "starting"
    /\ \E h \in IF gl.sel = {} THEN gl.list ELSE gl.sel :
          gl' = IF h \in Dead THEN [gl EXCEPT !.status = "crashed"]
                              ELSE [gl EXCEPT !.status = "running", !.on = h]
    /\ UNCHANGED <<engineVars, faults>>

\* The health monitor restarts a loop that failed, and a slow stop ends.
Recover ==
    /\ gl.status \in {"crashed", "stopping"}
    /\ gl' = [gl EXCEPT !.status = "starting"]
    /\ UNCHANGED <<engineVars, faults>>

Drop ==
    /\ Fault("drop")
    /\ gl.status = "running"
    /\ \E s \in {"crashed", "starting", "stopping"} : gl' = [gl EXCEPT !.status = s, !.on = None]
    /\ UNCHANGED engineVars

LateEffect ==
    /\ gl.late # None
    /\ gl' = CASE gl.late = "stop"  -> Stopped(gl)
               [] gl.late = "start" -> Started(gl)
               [] OTHER             -> Selected(gl, gl.late)
    /\ UNCHANGED <<engineVars, faults>>

\* A restart discards the runtime selection and reads the servers file again.
GluetunRestart ==
    /\ Fault("gluetunRestart")
    /\ \E l \in Lists, p \in {TRUE, gl.proton} :
          gl' = [status |-> "starting", sel |-> BootSelection, list |-> l, on |-> None,
                 late |-> None, updating |-> FALSE, proton |-> p, denied |-> gl.denied]
    /\ UNCHANGED engineVars

\* The operator stops or starts the tunnel through Gluetun itself.
Outside ==
    /\ Fault("outside")
    /\ gl' \in {Stopped(gl), Started(gl)}
    /\ UNCHANGED engineVars

\* Gluetun's updater replaces the list in memory, or skips for want of credentials.
UpdaterFinish ==
    /\ gl.updating
    /\ \E l \in Lists \cup {gl.list} : gl' = [gl EXCEPT !.updating = FALSE, !.list = l]
    /\ UNCHANGED <<engineVars, faults>>

gluetunVars == <<gl, faults>>

-----------------------------------------------------------------------------
(* checkGluetun: the health tick, the dashboard's button, and the tail of   *)
(* the commands that change the tunnel.                                     *)

CheckStatus ==
    /\ pc \in {"idle", "check"}
    /\ \/ /\ Fault("down")
          /\ snap' = [snap EXCEPT !.reachable = FALSE]
          /\ pc' = "idle"
          /\ UNCHANGED <<gl, seen>>
       \/ /\ seen' = gl.status
          /\ pc' = "settings"
          /\ UNCHANGED <<gluetunVars, snap>>
    /\ UNCHANGED <<ranked, known, needsRestart, job, pinned, age, auto>>

\* verifyGluetunPin, on the snapshot s that was just taken.
PinDisproved(s) ==
    /\ Mode = "settings"
    /\ pinned # None
    /\ s.readable
    /\ pinned \notin s.sel

\* Faulty variant: settings that name no hostname leave the old selection in place.
ObservedKeepingSelection(readable, exit) ==
    [reachable |-> TRUE, status |-> seen, readable |-> readable,
     sel |-> IF readable /\ gl.sel # {} THEN gl.sel ELSE snap.sel,
     exit |-> exit,
     mismatch |-> IF readable THEN ~gl.proton ELSE snap.mismatch]

Observed(readable, exit) ==
    [reachable |-> TRUE, status |-> seen, readable |-> readable,
     sel |-> IF readable THEN gl.sel ELSE snap.sel,
     exit |-> exit,
     mismatch |-> IF readable THEN ~gl.proton ELSE snap.mismatch]

CheckSettings ==
    /\ pc = "settings"
    /\ \E readable \in BOOLEAN,
          exit \in IF seen = "running" THEN {snap.exit, gl.on} ELSE {snap.exit} :
          /\ IF readable THEN UNCHANGED faults ELSE Fault("down")
          /\ snap' = Observed(readable, exit)
    /\ pinned' = IF PinDisproved(snap') THEN None ELSE pinned
    /\ known' = IF PinDisproved(snap') THEN {} ELSE known
    /\ needsRestart' = IF PinDisproved(snap') THEN FALSE ELSE needsRestart
    /\ pc' = IF BecameUsable(snap, snap') /\ ranked # <<>> THEN "evaluate" ELSE "idle"
    /\ seen' = ""
    /\ UNCHANGED <<gl, ranked, job, age, auto>>

-----------------------------------------------------------------------------
(* evaluate, and the round it begins.                                       *)

BeginRound(kind) ==
    job' = [NoJob EXCEPT !.kind = kind,
                         !.prev = IF CurrentHostname \in Hosts(ranked) THEN CurrentHostname
                                                                       ELSE None,
                         !.prevIP = snap.exit]

Evaluate(kind) ==
    LET force == kind = "best"
    IN  /\ \/ pc = "idle"
           \/ pc = "evaluate" /\ ~force
        /\ \E held \in BOOLEAN :
              IF Eligible(force) /\ (force \/ Decide(held))
              THEN BeginRound(kind) /\ pc' = "next"
              ELSE UNCHANGED job /\ pc' = "idle"
        /\ UNCHANGED <<gluetunVars, snap, ranked, known, needsRestart, seen, pinned, age, auto>>

EndRound == pc' = "idle" /\ job' = NoJob

\* The deferred refresh of tryCandidates: it follows a failed attempt as well.
AfterRound ==
    IF job.refused /\ RefreshOnReject
    THEN pc' = "refresh" /\ job' = [job EXCEPT !.why = "after"]
    ELSE EndRound

\* One turn of the loop over the candidates, or its end.
TryNext ==
    /\ pc = "next"
    /\ IF job.at <= TopN
       THEN LET h == ranked[job.at].host
                tried == [job EXCEPT !.at = @ + 1]
            IN  /\ CASE h = job.prev -> pc' = "next" /\ job' = tried
                     [] h # job.prev /\ ~MightKnow(h) ->
                          pc' = "next" /\ job' = [tried EXCEPT !.skipped = TRUE]
                     [] OTHER -> pc' = "settle" /\ job' = [tried EXCEPT !.target = h]
                /\ UNCHANGED needsRestart
       ELSE CASE ~job.refused /\ ~job.skipped -> EndRound /\ UNCHANGED needsRestart
              [] (job.refused \/ job.skipped) /\ RefreshOnReject /\ ~job.second ->
                   /\ pc' = "refresh"
                   /\ job' = [job EXCEPT !.why = "retry"]
                   /\ UNCHANGED needsRestart
              [] OTHER -> EndRound /\ needsRestart' = TRUE
    /\ UNCHANGED <<gluetunVars, snap, ranked, known, seen, pinned, age, auto>>

\* Any other error ends the attempt; switchTo returns it.
Failed ==
    /\ IF job.kind = "host" THEN EndRound ELSE AfterRound
    /\ UNCHANGED needsRestart

\* Faulty variant: a timeout moves on to the next candidate, like a refusal.
TimedOutTriesNext ==
    IF job.kind = "host" THEN Failed
    ELSE pc' = "next" /\ UNCHANGED <<job, needsRestart>>

\* errors.Is(err, ErrTimedOut): verified by tryCandidates, an error to switchTo.
TimedOut ==
    IF job.kind = "host" THEN Failed
    ELSE pc' = "verify" /\ UNCHANGED <<job, needsRestart>>

\* Faulty variant: the empty pieces of the enumeration are kept as hostnames.
LearnedWithBlank(list) == list \cup {None}

Learned(list) == IF job.kind = "host" /\ job.second THEN known ELSE list

Rejected ==
    CASE job.kind # "host" ->
           pc' = "next" /\ job' = [job EXCEPT !.refused = TRUE] /\ UNCHANGED needsRestart
      [] job.kind = "host" /\ ~job.second /\ RefreshOnReject ->
           pc' = "refresh" /\ job' = [job EXCEPT !.why = "retry"] /\ UNCHANGED needsRestart
      [] OTHER -> EndRound /\ needsRestart' = TRUE

-----------------------------------------------------------------------------
(* applyTarget: wait for a settled loop, pin, restart a loop that was down. *)

\* waitForStableTunnel lets the attempt go on when the status cannot be read,
\* and gives up on a loop that stays in transition.
Settle ==
    /\ pc = "settle"
    /\ \/ /\ \/ Fault("down")
             \/ ~InTransition /\ UNCHANGED faults
          /\ IF Mode = "none" THEN Failed
             ELSE /\ pc' = IF Mode = "settings" THEN "pin" ELSE "stop"
                  /\ UNCHANGED <<job, needsRestart>>
       \/ /\ InTransition
          /\ Failed
          /\ UNCHANGED faults
    /\ UNCHANGED <<gl, snap, ranked, known, seen, pinned, age, auto>>

Pin ==
    LET h == job.target
        refuses == "settings" \in gl.denied \/ h \notin gl.list
    IN  /\ pc = "pin"
        /\ \/ /\ ~refuses /\ Answered(Selected(gl, h))
              /\ pinned' = h
              /\ pc' = IF gl.status = "running" THEN "verify" ELSE "stop"
              /\ UNCHANGED <<known, job, needsRestart>>
           \/ /\ refuses /\ Rejected
              /\ known' = IF "settings" \in gl.denied THEN known ELSE Learned(gl.list)
              /\ UNCHANGED <<gluetunVars, pinned>>
           \/ /\ ~refuses /\ Unanswered(Selected(gl, h), h) /\ TimedOut
              /\ UNCHANGED <<known, pinned>>
           \/ /\ (refuses /\ Unavailable(gl)) \/ (~refuses /\ Unavailable(Selected(gl, h)))
              /\ Failed
              /\ UNCHANGED <<known, pinned>>
        /\ UNCHANGED <<snap, ranked, seen, age, auto>>

\* Reconnect: PUT stopped, then PUT running, and the first error ends it.
ReconnectStop ==
    /\ pc = "stop"
    /\ \/ /\ "status" \in gl.denied /\ Rejected /\ UNCHANGED gluetunVars
       \/ /\ "status" \notin gl.denied
          /\ \/ Answered(Stopped(gl)) /\ pc' = "start" /\ UNCHANGED <<job, needsRestart>>
             \/ Unanswered(Stopped(gl), "stop") /\ TimedOut
             \/ Unavailable(Stopped(gl)) /\ Failed
    /\ UNCHANGED <<snap, ranked, known, seen, pinned, age, auto>>

ReconnectStart ==
    /\ pc = "start"
    /\ \/ /\ Answered(Started(gl))
          /\ pc' = "verify"
          /\ pinned' = IF Mode = "settings" THEN pinned ELSE None
          /\ UNCHANGED <<job, needsRestart>>
       \/ /\ \/ Unanswered(Started(gl), "start") /\ TimedOut
             \/ Unavailable(Started(gl)) /\ Failed
          /\ UNCHANGED pinned
    /\ UNCHANGED <<snap, ranked, known, seen, age, auto>>

-----------------------------------------------------------------------------
(* verifyTunnel polls until the tunnel is confirmed, crashed or overdue.    *)

\* A poll that confirms nothing is repeated until the deadline fails the switch.
Unconfirmed ==
    \/ pc' = "verify" /\ UNCHANGED <<job, needsRestart>>
    \/ Failed

VerifyStatus ==
    /\ pc = "verify"
    /\ \/ Fault("down") /\ Unconfirmed
       \/ /\ UNCHANGED faults
          /\ CASE gl.status = "crashed" -> Failed
               [] gl.status = "running" -> pc' = "confirm" /\ UNCHANGED <<job, needsRestart>>
               [] OTHER                 -> Unconfirmed
    /\ UNCHANGED <<gl, snap, ranked, known, seen, pinned, age, auto>>

\* Faulty variant: the selection just applied is left to the next health check.
SucceededUnrecorded(ip) ==
    /\ age' = 0
    /\ known' = {}
    /\ snap' = [snap EXCEPT !.exit = ip]
    /\ IF job.kind = "host" THEN EndRound /\ UNCHANGED needsRestart
                            ELSE AfterRound /\ needsRestart' = FALSE

\* recordSwitch without an error, and what follows it in the two callers.
Succeeded(ip) ==
    /\ age' = 0
    /\ known' = {}
    /\ IF job.kind = "host"
       THEN /\ snap' = [snap EXCEPT !.exit = ip]
            /\ EndRound
            /\ UNCHANGED needsRestart
       ELSE /\ snap' = [snap EXCEPT !.exit = ip, !.sel = {job.target}]
            /\ AfterRound
            /\ needsRestart' = FALSE

Confirms(ip) ==
    IF Mode = "settings" THEN gl.sel = {job.target} ELSE ip # None /\ ip # job.prevIP

VerifySettings ==
    /\ pc = "confirm"
    /\ \E ip \in {None, gl.on} :
          \/ Confirms(ip) /\ Succeeded(ip) /\ UNCHANGED faults
          \/ /\ \/ ~Confirms(ip) /\ UNCHANGED faults
                \/ Fault("down")
             /\ Unconfirmed
             /\ UNCHANGED <<snap, known, age>>
    /\ UNCHANGED <<gl, ranked, seen, pinned, auto>>

-----------------------------------------------------------------------------
(* refreshGluetunServerList: trigger Gluetun's updater, wait, retry.        *)

\* Faulty variant: every refresh is worth another retry.
RefreshedForEver(ok) ==
    CASE job.why = "retry" /\ ok ->
           /\ pc' = IF job.kind = "host" THEN "settle" ELSE "next"
           /\ job' = [job EXCEPT !.at = 1, !.refused = FALSE,
                                 !.skipped = FALSE, !.prevIP = snap.exit, !.why = "none"]
           /\ UNCHANGED needsRestart
      [] job.why = "retry" /\ ~ok -> EndRound /\ needsRestart' = TRUE
      [] job.why = "command" -> pc' = "check" /\ job' = NoJob /\ UNCHANGED needsRestart
      [] OTHER -> EndRound /\ UNCHANGED needsRestart

\* What each caller does with the answer.  A retry reuses the candidates and
\* reads the exit address again.
Refreshed(ok) ==
    CASE job.why = "retry" /\ ok ->
           /\ pc' = IF job.kind = "host" THEN "settle" ELSE "next"
           /\ job' = [job EXCEPT !.second = TRUE, !.at = 1, !.refused = FALSE,
                                 !.skipped = FALSE, !.prevIP = snap.exit, !.why = "none"]
           /\ UNCHANGED needsRestart
      [] job.why = "retry" /\ ~ok -> EndRound /\ needsRestart' = TRUE
      [] job.why = "command" -> pc' = "check" /\ job' = NoJob /\ UNCHANGED needsRestart
      [] OTHER -> EndRound /\ UNCHANGED needsRestart

RefreshTrigger ==
    LET triggered == [gl EXCEPT !.updating = TRUE]
    IN  /\ pc = "refresh"
        /\ \/ /\ "updater" \notin gl.denied
              /\ gl' = triggered
              /\ pc' = "await"
              /\ UNCHANGED <<job, needsRestart, faults>>
           \/ /\ \/ "updater" \in gl.denied /\ UNCHANGED gluetunVars
                 \/ Fault("updater") /\ gl' \in {gl, triggered}
              /\ Refreshed(FALSE)
        /\ UNCHANGED <<snap, ranked, known, seen, pinned, age, auto>>

\* Faulty variant: what Gluetun disclosed before the refresh is still believed.
RefreshWaitRemembering ==
    /\ pc = "await"
    /\ \/ ~gl.updating /\ Refreshed(TRUE) /\ UNCHANGED faults
       \/ /\ \/ Fault("updater")
             \/ gl.updating /\ "slow" \in FaultKinds /\ UNCHANGED faults
          /\ Refreshed(FALSE)
    /\ UNCHANGED <<gl, known, snap, ranked, seen, pinned, age, auto>>

\* WaitForUpdater gives up at the first status it cannot read, and on a slow updater.
RefreshWait ==
    /\ pc = "await"
    /\ \/ ~gl.updating /\ known' = {} /\ Refreshed(TRUE) /\ UNCHANGED faults
       \/ /\ \/ Fault("updater")
             \/ gl.updating /\ "slow" \in FaultKinds /\ UNCHANGED faults
          /\ Refreshed(FALSE) /\ UNCHANGED known
    /\ UNCHANGED <<gl, snap, ranked, seen, pinned, age, auto>>

-----------------------------------------------------------------------------
(* Dashboard commands, and what changes the ranking.                        *)

SwitchTo(h) ==
    /\ pc = "idle"
    /\ h \in Hosts(ranked)
    /\ job' = [NoJob EXCEPT !.kind = "host", !.target = h, !.prevIP = snap.exit]
    /\ pc' = "settle"
    /\ UNCHANGED <<gluetunVars, snap, ranked, known, needsRestart, seen, pinned, age, auto>>

\* SetVPN: an answered change is followed by a check, a failed one by nothing.
SetTunnelStatus(status) ==
    LET effect == IF status = "stopped" THEN Stopped(gl) ELSE Started(gl)
        late   == IF status = "stopped" THEN "stop" ELSE "start"
    IN  /\ pc = "idle"
        /\ "status" \notin gl.denied
        /\ \/ Answered(effect) /\ pc' = "check"
           \/ Unanswered(effect, late) /\ pc' = "idle"
           \/ Unavailable(effect) /\ pc' = "idle"
        /\ UNCHANGED <<snap, ranked, known, needsRestart, seen, job, pinned, age, auto>>

RunUpdater ==
    /\ pc = "idle"
    /\ IF RefreshOnReject
       THEN pc' = "refresh" /\ job' = [NoJob EXCEPT !.kind = "updater", !.why = "command"]
       ELSE pc' = "check" /\ UNCHANGED job
    /\ UNCHANGED <<gluetunVars, snap, ranked, known, needsRestart, seen, pinned, age, auto>>

SetAuto(enabled) ==
    /\ pc = "idle"
    /\ auto' = enabled
    /\ UNCHANGED <<gluetunVars, snap, ranked, known, needsRestart, pc, seen, job, pinned, age>>

\* Loads, latencies, the list and the requirements change the ranking between rounds.
Rerank(r) ==
    /\ pc \in {"idle", "evaluate"}
    /\ ranked' = r
    /\ UNCHANGED <<gluetunVars, snap, known, needsRestart, pc, seen, job, pinned, age, auto>>

\* A restart of this process keeps what is persisted and checks Gluetun first.
EngineRestart ==
    /\ Fault("engineRestart")
    /\ snap' = NoSnapshot /\ known' = {} /\ needsRestart' = FALSE
    /\ job' = NoJob /\ seen' = "" /\ pc' = "check"
    /\ ranked' \in Rankings
    /\ UNCHANGED <<gl, pinned, age, auto>>

Tick ==
    /\ age < MaxAge
    /\ age' = age + 1
    /\ UNCHANGED <<gluetunVars, snap, ranked, known, needsRestart, pc, seen, job, pinned, auto>>

-----------------------------------------------------------------------------
Init ==
    /\ \E l \in Lists, d \in Roles,
          p \in IF "provider" \in FaultKinds THEN BOOLEAN ELSE {TRUE} :
          gl = [status |-> "starting", sel |-> BootSelection, list |-> l, on |-> None,
                late |-> None, updating |-> FALSE, proton |-> p, denied |-> d]
    /\ snap = NoSnapshot
    /\ ranked \in Rankings
    /\ known = {} /\ needsRestart = FALSE
    /\ pc = "check" /\ seen = "" /\ job = NoJob
    /\ pinned = None /\ age = MaxAge /\ auto \in BOOLEAN
    /\ faults = MaxFaults

\* The steps of a call in progress: the loop takes them without being asked.
Engine ==
    \/ pc # "idle" /\ CheckStatus
    \/ CheckSettings
    \/ pc = "evaluate" /\ Evaluate("auto")
    \/ TryNext \/ Settle \/ Pin \/ ReconnectStop \/ ReconnectStart
    \/ VerifyStatus \/ VerifySettings
    \/ RefreshTrigger \/ RefreshWait

HealthTick   == pc = "idle" /\ CheckStatus
EvaluateTick == pc = "idle" /\ Evaluate("auto")

Commands ==
    \/ Evaluate("best")
    \/ \E h \in Servers : SwitchTo(h)
    \/ \E s \in {"stopped", "running"} : SetTunnelStatus(s)
    \/ RunUpdater
    \/ \E b \in BOOLEAN : SetAuto(b)

Gluetun == Connect \/ Recover \/ LateEffect \/ UpdaterFinish

Faulty == Drop \/ GluetunRestart \/ Outside \/ EngineRestart

Next ==
    \/ Engine \/ HealthTick \/ EvaluateTick \/ Commands
    \/ Gluetun \/ Faulty
    \/ \E r \in Rankings : Rerank(r)
    \/ Tick

Spec == Init /\ [][Next]_vars

-----------------------------------------------------------------------------
(* Properties.                                                              *)

\* A round that may still change the server, as opposed to the refresh after it.
Attempting ==
    \/ pc \in {"next", "settle", "pin", "stop", "start", "verify", "confirm"}
    \/ pc \in {"refresh", "await"} /\ job.why = "retry"

\* No automatic round is under way within MinInterval of the last switch that
\* was recorded, whichever way that switch was started and across restarts of
\* this process: minIntervalRemaining is asked once, several calls to Gluetun
\* before the tunnel is touched.
RoundPastFloor == Attempting /\ job.kind = "auto" => age >= MinInterval

\* What tryCandidates settles for is the best it can have: when Gluetun took a
\* pin, every better candidate is the current server or one Gluetun's list
\* does not hold, whatever was learned, skipped or refreshed on the way.
LandsOnBestKnown ==
    Mode = "settings" /\ pc \in {"verify", "confirm"} /\ job.kind \in {"auto", "best"} =>
        \A i \in 1..(job.at - 2) :
            ranked[i].host = job.prev \/ ranked[i].host \notin gl.list

\* The banner is raised for a reason that is true: no candidate that could
\* have been switched to is in the list Gluetun has in memory.
BannerIsTrue ==
    [][~needsRestart /\ needsRestart' =>
          IF job.kind = "host" THEN job.target \notin gl.list
          ELSE \A i \in 1..TopN : ranked[i].host \in {job.prev} \cup (Servers \ gl.list)]_vars

-----------------------------------------------------------------------------
(* Fairness and liveness.                                                   *)

\* The loop finishes what it started - Gluetun serves a queued request once its
\* own loop settles, however briefly - and VerifyTimeout ends a verification
\* that keeps finding nothing to confirm.
LoopFairness ==
    /\ SF_vars(Engine)
    /\ SF_vars((VerifyStatus \/ VerifySettings) /\ pc' \notin {"verify", "confirm"})

\* A ticker keeps one tick ready and select chooses among the ready channels
\* at random, so no ticker is passed over for ever.
TickerFairness == SF_vars(HealthTick) /\ SF_vars(EvaluateTick) /\ WF_vars(Tick)

\* Gluetun finishes a transition, answers what it queued and ends an update.
GluetunFairness ==
    /\ WF_vars(Connect) /\ WF_vars(Recover) /\ WF_vars(LateEffect) /\ WF_vars(UpdaterFinish)

LoopSpec == Spec /\ LoopFairness

\* Nobody at the dashboard, switching on, and a ranking that no longer changes.
Unattended == Engine \/ HealthTick \/ EvaluateTick \/ Gluetun \/ Faulty \/ Tick
UnattendedInit == Init /\ auto = TRUE
UnattendedSpec ==
    /\ UnattendedInit
    /\ [][Unattended]_vars
    /\ LoopFairness /\ TickerFairness /\ GluetunFairness

\* The run loop is never held for ever by a round: with the loop's own
\* deadlines alone, and with a Gluetun that stays in transition, every round
\* ends and the next ticker or command is served.
RoundEnds == pc # "idle" ~> pc = "idle"

\* Left alone, and after the last of finitely many faults, the tunnel ends up on
\* the best server and stays there: a lost pin, a timed out or late mutation, a
\* crash, and a restart of either process are all noticed and put right.
Converges == <>[](gl.status = "running" /\ gl.on = ranked[1].host)

==============================================================================
