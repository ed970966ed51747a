--------------------------- MODULE SwitchingProofs ---------------------------
(***************************************************************************)
(* Theorems about Switching and SwitchingHistory, for every value of their *)
(* constants: their types, the floor between automatic rounds, how often a *)
(* round takes the tunnel down, what an operator's stop is worth, what a   *)
(* round may settle for and ask of the operator, and for how many steps    *)
(* the loop can be busy.                                                   *)
(***************************************************************************)
EXTENDS SwitchingHistory, TLAPS

\* What Gluetun makes of an accepted selection, a stop and a start is again a
\* state of Gluetun.
LEMMA EffectTypes ==
    ASSUME NEW g \in Gluetuns
    PROVE  /\ \A h \in Servers : Selected(g, h) \in Gluetuns
           /\ Stopped(g) \in Gluetuns
           /\ Started(g) \in Gluetuns
BY DEF Gluetuns, Selected, Stopped, Started, Statuses

\* A fault uses up one of those that are allowed.
LEMMA FaultType ==
    ASSUME NEW kind, faults \in 0..MaxFaults, Fault(kind)
    PROVE  faults' \in 0..MaxFaults
BY SwitchingAssumption DEF Fault

\* Every host of a ranking is a server, at each of its positions.
LEMMA RankedHosts ==
    ASSUME ranked \in Rankings
    PROVE  /\ ranked \in Seq(Entries)
           /\ Hosts(ranked) \subseteq Servers
           /\ \A i \in 1..Len(ranked) : ranked[i].host \in Servers
<1>1. ranked \in Seq(Entries)
  BY SwitchingAssumption
<1>2. \A i \in 1..Len(ranked) : ranked[i] \in Entries
  BY <1>1
<1> QED
  BY <1>1, <1>2 DEF Hosts, Entries

\* The candidates of a round are a prefix of the ranking.
LEMMA TopNBound ==
    ASSUME ranked \in Rankings
    PROVE  TopN \in Nat /\ TopN <= Len(ranked) /\ Len(ranked) \in Nat
<1>1. Len(ranked) \in Nat
  BY RankedHosts
<1> QED
  BY <1>1, SwitchingAssumption DEF TopN

\* The fields that a round changes together, as one typed update.
LEMMA JobUpdates ==
    ASSUME NEW j \in Jobs
    PROVE  /\ \A h \in Servers : [j EXCEPT !.target = h] \in Jobs
           /\ [j EXCEPT !.at = @ + 1] \in Jobs
           /\ [j EXCEPT !.skipped = TRUE] \in Jobs
           /\ [j EXCEPT !.kind = "updater", !.why = "command"] \in Jobs
           /\ \A kind \in {"auto", "best"}, prev, ip \in Servers \cup {None} :
                 [j EXCEPT !.kind = kind, !.prev = prev, !.prevIP = ip] \in Jobs
           /\ \A h \in Servers, ip \in Servers \cup {None} :
                 [j EXCEPT !.kind = "host", !.target = h, !.prevIP = ip] \in Jobs
           /\ \A ip \in Servers \cup {None} :
                 [j EXCEPT !.second = TRUE, !.at = 1, !.refused = FALSE, !.skipped = FALSE,
                           !.prevIP = ip, !.why = "none"] \in Jobs
<1>1. ASSUME NEW at \in Nat \ {0}, NEW b \in BOOLEAN, NEW c \in BOOLEAN,
             NEW ip \in Servers \cup {None}, NEW why \in {"none", "retry", "after", "command"}
      PROVE  [j EXCEPT !.second = b, !.at = at, !.refused = c, !.skipped = c,
                       !.prevIP = ip, !.why = why] \in Jobs
  BY DEF Jobs
<1>2. 1 \in Nat \ {0} /\ TRUE \in BOOLEAN /\ FALSE \in BOOLEAN
  OBVIOUS
<1>3. \A ip \in Servers \cup {None} :
         [j EXCEPT !.second = TRUE, !.at = 1, !.refused = FALSE, !.skipped = FALSE,
                   !.prevIP = ip, !.why = "none"] \in Jobs
  BY <1>1, <1>2
<1>4. \A h \in Servers : [j EXCEPT !.target = h] \in Jobs
  BY DEF Jobs
<1>5. [j EXCEPT !.at = @ + 1] \in Jobs
  BY DEF Jobs
<1>9. [j EXCEPT !.skipped = TRUE] \in Jobs
  BY DEF Jobs
<1>6. [j EXCEPT !.kind = "updater", !.why = "command"] \in Jobs
  BY DEF Jobs
<1>7. \A kind \in {"auto", "best"}, prev, ip \in Servers \cup {None} :
         [j EXCEPT !.kind = kind, !.prev = prev, !.prevIP = ip] \in Jobs
  BY DEF Jobs
<1>8. \A h \in Servers, ip \in Servers \cup {None} :
         [j EXCEPT !.kind = "host", !.target = h, !.prevIP = ip] \in Jobs
  BY DEF Jobs
<1> QED
  BY <1>3, <1>4, <1>5, <1>6, <1>7, <1>8, <1>9

\* The ages the clock can show.
LEMMA AgeTypes ==
    /\ 0 \in 0..MaxAge
    /\ \A n \in 0..MaxAge : n < MaxAge => n + 1 \in 0..MaxAge
<1>1. MaxAge \in Nat
  BY SwitchingAssumption
<1> QED
  BY <1>1

\* The ends of a round leave the control state typed.
LEMMA EndTypes ==
    ASSUME job \in Jobs, needsRestart \in BOOLEAN
    PROVE  /\ NoJob \in Jobs
           /\ EndRound => pc' \in PCs /\ job' \in Jobs
           /\ AfterRound => pc' \in PCs /\ job' \in Jobs
           /\ Failed => pc' \in PCs /\ job' \in Jobs /\ needsRestart' \in BOOLEAN
           /\ TimedOut => pc' \in PCs /\ job' \in Jobs /\ needsRestart' \in BOOLEAN
           /\ Rejected => pc' \in PCs /\ job' \in Jobs /\ needsRestart' \in BOOLEAN
<1>1. NoJob \in Jobs
  BY DEF NoJob, Jobs
<1>2. EndRound => pc' \in PCs /\ job' \in Jobs
  BY <1>1 DEF EndRound, PCs
<1>3. AfterRound => pc' \in PCs /\ job' \in Jobs
  BY <1>2 DEF AfterRound, Jobs, PCs
<1>4. Failed => pc' \in PCs /\ job' \in Jobs /\ needsRestart' \in BOOLEAN
  BY <1>2, <1>3 DEF Failed
<1>5. TimedOut => pc' \in PCs /\ job' \in Jobs /\ needsRestart' \in BOOLEAN
  BY <1>4 DEF TimedOut, PCs
<1>6. Rejected => pc' \in PCs /\ job' \in Jobs /\ needsRestart' \in BOOLEAN
  BY <1>2 DEF Rejected, Jobs, PCs
<1> QED
  BY <1>1, <1>2, <1>3, <1>4, <1>5, <1>6

-----------------------------------------------------------------------------
(* Type correctness: one lemma for each group of actions.                   *)

\* Gluetun's own steps change nothing but Gluetun and the faults left.
LEMMA GluetunTypes ==
    ASSUME TypeOK, Gluetun \/ Drop \/ GluetunRestart \/ Outside
    PROVE  TypeOK'
<1> USE DEF TypeOK
<1>1. CASE Connect
  <2>1. PICK h \in Servers :
           gl' = IF h \in Dead THEN [gl EXCEPT !.status = "crashed"]
                               ELSE [gl EXCEPT !.status = "running", !.on = h]
    BY <1>1 DEF Connect, Gluetuns
  <2>2. gl' \in Gluetuns
    BY <2>1 DEF Gluetuns, Statuses
  <2> QED
    BY <1>1, <2>2 DEF Connect, engineVars
<1>2. CASE Recover
  BY <1>2 DEF Recover, engineVars, Gluetuns, Statuses
<1>3. CASE LateEffect
  <2>1. \/ gl' \in {Stopped(gl), Started(gl)}
        \/ gl.late \in Servers /\ gl' = Selected(gl, gl.late)
    <3>1. gl.late \in Servers \cup {None, "stop", "start"}
      BY DEF Gluetuns
    <3> QED
      BY <1>3, <3>1 DEF LateEffect
  <2>2. gl' \in Gluetuns
    BY <2>1, EffectTypes
  <2> QED
    BY <1>3, <2>2 DEF LateEffect, engineVars
<1>4. CASE UpdaterFinish
  <2>1. PICK l \in SUBSET Servers : gl' = [gl EXCEPT !.updating = FALSE, !.list = l]
    BY <1>4, SwitchingAssumption DEF UpdaterFinish, Gluetuns
  <2>2. gl' \in Gluetuns
    BY <2>1 DEF Gluetuns
  <2> QED
    BY <1>4, <2>2 DEF UpdaterFinish, engineVars
<1>5. CASE Drop
  <2>1. gl' \in Gluetuns
    BY <1>5 DEF Drop, Gluetuns, Statuses
  <2> QED
    BY <1>5, <2>1, FaultType DEF Drop, engineVars
<1>6. CASE GluetunRestart
  <2>1. PICK l \in Lists, p \in {TRUE, gl.proton} :
           gl' = [status |-> "starting", sel |-> BootSelection, list |-> l, on |-> None,
                  late |-> None, updating |-> FALSE, proton |-> p, denied |-> gl.denied]
    BY <1>6 DEF GluetunRestart
  <2>2. l \subseteq Servers /\ BootSelection \subseteq Servers /\ p \in BOOLEAN
    BY SwitchingAssumption DEF Gluetuns
  <2>3. gl' \in Gluetuns
    BY <2>1, <2>2 DEF Gluetuns, Statuses
  <2> QED
    BY <1>6, <2>3, FaultType DEF GluetunRestart, engineVars
<1>7. CASE Outside
  <2>1. gl' \in Gluetuns
    BY <1>7, EffectTypes DEF Outside
  <2> QED
    BY <1>7, <2>1, FaultType DEF Outside, engineVars
<1> QED
  BY <1>1, <1>2, <1>3, <1>4, <1>5, <1>6, <1>7 DEF Gluetun

\* The health check.
LEMMA CheckTypes ==
    ASSUME TypeOK, CheckStatus \/ CheckSettings
    PROVE  TypeOK'
<1> USE DEF TypeOK
<1>1. CASE CheckStatus
  BY <1>1, FaultType DEF CheckStatus, gluetunVars, Gluetuns, Snapshots, PCs
<1>2. CASE CheckSettings
  <2>1. PICK readable \in BOOLEAN, exit \in {snap.exit, gl.on} :
           /\ IF readable THEN UNCHANGED faults ELSE Fault("down")
           /\ snap' = Observed(readable, exit)
    BY <1>2 DEF CheckSettings
  <2>2. snap' \in Snapshots
    BY <2>1 DEF Observed, Snapshots, Gluetuns
  <2>3. faults' \in 0..MaxFaults
    BY <2>1, FaultType
  <2> QED
    BY <1>2, <2>2, <2>3 DEF CheckSettings, PCs
<1> QED
  BY <1>1, <1>2

\* Beginning a round, and choosing the candidate to try.
LEMMA RoundTypes ==
    ASSUME TypeOK, (\E kind \in {"auto", "best"} : Evaluate(kind)) \/ TryNext
    PROVE  TypeOK'
<1> USE DEF TypeOK
<1>1. ASSUME NEW kind \in {"auto", "best"}, Evaluate(kind)
      PROVE  TypeOK'
  <2>1. BeginRound(kind) => job' \in Jobs
    <3>1. ASSUME NEW prev \in Servers \cup {None}, NEW ip \in Servers \cup {None}
          PROVE  [NoJob EXCEPT !.kind = kind, !.prev = prev, !.prevIP = ip] \in Jobs
      BY JobUpdates, EndTypes
    <3>2. snap.exit \in Servers \cup {None}
      BY DEF Snapshots
    <3>3. (IF CurrentHostname \in Hosts(ranked) THEN CurrentHostname ELSE None)
             \in Servers \cup {None}
      BY RankedHosts
    <3> QED
      BY <3>1, <3>2, <3>3 DEF BeginRound
  <2> QED
    BY <1>1, <2>1 DEF Evaluate, gluetunVars, PCs
<1>2. CASE TryNext
  <2>1. CASE job.at <= TopN
    <3> DEFINE h == ranked[job.at].host
               tried == [job EXCEPT !.at = @ + 1]
    <3>1. job.at \in 1..Len(ranked)
      <4>1. job.at \in Nat \ {0}
        BY DEF Jobs
      <4>2. TopN \in Nat /\ TopN <= Len(ranked) /\ Len(ranked) \in Nat
        BY TopNBound
      <4> HIDE DEF TypeOK
      <4> QED
        BY <2>1, <4>1, <4>2
    <3>2. h \in Servers
      BY <3>1, RankedHosts
    <3>3. /\ tried \in Jobs
          /\ [tried EXCEPT !.skipped = TRUE] \in Jobs
          /\ [tried EXCEPT !.target = h] \in Jobs
      BY <3>2, JobUpdates
    <3>4. /\ pc' \in {"next", "settle"} /\ UNCHANGED needsRestart
          /\ job' \in {tried, [tried EXCEPT !.skipped = TRUE], [tried EXCEPT !.target = h]}
      BY <1>2, <2>1 DEF TryNext
    <3> QED
      BY <1>2, <3>3, <3>4 DEF TryNext, gluetunVars, PCs
  <2>2. CASE ~(job.at <= TopN)
    <3>1. /\ pc' \in PCs /\ job' \in Jobs /\ needsRestart' \in BOOLEAN
      BY <1>2, <2>2, EndTypes DEF TryNext, Jobs, PCs
    <3> QED
      BY <1>2, <3>1 DEF TryNext, gluetunVars
  <2> QED
    BY <2>1, <2>2
<1> QED
  BY <1>1, <1>2

\* The answers to a mutation leave Gluetun and the faults typed.
LEMMA AnswerTypes ==
    ASSUME TypeOK, NEW effect \in Gluetuns, NEW late \in Servers \cup {"stop", "start"},
           Answered(effect) \/ Unanswered(effect, late) \/ Unavailable(effect)
    PROVE  gl' \in Gluetuns /\ faults' \in 0..MaxFaults
BY FaultType DEF TypeOK, Answered, Unanswered, Unavailable, Gluetuns

\* Between the choice of a candidate and the end of its attempt, and in all of
\* a switch the operator asked for, there is a server to switch to.
TargetChosen ==
    job.kind = "host" \/ pc \in {"settle", "pin", "stop", "start", "verify", "confirm"} =>
        job.target \in Servers

\* Applying the target.
LEMMA ApplyTypes ==
    ASSUME TypeOK, TargetChosen, Settle \/ Pin \/ ReconnectStop \/ ReconnectStart
    PROVE  TypeOK'
<1> USE DEF TypeOK
<1>1. CASE Settle
  <2>1. pc' \in PCs /\ job' \in Jobs /\ needsRestart' \in BOOLEAN
    BY <1>1, EndTypes DEF Settle, PCs
  <2>2. faults' \in 0..MaxFaults
    BY <1>1, FaultType DEF Settle
  <2> QED
    BY <1>1, <2>1, <2>2 DEF Settle
<1>2. CASE Pin
  <2> DEFINE h == job.target
             refuses == "settings" \in gl.denied \/ h \notin gl.list
  <2>1. h \in Servers /\ Selected(gl, h) \in Gluetuns
    BY <1>2, EffectTypes DEF Pin, TargetChosen
  <2>2. gl.list \subseteq Servers
    BY DEF Gluetuns
  <2>3. CASE ~refuses /\ Answered(Selected(gl, h)) /\ pinned' = h
             /\ pc' \in {"verify", "stop"} /\ UNCHANGED <<known, job, needsRestart>>
    <3>1. gl' \in Gluetuns /\ faults' \in 0..MaxFaults
      BY <2>1, <2>3 DEF Answered
    <3> QED
      BY <1>2, <2>1, <2>3, <3>1 DEF Pin, PCs
  <2>4. CASE refuses /\ Rejected /\ known' \in {known, gl.list} /\ UNCHANGED <<gl, faults, pinned>>
    BY <1>2, <2>2, <2>4, EndTypes DEF Pin
  <2>5. CASE Unanswered(Selected(gl, h), h) /\ TimedOut /\ UNCHANGED <<known, pinned>>
    <3>1. gl' \in Gluetuns /\ faults' \in 0..MaxFaults
      BY <2>1, <2>5, AnswerTypes
    <3> QED
      BY <1>2, <2>5, <3>1, EndTypes DEF Pin
  <2>6. CASE (Unavailable(gl) \/ Unavailable(Selected(gl, h))) /\ Failed
             /\ UNCHANGED <<known, pinned>>
    <3>1. gl' \in Gluetuns /\ faults' \in 0..MaxFaults
      BY <2>1, <2>6, FaultType DEF Unavailable
    <3> QED
      BY <1>2, <2>6, <3>1, EndTypes DEF Pin
  <2> QED
    BY <1>2, <2>3, <2>4, <2>5, <2>6 DEF Pin, Learned, gluetunVars
<1>3. CASE ReconnectStop
  <2>1. Stopped(gl) \in Gluetuns
    BY EffectTypes
  <2>2. gl' \in Gluetuns /\ faults' \in 0..MaxFaults
    BY <1>3, <2>1, AnswerTypes DEF ReconnectStop, gluetunVars
  <2>3. pc' \in PCs /\ job' \in Jobs /\ needsRestart' \in BOOLEAN
    BY <1>3, EndTypes DEF ReconnectStop, PCs
  <2> QED
    BY <1>3, <2>2, <2>3 DEF ReconnectStop
<1>4. CASE ReconnectStart
  <2>1. Started(gl) \in Gluetuns
    BY EffectTypes
  <2>2. gl' \in Gluetuns /\ faults' \in 0..MaxFaults
    BY <1>4, <2>1, AnswerTypes DEF ReconnectStart
  <2>3. pc' \in PCs /\ job' \in Jobs /\ needsRestart' \in BOOLEAN
    BY <1>4, EndTypes DEF ReconnectStart, PCs
  <2> QED
    BY <1>4, <2>2, <2>3 DEF ReconnectStart
<1> QED
  BY <1>1, <1>2, <1>3, <1>4

\* Verifying the tunnel, and recording the switch.
LEMMA VerifyTypes ==
    ASSUME TypeOK, TargetChosen, VerifyStatus \/ VerifySettings
    PROVE  TypeOK'
<1> USE DEF TypeOK
<1>1. Unconfirmed => pc' \in PCs /\ job' \in Jobs /\ needsRestart' \in BOOLEAN
  BY EndTypes DEF Unconfirmed, PCs
<1>2. CASE VerifyStatus
  <2>1. pc' \in PCs /\ job' \in Jobs /\ needsRestart' \in BOOLEAN
    BY <1>1, <1>2, EndTypes DEF VerifyStatus, PCs
  <2>2. faults' \in 0..MaxFaults
    BY <1>2, FaultType DEF VerifyStatus
  <2> QED
    BY <1>2, <2>1, <2>2 DEF VerifyStatus
<1>3. CASE VerifySettings
  <2>1. PICK ip \in {None, gl.on} :
           \/ Succeeded(ip) /\ UNCHANGED faults
           \/ /\ UNCHANGED faults \/ Fault("down")
              /\ Unconfirmed /\ UNCHANGED <<snap, known, age>>
    BY <1>3 DEF VerifySettings
  <2>2. job.target \in Servers /\ ip \in Servers \cup {None}
    BY <1>3 DEF VerifySettings, TargetChosen, Gluetuns
  <2>3. CASE Succeeded(ip) /\ UNCHANGED faults
    <3>1. snap' \in Snapshots
      <4>1. [snap EXCEPT !.exit = ip] \in Snapshots
        BY <2>2 DEF Snapshots
      <4>2. [snap EXCEPT !.exit = ip, !.sel = {job.target}] \in Snapshots
        BY <2>2 DEF Snapshots
      <4> QED
        BY <2>3, <4>1, <4>2 DEF Succeeded
    <3>2. pc' \in PCs /\ job' \in Jobs /\ needsRestart' \in BOOLEAN
      BY <2>3, EndTypes DEF Succeeded
    <3>3. age' \in 0..MaxAge /\ known' \in SUBSET Servers
      BY <2>3, AgeTypes DEF Succeeded
    <3> QED
      BY <1>3, <2>3, <3>1, <3>2, <3>3 DEF VerifySettings
  <2>4. CASE /\ UNCHANGED faults \/ Fault("down")
             /\ Unconfirmed /\ UNCHANGED <<snap, known, age>>
    BY <1>1, <1>3, <2>4, FaultType DEF VerifySettings
  <2> QED
    BY <2>1, <2>3, <2>4
<1> QED
  BY <1>2, <1>3

\* Refreshing Gluetun's own list.
LEMMA RefreshTypes ==
    ASSUME TypeOK, RefreshTrigger \/ RefreshWait
    PROVE  TypeOK'
<1> USE DEF TypeOK
<1>1. ASSUME NEW ok \in BOOLEAN, Refreshed(ok)
      PROVE  pc' \in PCs /\ job' \in Jobs /\ needsRestart' \in BOOLEAN
  <2>1. snap.exit \in Servers \cup {None}
    BY DEF Snapshots
  <2>2. [job EXCEPT !.second = TRUE, !.at = 1, !.refused = FALSE, !.skipped = FALSE,
                    !.prevIP = snap.exit, !.why = "none"] \in Jobs
    BY <2>1, JobUpdates
  <2> QED
    BY <1>1, <2>2, EndTypes DEF Refreshed, PCs
<1>2. CASE RefreshTrigger
  <2>1. [gl EXCEPT !.updating = TRUE] \in Gluetuns
    BY DEF Gluetuns
  <2>2. gl' \in Gluetuns /\ faults' \in 0..MaxFaults
    BY <1>2, <2>1, FaultType DEF RefreshTrigger, gluetunVars
  <2>3. pc' \in PCs /\ job' \in Jobs /\ needsRestart' \in BOOLEAN
    BY <1>1, <1>2 DEF RefreshTrigger, PCs
  <2> QED
    BY <1>2, <2>2, <2>3 DEF RefreshTrigger
<1>3. CASE RefreshWait
  <2>1. pc' \in PCs /\ job' \in Jobs /\ needsRestart' \in BOOLEAN
    BY <1>1, <1>3 DEF RefreshWait
  <2>2. faults' \in 0..MaxFaults
    BY <1>3, FaultType DEF RefreshWait
  <2> QED
    BY <1>3, <2>1, <2>2 DEF RefreshWait
<1> QED
  BY <1>2, <1>3

\* The commands that begin something else than a round over the candidates.
LEMMA CommandTypes ==
    ASSUME TypeOK,
           \/ \E h \in Servers : SwitchTo(h)
           \/ \E s \in {"stopped", "running"} : SetTunnelStatus(s)
           \/ RunUpdater
           \/ \E b \in BOOLEAN : SetAuto(b)
    PROVE  TypeOK'
<1> USE DEF TypeOK
<1>1. ASSUME NEW h \in Servers, SwitchTo(h)
      PROVE  TypeOK'
  <2>1. [NoJob EXCEPT !.kind = "host", !.target = h, !.prevIP = snap.exit] \in Jobs
    <3>1. snap.exit \in Servers \cup {None}
      BY DEF Snapshots
    <3> QED
      BY <3>1, JobUpdates, EndTypes
  <2> QED
    BY <1>1, <2>1 DEF SwitchTo, gluetunVars, PCs
<1>2. ASSUME NEW s \in {"stopped", "running"}, SetTunnelStatus(s)
      PROVE  TypeOK'
  <2> DEFINE effect == IF s = "stopped" THEN Stopped(gl) ELSE Started(gl)
             late == IF s = "stopped" THEN "stop" ELSE "start"
  <2>1. effect \in Gluetuns /\ late \in Servers \cup {"stop", "start"}
    BY EffectTypes
  <2>2. Answered(effect) \/ Unanswered(effect, late) \/ Unavailable(effect)
    BY <1>2 DEF SetTunnelStatus
  <2> HIDE DEF effect, late
  <2>3. gl' \in Gluetuns /\ faults' \in 0..MaxFaults
    BY <2>1, <2>2, AnswerTypes
  <2> QED
    BY <1>2, <2>3 DEF SetTunnelStatus, PCs
<1>3. CASE RunUpdater
  <2>1. [NoJob EXCEPT !.kind = "updater", !.why = "command"] \in Jobs
    BY JobUpdates, EndTypes
  <2> QED
    BY <1>3, <2>1 DEF RunUpdater, gluetunVars, PCs
<1>4. ASSUME NEW b \in BOOLEAN, SetAuto(b)
      PROVE  TypeOK'
  BY <1>4 DEF SetAuto, gluetunVars
<1> QED
  BY <1>1, <1>2, <1>3, <1>4

\* The clock, a new ranking, and a restart of this process.
LEMMA OtherTypes ==
    ASSUME TypeOK, (\E r \in Rankings : Rerank(r)) \/ EngineRestart \/ Tick
    PROVE  TypeOK'
<1> USE DEF TypeOK
<1>1. CASE \E r \in Rankings : Rerank(r)
  BY <1>1 DEF Rerank, gluetunVars
<1>2. CASE EngineRestart
  <2>1. NoSnapshot \in Snapshots /\ NoJob \in Jobs
    BY EndTypes DEF NoSnapshot, Snapshots
  <2>2. faults' \in 0..MaxFaults
    BY <1>2, FaultType DEF EngineRestart
  <2> QED
    BY <1>2, <2>1, <2>2 DEF EngineRestart, PCs
<1>3. CASE Tick
  <2>1. age' \in 0..MaxAge
    BY <1>3, AgeTypes DEF Tick
  <2> QED
    BY <1>3, <2>1 DEF Tick, gluetunVars
<1> QED
  BY <1>1, <1>2, <1>3

-----------------------------------------------------------------------------
(* The floor, and the theorems.                                             *)

\* TypeOK is not inductive alone: what is pinned is the target of the round.
\* RoundPastFloor is, once the types are known: a round becomes automatic in
\* Evaluate, past the floor; the clock only moves on while it lasts; and the
\* step that dates a switch, Succeeded, is the last of its attempts.
Inv == TypeOK /\ TargetChosen /\ RoundPastFloor

LEMMA InitInv == Init => Inv
<1> SUFFICES ASSUME Init PROVE Inv
  OBVIOUS
<1>1. gl \in Gluetuns
  <2>1. PICK l \in Lists, d \in Roles, p \in BOOLEAN :
           gl = [status |-> "starting", sel |-> BootSelection, list |-> l, on |-> None,
                 late |-> None, updating |-> FALSE, proton |-> p, denied |-> d]
    BY DEF Init
  <2>2. l \subseteq Servers /\ BootSelection \subseteq Servers
    BY SwitchingAssumption
  <2> QED
    BY <2>1, <2>2 DEF Gluetuns, Statuses
<1>2. snap \in Snapshots
  BY DEF Init, NoSnapshot, Snapshots
<1>3. job \in Jobs /\ needsRestart \in BOOLEAN
  <2>1. 1 \in Nat \ {0}
    OBVIOUS
  <2> QED
    BY <2>1 DEF Init, NoJob, Jobs
<1>4. age \in 0..MaxAge /\ faults \in 0..MaxFaults
  <2>1. MaxAge \in Nat /\ MaxFaults \in Nat
    BY SwitchingAssumption
  <2>2. age = MaxAge /\ faults = MaxFaults
    BY DEF Init
  <2> QED
    BY <2>1, <2>2
<1>5. TypeOK
  BY <1>1, <1>2, <1>3, <1>4 DEF Init, TypeOK, PCs
<1>6. TargetChosen /\ RoundPastFloor
  BY DEF Init, TargetChosen, RoundPastFloor, Attempting, NoJob
<1> QED
  BY <1>5, <1>6 DEF Inv

LEMMA NextTypes == Inv /\ [Next]_vars => TypeOK'
<1> SUFFICES ASSUME Inv, [Next]_vars PROVE TypeOK'
  OBVIOUS
<1> USE DEF Inv
<1>1. CASE Engine \/ HealthTick \/ EvaluateTick
  BY <1>1, CheckTypes, RoundTypes, ApplyTypes, VerifyTypes, RefreshTypes
     DEF Engine, HealthTick, EvaluateTick
<1>2. CASE Commands
  BY <1>2, RoundTypes, CommandTypes DEF Commands
<1>3. CASE Gluetun \/ Faulty
  BY <1>3, GluetunTypes, OtherTypes DEF Faulty
<1>4. CASE Tick \/ \E r \in Rankings : Rerank(r)
  BY <1>4, OtherTypes
<1>5. CASE UNCHANGED vars
  BY <1>5 DEF vars, TypeOK
<1> QED
  BY <1>1, <1>2, <1>3, <1>4, <1>5 DEF Next

\* How an attempt ends does not change its target, unless it ends the round.
LEMMA EndTargets ==
    ASSUME job \in Jobs, job.target \in Servers,
           EndRound \/ AfterRound \/ Failed \/ TimedOut \/ Rejected
    PROVE  TargetChosen'
<1>1. EndRound => TargetChosen'
  BY DEF EndRound, NoJob, TargetChosen
<1>2. AfterRound => TargetChosen'
  BY <1>1 DEF AfterRound, TargetChosen, Jobs
<1>3. Failed => TargetChosen'
  BY <1>1, <1>2 DEF Failed
<1>4. TimedOut => TargetChosen'
  BY <1>3 DEF TimedOut, TargetChosen
<1>5. Rejected => TargetChosen'
  BY <1>1 DEF Rejected, TargetChosen, Jobs
<1> QED
  BY <1>1, <1>2, <1>3, <1>4, <1>5

LEMMA NextTarget == Inv /\ [Next]_vars => TargetChosen'
<1> SUFFICES ASSUME Inv, [Next]_vars PROVE TargetChosen'
  OBVIOUS
<1>1. TypeOK /\ TargetChosen /\ job \in Jobs
  BY DEF Inv, TypeOK
<1>2. CASE UNCHANGED <<job, pc>>
  BY <1>1, <1>2 DEF TargetChosen
<1>3. CASE CheckStatus \/ CheckSettings
  BY <1>1, <1>3 DEF CheckStatus, CheckSettings, TargetChosen
<1>4. ASSUME NEW kind \in {"auto", "best"}, Evaluate(kind)
      PROVE  TargetChosen'
  BY <1>1, <1>4 DEF Evaluate, BeginRound, NoJob, TargetChosen
<1>5. CASE TryNext
  <2>1. CASE job.at <= TopN
    <3>1. ranked[job.at].host \in Servers
      <4>1. job.at \in Nat \ {0} /\ ranked \in Rankings
        BY <1>1 DEF Jobs, TypeOK
      <4>2. TopN \in Nat /\ TopN <= Len(ranked) /\ Len(ranked) \in Nat
        BY <4>1, TopNBound
      <4> QED
        BY <2>1, <4>1, <4>2, RankedHosts
    <3> QED
      BY <1>1, <1>5, <2>1, <3>1 DEF TryNext, TargetChosen, Jobs
  <2>2. CASE ~(job.at <= TopN)
    BY <1>1, <1>5, <2>2 DEF TryNext, TargetChosen, EndRound, NoJob, Jobs
  <2> QED
    BY <2>1, <2>2
<1>6. CASE Settle \/ Pin \/ ReconnectStop \/ ReconnectStart
  <2>1. job.target \in Servers
    BY <1>1, <1>6 DEF Settle, Pin, ReconnectStop, ReconnectStart, TargetChosen
  <2>2. \/ EndRound \/ AfterRound \/ Failed \/ TimedOut \/ Rejected
        \/ UNCHANGED job
    BY <1>6 DEF Settle, Pin, ReconnectStop, ReconnectStart
  <2> QED
    BY <1>1, <2>1, <2>2, EndTargets DEF TargetChosen
<1>7. CASE VerifyStatus \/ VerifySettings
  <2>1. job.target \in Servers
    BY <1>1, <1>7 DEF VerifyStatus, VerifySettings, TargetChosen
  <2>2. EndRound \/ AfterRound \/ Failed \/ UNCHANGED job
    BY <1>7 DEF VerifyStatus, VerifySettings, Unconfirmed, Succeeded
  <2> QED
    BY <1>1, <2>1, <2>2, EndTargets DEF TargetChosen
<1>8. CASE RefreshTrigger \/ RefreshWait
  <2>1. (\E ok \in BOOLEAN : Refreshed(ok)) \/ (pc' = "await" /\ UNCHANGED job)
    BY <1>8 DEF RefreshTrigger, RefreshWait
  <2>2. ASSUME NEW ok \in BOOLEAN, Refreshed(ok)
        PROVE  TargetChosen'
    <3>1. CASE EndRound
      BY <3>1 DEF EndRound, NoJob, TargetChosen
    <3>2. CASE pc' = "check" /\ job' = NoJob
      BY <3>2 DEF NoJob, TargetChosen
    <3>3. CASE /\ pc' = IF job.kind = "host" THEN "settle" ELSE "next"
               /\ job' = [job EXCEPT !.second = TRUE, !.at = 1, !.refused = FALSE,
                                     !.skipped = FALSE, !.prevIP = snap.exit, !.why = "none"]
      <4>1. job'.kind = job.kind /\ job'.target = job.target
        BY <1>1, <3>3 DEF Jobs
      <4> QED
        BY <1>1, <3>3, <4>1 DEF TargetChosen
    <3> QED
      BY <2>2, <3>1, <3>2, <3>3 DEF Refreshed
  <2> QED
    BY <1>1, <2>1, <2>2 DEF TargetChosen
<1>9. CASE \/ \E h \in Servers : SwitchTo(h)
           \/ \E s \in {"stopped", "running"} : SetTunnelStatus(s)
           \/ RunUpdater \/ EngineRestart
  <2>1. ASSUME NEW h \in Servers, SwitchTo(h)
        PROVE  TargetChosen'
    BY <2>1 DEF SwitchTo, NoJob, TargetChosen
  <2>2. ASSUME NEW s \in {"stopped", "running"}, SetTunnelStatus(s)
        PROVE  TargetChosen'
    BY <1>1, <2>2 DEF SetTunnelStatus, TargetChosen
  <2>3. CASE RunUpdater
    BY <1>1, <2>3 DEF RunUpdater, NoJob, TargetChosen
  <2>4. CASE EngineRestart
    BY <2>4 DEF EngineRestart, NoJob, TargetChosen
  <2> QED
    BY <1>9, <2>1, <2>2, <2>3, <2>4
<1>10. CASE \/ Gluetun \/ Drop \/ GluetunRestart \/ Outside \/ Tick
            \/ (\E b \in BOOLEAN : SetAuto(b)) \/ (\E r \in Rankings : Rerank(r))
            \/ UNCHANGED vars
  BY <1>2, <1>10 DEF Gluetun, Connect, Recover, LateEffect, UpdaterFinish, Drop, GluetunRestart,
                     Outside, Tick, SetAuto, Rerank, engineVars, vars
<1> QED
  BY <1>3, <1>4, <1>5, <1>6, <1>7, <1>8, <1>9, <1>10
     DEF Next, Engine, HealthTick, EvaluateTick, Commands, Faulty

LEMMA NextFloor == Inv /\ [Next]_vars => RoundPastFloor'
<1> SUFFICES ASSUME Inv, [Next]_vars PROVE RoundPastFloor'
  OBVIOUS
<1>1. RoundPastFloor /\ job \in Jobs /\ age \in Nat /\ MinInterval \in Nat
  <2>1. RoundPastFloor /\ job \in Jobs /\ age \in 0..MaxAge
    BY DEF Inv, TypeOK
  <2>2. MaxAge \in Nat /\ MinInterval \in Nat
    BY SwitchingAssumption
  <2> QED
    BY <2>1, <2>2
<1>2. EndRound \/ AfterRound => ~Attempting'
  BY <1>1 DEF EndRound, AfterRound, Attempting, Jobs
<1>3. ASSUME Attempting, UNCHANGED age, job'.kind = job.kind
      PROVE  RoundPastFloor'
  BY <1>1, <1>3 DEF RoundPastFloor
<1>4. ASSUME Attempting, UNCHANGED age, Failed \/ TimedOut \/ Rejected
      PROVE  RoundPastFloor'
  <2>1. EndRound \/ AfterRound \/ job'.kind = job.kind
    BY <1>1, <1>4 DEF Failed, TimedOut, Rejected, Jobs
  <2> QED
    BY <1>2, <1>3, <1>4, <2>1 DEF RoundPastFloor
<1>5. CASE CheckStatus \/ CheckSettings
  BY <1>5 DEF CheckStatus, CheckSettings, RoundPastFloor, Attempting
<1>6. ASSUME NEW kind \in {"auto", "best"}, Evaluate(kind)
      PROVE  RoundPastFloor'
  <2>1. CASE pc' = "idle"
    BY <2>1 DEF RoundPastFloor, Attempting
  <2>2. CASE kind = "best" /\ BeginRound(kind)
    BY <2>2 DEF BeginRound, NoJob, RoundPastFloor
  <2>3. CASE (\E held \in BOOLEAN : Decide(held)) /\ UNCHANGED age
    BY <1>1, <2>3 DEF Decide, Remaining, RoundPastFloor
  <2> QED
    BY <1>6, <2>1, <2>2, <2>3 DEF Evaluate
<1>7. CASE TryNext
  <2>1. Attempting /\ UNCHANGED age
    BY <1>7 DEF TryNext, Attempting
  <2>2. EndRound \/ job'.kind = job.kind
    BY <1>1, <1>7 DEF TryNext, Jobs
  <2> QED
    BY <1>2, <1>3, <2>1, <2>2 DEF RoundPastFloor
<1>8. CASE Settle \/ Pin \/ ReconnectStop \/ ReconnectStart
  <2>1. Attempting /\ UNCHANGED age
    BY <1>8 DEF Settle, Pin, ReconnectStop, ReconnectStart, Attempting
  <2>2. Failed \/ TimedOut \/ Rejected \/ UNCHANGED job
    BY <1>8 DEF Settle, Pin, ReconnectStop, ReconnectStart
  <2> QED
    BY <1>3, <1>4, <2>1, <2>2
<1>9. CASE VerifyStatus \/ VerifySettings
  <2>1. Attempting
    BY <1>9 DEF VerifyStatus, VerifySettings, Attempting
  <2>2. EndRound \/ AfterRound \/ (UNCHANGED age /\ (Failed \/ UNCHANGED job))
    BY <1>9 DEF VerifyStatus, VerifySettings, Unconfirmed, Succeeded
  <2> QED
    BY <1>2, <1>3, <1>4, <2>1, <2>2 DEF RoundPastFloor
<1>10. CASE RefreshTrigger \/ RefreshWait
  <2>1. UNCHANGED age /\ pc \in {"refresh", "await"}
    BY <1>10 DEF RefreshTrigger, RefreshWait
  <2>2. (\E ok \in BOOLEAN : Refreshed(ok)) \/ (pc' = "await" /\ UNCHANGED job)
    BY <1>10 DEF RefreshTrigger, RefreshWait
  <2>3. ASSUME NEW ok \in BOOLEAN, Refreshed(ok)
        PROVE  pc' \in {"idle", "check"} \/ (job.why = "retry" /\ job'.kind = job.kind)
    BY <1>1, <2>3 DEF Refreshed, EndRound, Jobs
  <2>4. CASE pc' \in {"idle", "check"}
    BY <2>4 DEF RoundPastFloor, Attempting
  <2>5. CASE job.why = "retry" /\ job'.kind = job.kind
    BY <1>3, <2>1, <2>5 DEF Attempting
  <2>6. CASE pc' = "await" /\ UNCHANGED job
    BY <1>3, <2>1, <2>6 DEF RoundPastFloor, Attempting
  <2> QED
    BY <2>2, <2>3, <2>4, <2>5, <2>6
<1>11. CASE \E h \in Servers : SwitchTo(h)
  BY <1>11 DEF SwitchTo, NoJob, RoundPastFloor
<1>12. CASE \/ \E s \in {"stopped", "running"} : SetTunnelStatus(s)
            \/ EngineRestart
  BY <1>12 DEF SetTunnelStatus, EngineRestart, RoundPastFloor, Attempting
<1>13. CASE RunUpdater
  BY <1>13 DEF RunUpdater, NoJob, RoundPastFloor, Attempting
<1>14. CASE Tick
  BY <1>1, <1>14 DEF Tick, gluetunVars, RoundPastFloor, Attempting
<1>15. CASE \E r \in Rankings : Rerank(r)
  BY <1>1, <1>15 DEF Rerank, gluetunVars, RoundPastFloor, Attempting
<1>16. CASE \/ Gluetun \/ Drop \/ GluetunRestart \/ Outside
            \/ (\E b \in BOOLEAN : SetAuto(b)) \/ UNCHANGED vars
  <2>1. UNCHANGED <<pc, job, age>>
    BY <1>16 DEF Gluetun, Connect, Recover, LateEffect, UpdaterFinish, Drop, GluetunRestart,
                 Outside, SetAuto, engineVars, vars
  <2> QED
    BY <1>1, <2>1 DEF RoundPastFloor, Attempting
<1> QED
  BY <1>5, <1>6, <1>7, <1>8, <1>9, <1>10, <1>11, <1>12, <1>13, <1>14, <1>15, <1>16
     DEF Next, Engine, HealthTick, EvaluateTick, Commands, Faulty

\* Inv holds in every reachable state.
THEOREM Invariance == Spec => []Inv
<1>1. Inv /\ [Next]_vars => Inv'
  BY NextTypes, NextTarget, NextFloor DEF Inv
<1> QED
  BY InitInv, <1>1, PTL DEF Spec

\* Every variable keeps its type, for every catalogue, ranking, mode, role and
\* combination of faults.
THEOREM TypeCorrectness == Spec => []TypeOK
<1>1. Inv => TypeOK
  BY DEF Inv
<1> QED
  BY Invariance, <1>1, PTL

\* No automatic round is under way within MinInterval of the last recorded
\* switch: the hard floor of decide holds up to the moment the tunnel is
\* touched, for every floor, ranking and history of faults.
THEOREM FloorHolds == Spec => []RoundPastFloor
<1>1. Inv => RoundPastFloor
  BY DEF Inv
<1> QED
  BY Invariance, <1>1, PTL

-----------------------------------------------------------------------------
(* What a round may do after what it did: SwitchingHistory.                 *)

BetweenRounds == {"idle", "check", "settings", "evaluate"}

\* The loop has the locals of a round exactly while it is in one.
RoundHasJob == pc \in BetweenRounds <=> job.kind = "none"

\* A refresh the operator asked for is no round over candidates.
UpdaterWaits == job.kind = "updater" => pc \in {"refresh", "await"} /\ job.why = "command"

\* Only a loop that runs carries traffic.
OnlyRunningCarries == gl.on # None => gl.status = "running"

\* Where a round may still take the tunnel down, or has not begun.
Untorn ==
    \/ job.kind = "none"
    \/ pc \in {"next", "settle", "pin", "stop"}
    \/ pc \in {"refresh", "await"} /\ job.why = "retry"

\* A round that took the tunnel down has nothing left but to verify and to end.
TearIsLast ==
    /\ torn \in {0, 1}
    /\ "torn" \notin Track => torn = 0
    /\ Untorn => torn = 0

\* The engine has seen, or is about to see, that the operator stopped the tunnel.
StopSeen ==
    /\ "operatorDown" \notin Track => ~operatorDown
    /\ operatorDown =>
          /\ gl.status = "stopped" /\ job.kind # "auto"
          /\ \/ pc = "check"
             \/ pc = "settings" /\ seen = "stopped"
             \/ pc \notin {"check", "settings"} /\ (~snap.reachable \/ snap.status = "stopped")

OnBest == landed # None /\ ranked # <<>> /\ landed = ranked[1].host

\* After a verified switch to the best server, Gluetun and the snapshot agree on
\* it: whatever the next checks read, there is nothing to switch to.
StaysPut ==
    /\ "landed" \notin Track => landed = None
    /\ Mode = "settings" /\ OnBest =>
          /\ landed \in Servers /\ gl.sel = {landed} /\ snap.sel = {landed}
          /\ job.kind \notin {"best", "host"}
          /\ job.kind = "auto" => ~Attempting

HInv ==
    /\ Inv /\ RoundHasJob /\ UpdaterWaits /\ OnlyRunningCarries
    /\ TearIsLast /\ StopSeen /\ StaysPut

\* The history observes and restricts nothing.
LEMMA HistoryObserves ==
    /\ HInit => Init
    /\ [HNext]_<<vars, history>> => [Next]_vars
BY DEF HInit, HNext

LEMMA HInitInv == HInit => HInv
<1> SUFFICES ASSUME HInit PROVE HInv
  OBVIOUS
<1>1. Inv
  BY InitInv DEF HInit
<1>2. RoundHasJob /\ UpdaterWaits
  BY DEF HInit, Init, RoundHasJob, UpdaterWaits, BetweenRounds, NoJob
<1>4. OnlyRunningCarries
  <2>1. PICK l \in Lists, d \in Roles, p \in BOOLEAN :
           gl = [status |-> "starting", sel |-> BootSelection, list |-> l, on |-> None,
                 late |-> None, updating |-> FALSE, proton |-> p, denied |-> d]
    BY DEF HInit, Init
  <2> QED
    BY <2>1 DEF OnlyRunningCarries
<1>3. TearIsLast /\ StopSeen /\ StaysPut
  BY DEF HInit, TearIsLast, StopSeen, StaysPut, OnBest
<1> QED
  BY <1>1, <1>2, <1>3, <1>4 DEF HInv

\* How an attempt can end.
LEMMA Endings ==
    ASSUME job \in Jobs, job.kind # "none",
           EndRound \/ AfterRound \/ Failed \/ TimedOut
    PROVE  \/ pc' = "idle" /\ job' = NoJob
           \/ pc' = "refresh" /\ job'.kind = job.kind /\ job'.why = "after"
           \/ pc' = "verify" /\ job' = job
<1>1. EndRound \/ AfterRound => \/ pc' = "idle" /\ job' = NoJob
                                \/ pc' = "refresh" /\ job'.kind = job.kind /\ job'.why = "after"
  BY DEF EndRound, AfterRound, Jobs
<1> QED
  BY <1>1 DEF Failed, TimedOut

LEMMA Rejections ==
    ASSUME job \in Jobs, Rejected
    PROVE  \/ pc' = "idle" /\ job' = NoJob
           \/ pc' = "next" /\ job'.kind = job.kind
           \/ pc' = "refresh" /\ job'.kind = job.kind
BY DEF Rejected, EndRound, Jobs

\* The course of control: rounds begin outside of one, and end there.
LEMMA Course ==
    ASSUME Inv, RoundHasJob, Next
    PROVE  \/ UNCHANGED <<pc, job>>
           \/ pc \in BetweenRounds /\ pc' \in BetweenRounds /\ job' = job
           \/ job.kind = "none" /\ job'.kind # "none" /\ pc' \notin BetweenRounds
           \/ pc' \in {"idle", "check"} /\ job' = NoJob
           \/ /\ pc \notin BetweenRounds /\ pc' \notin BetweenRounds /\ job'.kind = job.kind
              /\ Untorn' => Untorn
<1>1. job \in Jobs /\ pc \in PCs
  BY DEF Inv, TypeOK
<1>2. CASE CheckStatus \/ CheckSettings
  BY <1>2 DEF CheckStatus, CheckSettings, BetweenRounds
<1>3. ASSUME NEW kind \in {"auto", "best"}, Evaluate(kind)
      PROVE  \/ pc \in BetweenRounds /\ pc' \in BetweenRounds /\ job' = job
             \/ job.kind = "none" /\ job'.kind # "none" /\ pc' \notin BetweenRounds
  BY <1>3 DEF Evaluate, BeginRound, NoJob, RoundHasJob, BetweenRounds
<1>4. ASSUME pc \notin BetweenRounds,
             \/ EndRound \/ AfterRound \/ Failed \/ TimedOut
             \/ Untorn /\ Rejected
      PROVE  \/ pc' \in {"idle", "check"} /\ job' = NoJob
             \/ /\ pc \notin BetweenRounds /\ pc' \notin BetweenRounds /\ job'.kind = job.kind
                /\ Untorn' => Untorn
  <2>1. job.kind # "none"
    BY <1>4 DEF RoundHasJob
  <2> QED
    BY <1>1, <1>4, <2>1, Endings, Rejections DEF BetweenRounds, Untorn
<1>5. CASE TryNext
  <2>1. EndRound \/ (job'.kind = job.kind /\ pc' \in {"next", "settle", "refresh"})
    BY <1>1, <1>5 DEF TryNext, Jobs
  <2> QED
    BY <1>4, <1>5, <2>1 DEF TryNext, Untorn, BetweenRounds
<1>6. CASE Settle \/ Pin \/ ReconnectStop
  <2>1. Untorn /\ pc \notin BetweenRounds
    BY <1>6 DEF Settle, Pin, ReconnectStop, Untorn, BetweenRounds
  <2>2. \/ Failed \/ TimedOut \/ Rejected
        \/ UNCHANGED job /\ pc' \in {"pin", "stop", "start", "verify"}
    BY <1>6 DEF Settle, Pin, ReconnectStop
  <2> QED
    BY <1>4, <2>1, <2>2 DEF BetweenRounds
<1>7. CASE ReconnectStart \/ VerifyStatus \/ VerifySettings
  <2>1. pc \notin BetweenRounds
    BY <1>7 DEF ReconnectStart, VerifyStatus, VerifySettings, BetweenRounds
  <2>2. \/ EndRound \/ AfterRound \/ Failed \/ TimedOut
        \/ UNCHANGED job /\ pc' \in {"verify", "confirm"}
    BY <1>7 DEF ReconnectStart, VerifyStatus, VerifySettings, Unconfirmed, Succeeded
  <2>3. job.kind # "none"
    BY <2>1 DEF RoundHasJob
  <2> QED
    BY <1>4, <2>1, <2>2, <2>3 DEF BetweenRounds, Untorn
<1>8. CASE RefreshTrigger \/ RefreshWait
  <2>1. pc \in {"refresh", "await"}
    BY <1>8 DEF RefreshTrigger, RefreshWait
  <2>2. (\E ok \in BOOLEAN : Refreshed(ok)) \/ (pc' = "await" /\ UNCHANGED job)
    BY <1>8 DEF RefreshTrigger, RefreshWait
  <2>3. ASSUME NEW ok \in BOOLEAN, Refreshed(ok)
        PROVE  \/ pc' \in {"idle", "check"} /\ job' = NoJob
               \/ job.why = "retry" /\ pc' \in {"settle", "next"} /\ job'.kind = job.kind
    BY <1>1, <2>3 DEF Refreshed, EndRound, Jobs
  <2> QED
    BY <2>1, <2>2, <2>3 DEF BetweenRounds, Untorn
<1>9. CASE (\E h \in Servers : SwitchTo(h)) \/ RunUpdater
  <2>1. job.kind = "none"
    BY <1>9 DEF SwitchTo, RunUpdater, RoundHasJob, BetweenRounds
  <2> QED
    BY <1>9, <2>1 DEF SwitchTo, RunUpdater, NoJob, BetweenRounds
<1>10. CASE (\E s \in {"stopped", "running"} : SetTunnelStatus(s)) \/ EngineRestart
  BY <1>10 DEF SetTunnelStatus, EngineRestart, BetweenRounds
<1>11. CASE \/ Gluetun \/ Drop \/ GluetunRestart \/ Outside \/ Tick
            \/ (\E b \in BOOLEAN : SetAuto(b)) \/ (\E r \in Rankings : Rerank(r))
  BY <1>11 DEF Gluetun, Connect, Recover, LateEffect, UpdaterFinish, Drop, GluetunRestart,
               Outside, Tick, SetAuto, Rerank, engineVars, gluetunVars
<1> QED
  BY <1>2, <1>3, <1>5, <1>6, <1>7, <1>8, <1>9, <1>10, <1>11
     DEF Next, Engine, HealthTick, EvaluateTick, Commands, Faulty

LEMMA NextJob == HInv /\ HNext => RoundHasJob'
<1> SUFFICES ASSUME HInv, HNext PROVE RoundHasJob'
  OBVIOUS
<1> QED
  BY Course DEF HInv, HNext, RoundHasJob, BetweenRounds, NoJob

\* What the loop asks of Gluetun, and what it asks for.
LEMMA Mutations ==
    ASSUME Next
    PROVE  \/ UNCHANGED gl
           \/ /\ Pin
              /\ gl' \in {Selected(gl, job.target), [gl EXCEPT !.late = job.target]}
           \/ /\ ReconnectStop \/ \E s \in {"stopped", "running"} : SetTunnelStatus(s)
              /\ gl' \in {Stopped(gl), [gl EXCEPT !.late = "stop"]}
           \/ /\ ReconnectStart \/ \E s \in {"stopped", "running"} : SetTunnelStatus(s)
              /\ gl' \in {Started(gl), [gl EXCEPT !.late = "start"]}
           \/ RefreshTrigger /\ gl' = [gl EXCEPT !.updating = TRUE]
           \/ Gluetun \/ Drop \/ GluetunRestart \/ Outside
<1>1. CASE CheckStatus \/ CheckSettings \/ TryNext \/ Settle \/ VerifyStatus \/ VerifySettings
           \/ RefreshWait \/ RunUpdater \/ EngineRestart \/ Tick
  BY <1>1 DEF CheckStatus, CheckSettings, TryNext, Settle, VerifyStatus, VerifySettings,
              RefreshWait, RunUpdater, EngineRestart, Tick, gluetunVars
<1>2. CASE \/ \E kind \in {"auto", "best"} : Evaluate(kind)
           \/ \E h \in Servers : SwitchTo(h)
           \/ \E b \in BOOLEAN : SetAuto(b)
           \/ \E r \in Rankings : Rerank(r)
  BY <1>2 DEF Evaluate, SwitchTo, SetAuto, Rerank, gluetunVars
<1>3. CASE Pin
  BY <1>3 DEF Pin, Answered, Unanswered, Unavailable, gluetunVars
<1>4. CASE ReconnectStop \/ ReconnectStart
  BY <1>4 DEF ReconnectStop, ReconnectStart, Answered, Unanswered, Unavailable, gluetunVars
<1>5. ASSUME NEW s \in {"stopped", "running"}, SetTunnelStatus(s)
      PROVE  \/ UNCHANGED gl
             \/ gl' \in {Stopped(gl), [gl EXCEPT !.late = "stop"]}
             \/ gl' \in {Started(gl), [gl EXCEPT !.late = "start"]}
  BY <1>5 DEF SetTunnelStatus, Answered, Unanswered, Unavailable
<1>6. CASE RefreshTrigger
  BY <1>6 DEF RefreshTrigger, gluetunVars
<1> QED
  BY <1>1, <1>2, <1>3, <1>4, <1>5, <1>6
     DEF Next, Engine, HealthTick, EvaluateTick, Commands, Faulty

LEMMA NextCarries == HInv /\ HNext => OnlyRunningCarries'
<1> SUFFICES ASSUME HInv, HNext PROVE OnlyRunningCarries'
  OBVIOUS
<1>1. gl \in Gluetuns /\ OnlyRunningCarries
  BY DEF HInv, Inv, TypeOK
<1>2. CASE \/ UNCHANGED gl
           \/ (\E x \in Servers \cup {"stop", "start"} : gl' = [gl EXCEPT !.late = x])
           \/ gl' = [gl EXCEPT !.updating = TRUE]
  BY <1>1, <1>2 DEF OnlyRunningCarries, Gluetuns
<1>3. CASE \/ \E h \in Servers : gl' = Selected(gl, h)
           \/ gl' \in {Stopped(gl), Started(gl)}
  BY <1>1, <1>3 DEF OnlyRunningCarries, Gluetuns, Selected, Stopped, Started
<1>4. CASE Pin
  <2>1. job.target \in Servers
    BY <1>4 DEF Pin, HInv, Inv, TargetChosen
  <2> QED
    BY <1>2, <1>3, <1>4, <2>1 DEF Pin, Answered, Unanswered, Unavailable, gluetunVars
<1>5. CASE Connect
  <2>1. PICK h \in Servers \cup gl.list \cup gl.sel :
           gl' = IF h \in Dead THEN [gl EXCEPT !.status = "crashed"]
                               ELSE [gl EXCEPT !.status = "running", !.on = h]
    BY <1>5 DEF Connect
  <2> QED
    BY <1>1, <1>5, <2>1 DEF Connect, OnlyRunningCarries, Gluetuns
<1>6. CASE Recover \/ Drop \/ UpdaterFinish
  BY <1>1, <1>6 DEF Recover, Drop, UpdaterFinish, OnlyRunningCarries, Gluetuns
<1>7. CASE LateEffect
  <2>1. gl.late \in Servers \cup {None, "stop", "start"}
    BY <1>1 DEF Gluetuns
  <2> QED
    BY <1>3, <1>7, <2>1 DEF LateEffect
<1>8. CASE GluetunRestart
  <2>1. gl'.on = None
    BY <1>8 DEF GluetunRestart
  <2> QED
    BY <2>1 DEF OnlyRunningCarries
<1>9. CASE Outside
  BY <1>3, <1>9 DEF Outside
<1> QED
  BY Mutations, <1>2, <1>3, <1>4, <1>5, <1>6, <1>7, <1>8, <1>9 DEF HNext, Gluetun

\* Taking a live tunnel down is the last mutation but the start of a round.
LEMMA TearEnds ==
    ASSUME HInv, Next, Tears
    PROVE  \/ pc' \in {"start", "verify"} /\ job' = job
           \/ pc' = "idle" /\ job' = NoJob
           \/ pc' = "refresh" /\ job'.why = "after"
<1>1. job \in Jobs /\ gl \in Gluetuns /\ job.kind # "none" /\ gl.status = "running"
  BY DEF HInv, Inv, TypeOK, RoundHasJob, OnlyRunningCarries, Tears, BetweenRounds
<1>2. gl' # gl
  BY DEF Tears
<1>3. CASE Pin
  <2>1. \/ Failed \/ TimedOut
        \/ pc' = "verify" /\ UNCHANGED job
    BY <1>1, <1>2, <1>3 DEF Pin, gluetunVars
  <2> QED
    BY <1>1, <2>1, Endings
<1>4. CASE ReconnectStop
  <2>1. \/ Failed \/ TimedOut
        \/ pc' = "start" /\ UNCHANGED job
    BY <1>2, <1>4 DEF ReconnectStop, gluetunVars
  <2> QED
    BY <1>1, <2>1, Endings
<1> QED
  <2>1. pc \in {"pin", "stop"} /\ pc' # pc
    BY DEF Tears
  <2>2. ~ReconnectStart /\ ~RefreshTrigger /\ ~\E s \in {"stopped", "running"} : SetTunnelStatus(s)
    BY <2>1 DEF ReconnectStart, RefreshTrigger, SetTunnelStatus
  <2>3. ~(Gluetun \/ Drop \/ GluetunRestart \/ Outside)
    BY <2>1 DEF Gluetun, Connect, Recover, LateEffect, UpdaterFinish, Drop, GluetunRestart,
                Outside, engineVars
  <2> QED
    BY Mutations, <1>2, <1>3, <1>4, <2>2, <2>3

LEMMA NextTear == HInv /\ HNext => TearIsLast'
<1> SUFFICES ASSUME HInv, HNext PROVE TearIsLast'
  OBVIOUS
<1>1. TearIsLast /\ RoundHasJob /\ Inv /\ Next
  BY DEF HInv, HNext
<1>2. CASE "torn" \notin Track
  BY <1>1, <1>2 DEF HNext, Follow, TearIsLast
<1>3. CASE "torn" \in Track
  <2>1. torn' = NextTorn
    BY <1>3 DEF HNext, Follow
  <2>2. CASE job'.kind = "none"
    BY <1>3, <2>1, <2>2 DEF NextTorn, TearIsLast
  <2>3. CASE job'.kind # "none" /\ Tears
    <3>1. torn = 0 /\ torn' = 1
      BY <1>1, <2>1, <2>3 DEF NextTorn, TearIsLast, Untorn, Tears
    <3>2. ~Untorn'
      BY <2>3, TearEnds, <1>1 DEF Untorn, NoJob
    <3> QED
      BY <1>3, <3>1, <3>2 DEF TearIsLast
  <2>4. CASE job'.kind # "none" /\ ~Tears
    <3>1. torn' = torn
      BY <2>1, <2>4 DEF NextTorn
    <3>2. Untorn' => Untorn
      BY <1>1, <2>4, Course DEF Untorn, RoundHasJob, NoJob
    <3> QED
      BY <1>1, <1>3, <3>1, <3>2 DEF TearIsLast
  <2> QED
    BY <2>2, <2>3, <2>4
<1> QED
  BY <1>2, <1>3

\* How a round begins, and of which kind.
LEMMA Beginnings ==
    ASSUME Inv, RoundHasJob, Next, job'.kind # job.kind, job'.kind # "none"
    PROVE  \/ Evaluate("auto") /\ job'.kind = "auto"
           \/ Evaluate("best") /\ job'.kind = "best"
           \/ job'.kind = "host"
           \/ job'.kind = "updater" /\ job'.why = "command" /\ pc' = "refresh"
<1>1. job.kind = "none" /\ pc \in BetweenRounds /\ job' # job /\ job' # NoJob
  BY Course DEF RoundHasJob, NoJob
<1>2. CASE Engine /\ ~Evaluate("auto")
  BY <1>1, <1>2 DEF Engine, CheckStatus, CheckSettings, TryNext, Settle, Pin, ReconnectStop,
                    ReconnectStart, VerifyStatus, VerifySettings, RefreshTrigger, RefreshWait,
                    BetweenRounds
<1>3. ASSUME NEW kind \in {"auto", "best"}, Evaluate(kind)
      PROVE  job'.kind = kind
  BY <1>1, <1>3 DEF Evaluate, BeginRound, NoJob
<1>4. CASE (\E h \in Servers : SwitchTo(h)) \/ RunUpdater
  BY <1>1, <1>4 DEF SwitchTo, RunUpdater, NoJob
<1>5. CASE \/ CheckStatus \/ Gluetun \/ Drop \/ GluetunRestart \/ Outside \/ EngineRestart \/ Tick
           \/ (\E s \in {"stopped", "running"} : SetTunnelStatus(s))
           \/ (\E b \in BOOLEAN : SetAuto(b)) \/ (\E r \in Rankings : Rerank(r))
  BY <1>1, <1>5 DEF CheckStatus, Gluetun, Connect, Recover, LateEffect, UpdaterFinish, Drop,
                    GluetunRestart, Outside, EngineRestart, Tick, SetTunnelStatus, SetAuto, Rerank,
                    engineVars, gluetunVars
<1> QED
  BY <1>2, <1>3, <1>4, <1>5 DEF Next, Engine, HealthTick, EvaluateTick, Commands, Faulty

\* During a refresh the loop does nothing else.
LEMMA QuietWhileRefreshing ==
    ASSUME Next, pc \in {"refresh", "await"}, ~(RefreshTrigger \/ RefreshWait)
    PROVE  UNCHANGED <<pc, job, snap>> \/ EngineRestart
<1>1. CASE Gluetun \/ Drop \/ GluetunRestart \/ Outside \/ Tick
  BY <1>1 DEF Gluetun, Connect, Recover, LateEffect, UpdaterFinish, Drop,
              GluetunRestart, Outside, Tick, engineVars
<1>2. ~(\/ CheckStatus \/ CheckSettings \/ TryNext \/ Settle \/ Pin \/ ReconnectStop \/ ReconnectStart
        \/ VerifyStatus \/ VerifySettings \/ RunUpdater)
  BY DEF CheckStatus, CheckSettings, TryNext, Settle, Pin, ReconnectStop, ReconnectStart,
         VerifyStatus, VerifySettings, RunUpdater
<1>3. ~(\/ \E kind \in {"auto", "best"} : Evaluate(kind)
        \/ \E h \in Servers : SwitchTo(h)
        \/ \E s \in {"stopped", "running"} : SetTunnelStatus(s)
        \/ \E b \in BOOLEAN : SetAuto(b)
        \/ \E r \in Rankings : Rerank(r))
  BY DEF Evaluate, SwitchTo, SetTunnelStatus, SetAuto, Rerank
<1> QED
  BY <1>1, <1>2, <1>3 DEF Next, Engine, HealthTick, EvaluateTick, Commands, Faulty

\* What the decisions read is written by a health check and by a success alone,
\* and forgotten by a restart.
LEMMA Glances ==
    ASSUME Next, ~(CheckStatus \/ CheckSettings \/ VerifySettings)
    PROVE  \/ EngineRestart
           \/ snap' = snap /\ UNCHANGED <<pc, seen>>
           \/ snap' = snap /\ pc' = "check"
           \/ snap' = snap /\ pc \notin {"check", "settings"} /\ pc' \notin {"check", "settings"}
<1>1. CASE \/ Gluetun \/ Drop \/ GluetunRestart \/ Outside \/ Tick \/ EngineRestart
           \/ (\E b \in BOOLEAN : SetAuto(b)) \/ (\E r \in Rankings : Rerank(r))
  BY <1>1 DEF Gluetun, Connect, Recover, LateEffect, UpdaterFinish, Drop, GluetunRestart, Outside,
              Tick, EngineRestart, SetAuto, Rerank, engineVars
<1>2. CASE \/ (\E kind \in {"auto", "best"} : Evaluate(kind))
           \/ (\E h \in Servers : SwitchTo(h)) \/ RunUpdater
           \/ (\E s \in {"stopped", "running"} : SetTunnelStatus(s))
  BY <1>2 DEF Evaluate, SwitchTo, RunUpdater, SetTunnelStatus
<1>3. CASE TryNext
  BY <1>3 DEF TryNext, EndRound
<1>4. CASE Settle \/ Pin \/ ReconnectStop \/ ReconnectStart \/ VerifyStatus
  <2>1. \/ EndRound \/ AfterRound \/ Failed \/ TimedOut \/ Rejected
        \/ pc' \in {"pin", "stop", "start", "verify", "confirm"}
    BY <1>4 DEF Settle, Pin, ReconnectStop, ReconnectStart, VerifyStatus, Unconfirmed
  <2>2. pc' \notin {"check", "settings"}
    BY <2>1 DEF EndRound, AfterRound, Failed, TimedOut, Rejected
  <2> QED
    BY <1>4, <2>2 DEF Settle, Pin, ReconnectStop, ReconnectStart, VerifyStatus
<1>5. CASE RefreshTrigger \/ RefreshWait
  <2>1. pc' \notin {"settings"}
    BY <1>5 DEF RefreshTrigger, RefreshWait, Refreshed, EndRound
  <2> QED
    BY <1>5, <2>1 DEF RefreshTrigger, RefreshWait
<1> QED
  BY <1>1, <1>2, <1>3, <1>4, <1>5 DEF Next, Engine, HealthTick, EvaluateTick, Commands, Faulty

LEMMA NextUpdater ==
    ASSUME Inv, RoundHasJob, UpdaterWaits, Next
    PROVE  UpdaterWaits'
<1> SUFFICES ASSUME job'.kind = "updater" PROVE UpdaterWaits'
  BY DEF UpdaterWaits
<1>1. CASE job.kind = "updater"
  <2>1. pc \in {"refresh", "await"} /\ job.why = "command"
    BY <1>1 DEF UpdaterWaits
  <2>2. CASE RefreshTrigger \/ RefreshWait
    BY <2>1, <2>2 DEF RefreshTrigger, RefreshWait, Refreshed, NoJob, UpdaterWaits
  <2>3. CASE ~(RefreshTrigger \/ RefreshWait)
    <3>1. ~EngineRestart
      <4>1. EngineRestart => job' = NoJob
        BY DEF EngineRestart
      <4>2. NoJob.kind # "updater"
        BY DEF NoJob
      <4> QED
        BY <4>1, <4>2
    <3>2. UNCHANGED <<pc, job>>
      BY <2>1, <2>3, <3>1, QuietWhileRefreshing
    <3> QED
      BY <2>1, <3>2 DEF UpdaterWaits
  <2> QED
    BY <2>2, <2>3
<1>2. CASE job.kind # "updater"
  BY <1>2, Beginnings DEF UpdaterWaits
<1> QED
  BY <1>1, <1>2

LEMMA NextStop == HInv /\ HNext => StopSeen'
<1> SUFFICES ASSUME HInv, HNext PROVE StopSeen'
  OBVIOUS
<1>1. StopSeen /\ Inv /\ Next /\ RoundHasJob /\ RoundHasJob'
  BY NextJob DEF HInv, HNext
<1>2. CASE "operatorDown" \notin Track
  BY <1>1, <1>2 DEF HNext, Follow, StopSeen
<1>3. CASE "operatorDown" \in Track /\ ~operatorDown'
  BY <1>3 DEF StopSeen
<1>4. CASE "operatorDown" \in Track /\ operatorDown'
  <2>1. gl'.status = "stopped" /\ (operatorDown \/ OperatorStops)
    BY <1>4 DEF HNext, Follow, NextOperatorDown
  <2>2. CASE OperatorStops
    BY <1>1, <1>4, <2>1, <2>2 DEF OperatorStops, RoundHasJob, BetweenRounds, StopSeen
  <2>3. CASE operatorDown
    <3>1. /\ gl.status = "stopped" /\ job.kind # "auto"
          /\ \/ pc = "check"
             \/ pc = "settings" /\ seen = "stopped"
             \/ pc \notin {"check", "settings"} /\ (~snap.reachable \/ snap.status = "stopped")
      BY <1>1, <2>3 DEF StopSeen
    <3>2. job.kind = "auto" \/ job'.kind # "auto" \/ Evaluate("auto")
      BY <1>1, Beginnings
    <3>3. ~(Evaluate("auto") /\ job'.kind = "auto")
      BY <3>1 DEF Evaluate, Eligible
    <3>4. \/ pc' = "check"
          \/ pc' = "settings" /\ seen' = "stopped"
          \/ pc' \notin {"check", "settings"} /\ (~snap'.reachable \/ snap'.status = "stopped")
      <4>1. CASE CheckStatus
        BY <1>1, <3>1, <4>1 DEF CheckStatus, Inv, TypeOK, Snapshots
      <4>2. CASE CheckSettings
        <5>1. PICK readable \in BOOLEAN, exit \in {snap.exit, gl.on} :
                 snap' = Observed(readable, exit)
          BY <4>2 DEF CheckSettings
        <5>2. snap'.status = "stopped"
          BY <3>1, <4>2, <5>1 DEF CheckSettings, Observed
        <5>3. pc' = "idle"
          BY <4>2, <5>2 DEF CheckSettings, BecameUsable, Usable
        <5> QED
          BY <5>2, <5>3
      <4>3. CASE VerifySettings
        BY <1>1, <3>1, <4>3 DEF VerifySettings, Succeeded, Unconfirmed, Failed, EndRound, AfterRound,
                                Inv, TypeOK, Snapshots
      <4>4. CASE ~(CheckStatus \/ CheckSettings \/ VerifySettings)
        BY <1>1, <3>1, <4>4, Glances DEF EngineRestart
      <4> QED
        BY <4>1, <4>2, <4>3, <4>4
    <3> QED
      BY <1>4, <2>1, <3>1, <3>2, <3>3, <3>4 DEF StopSeen
  <2> QED
    BY <2>1, <2>2, <2>3
<1> QED
  BY <1>2, <1>3, <1>4

\* Only a verified switch dates itself.
LEMMA Successes ==
    ASSUME Inv, Next, age' = 0, age # 0
    PROVE  /\ VerifySettings /\ UNCHANGED <<gl, ranked>>
           /\ \E ip \in {None, gl.on} : Confirms(ip) /\ Succeeded(ip)
<1>1. age \in Nat
  <2>1. age \in 0..MaxAge
    BY DEF Inv, TypeOK
  <2> QED
    BY <2>1
<1>2. age' # age /\ age' # age + 1
  BY <1>1
<1>3. CASE VerifySettings
  BY <1>2, <1>3 DEF VerifySettings
<1>4. CASE Engine /\ ~VerifySettings
  BY <1>2, <1>4 DEF Engine, CheckStatus, CheckSettings, Evaluate, TryNext, Settle, Pin, ReconnectStop,
                    ReconnectStart, VerifyStatus, RefreshTrigger, RefreshWait
<1>5. CASE HealthTick \/ EvaluateTick \/ Commands
  BY <1>2, <1>5 DEF HealthTick, EvaluateTick, Commands, CheckStatus, Evaluate, SwitchTo,
                    SetTunnelStatus, RunUpdater, SetAuto
<1>6. CASE Gluetun \/ Faulty \/ Tick \/ \E r \in Rankings : Rerank(r)
  BY <1>2, <1>6 DEF Gluetun, Faulty, Connect, Recover, LateEffect, UpdaterFinish, Drop,
                    GluetunRestart, Outside, EngineRestart, Tick, Rerank, engineVars
<1> QED
  BY <1>3, <1>4, <1>5, <1>6 DEF Next

\* A snapshot with one server selected shows that server as the current one.
LEMMA OneSelected ==
    ASSUME NEW h \in Servers, snap.sel = {h}
    PROVE  CurrentHostname = h
<1>1. \A g \in Servers : snap.sel = {g} <=> g = h
  OBVIOUS
<1>2. (CHOOSE g \in Servers : snap.sel = {g}) = h
  BY <1>1
<1> QED
  BY <1>1, <1>2 DEF CurrentHostname

LEMMA NextStays == HInv /\ HNext => StaysPut'
<1> SUFFICES ASSUME HInv, HNext PROVE StaysPut'
  OBVIOUS
<1>1. StaysPut /\ UpdaterWaits /\ Inv /\ Next /\ RoundHasJob /\ RoundHasJob' /\ UpdaterWaits'
  BY NextJob, NextUpdater DEF HInv, HNext
<1>2. job \in Jobs /\ gl \in Gluetuns /\ snap \in Snapshots
  BY <1>1 DEF Inv, TypeOK
<1>3. CASE "landed" \notin Track
  BY <1>1, <1>3 DEF HNext, Follow, StaysPut, OnBest
<1>4. CASE "landed" \in Track
  <2> SUFFICES ASSUME Mode = "settings", OnBest'
               PROVE  /\ landed' \in Servers /\ gl'.sel = {landed'} /\ snap'.sel = {landed'}
                      /\ job'.kind \notin {"best", "host"}
                      /\ job'.kind = "auto" => ~Attempting'
    BY <1>4 DEF StaysPut
  <2>1. landed' = NextLanded /\ landed' # None
    BY <1>4 DEF HNext, Follow, OnBest
  <2>2. CASE age' = 0 /\ age # 0 /\ job.kind = "auto"
    <3>1. landed' = job.target
      BY <2>1, <2>2 DEF NextLanded
    <3>2. PICK ip \in {None, gl.on} : Confirms(ip) /\ Succeeded(ip)
      BY <1>1, <2>2, Successes
    <3>3. UNCHANGED gl /\ job.target \in Servers
      BY <1>1, <2>2, Successes DEF VerifySettings, Inv, TargetChosen
    <3>4. gl.sel = {job.target} /\ snap'.sel = {job.target}
      BY <1>2, <2>2, <3>2 DEF Confirms, Succeeded, Snapshots
    <3>5. AfterRound
      BY <2>2, <3>2 DEF Succeeded
    <3>6. job'.kind \in {"none", "auto"} /\ ~Attempting'
      BY <1>2, <2>2, <3>5 DEF AfterRound, EndRound, NoJob, Attempting, Jobs
    <3> QED
      BY <3>1, <3>3, <3>4, <3>6
  <2>3. CASE ~(age' = 0 /\ age # 0 /\ job.kind = "auto")
    <3>1. /\ landed' = landed /\ ranked' = ranked /\ ~Faulty /\ ~LateEffect
          /\ job'.kind \notin {"best", "host"}
      BY <2>1, <2>3 DEF NextLanded
    <3>2. OnBest
      BY <3>1 DEF OnBest
    <3>3. /\ landed \in Servers /\ gl.sel = {landed} /\ snap.sel = {landed}
          /\ job.kind \notin {"best", "host"}
          /\ job.kind = "auto" => ~Attempting
      BY <1>1, <3>2 DEF StaysPut
    <3>4. pc \notin {"next", "settle", "pin", "stop", "start", "verify", "confirm"}
      <4>1. job.kind \in {"none", "auto", "updater"}
        BY <1>2, <3>3 DEF Jobs
      <4> QED
        BY <1>1, <3>3, <4>1 DEF RoundHasJob, BetweenRounds, UpdaterWaits, Attempting
    <3>5. gl'.sel = {landed}
      <4>1. ~Pin /\ ~Drop /\ ~GluetunRestart /\ ~Outside
        BY <3>1, <3>4 DEF Pin, Faulty
      <4>2. CASE \/ UNCHANGED gl
                 \/ gl' \in {Stopped(gl), [gl EXCEPT !.late = "stop"],
                             Started(gl), [gl EXCEPT !.late = "start"]}
                 \/ gl' = [gl EXCEPT !.updating = TRUE]
        BY <1>2, <3>3, <4>2 DEF Stopped, Started, Gluetuns
      <4>3. CASE Connect \/ Recover \/ UpdaterFinish
        BY <1>2, <3>3, <4>3 DEF Connect, Recover, UpdaterFinish, Gluetuns
      <4> QED
        BY <1>1, <3>1, <4>1, <4>2, <4>3, Mutations DEF Gluetun
    <3>6. snap'.sel = {landed}
      <4>1. CASE CheckStatus
        BY <1>2, <3>3, <4>1 DEF CheckStatus, Snapshots
      <4>2. CASE CheckSettings
        <5>1. PICK readable \in BOOLEAN, exit \in {snap.exit, gl.on} :
                 snap' = Observed(readable, exit)
          BY <4>2 DEF CheckSettings
        <5> QED
          BY <3>3, <5>1 DEF Observed
      <4>3. ~VerifySettings /\ ~EngineRestart
        BY <3>1, <3>4 DEF VerifySettings, Faulty
      <4>4. CASE ~(CheckStatus \/ CheckSettings \/ VerifySettings)
        BY <1>1, <3>3, <4>3, <4>4, Glances
      <4> QED
        BY <4>1, <4>2, <4>3, <4>4
    <3>7. ASSUME job'.kind = "auto" PROVE ~Attempting'
      <4>1. CASE job.kind = "auto"
        <5>1. pc \in {"refresh", "await"} /\ job.why # "retry"
          BY <1>1, <3>3, <3>4, <4>1 DEF RoundHasJob, BetweenRounds, Attempting, Inv, TypeOK, PCs
        <5>2. CASE RefreshTrigger \/ RefreshWait
          <6>1. pc' \in {"idle", "check"} \/ (pc' = "await" /\ UNCHANGED job)
            BY <5>1, <5>2 DEF RefreshTrigger, RefreshWait, Refreshed, EndRound
          <6> QED
            BY <5>1, <6>1 DEF Attempting
        <5>3. CASE ~(RefreshTrigger \/ RefreshWait)
          BY <1>1, <3>1, <5>1, <5>3, QuietWhileRefreshing DEF Attempting, Faulty
        <5> QED
          BY <5>2, <5>3
      <4>2. CASE job.kind # "auto"
        <5>1. Evaluate("auto") /\ UNCHANGED ranked
          BY <1>1, <3>1, <3>7, <4>2, Beginnings
        <5>2. CurrentHostname = ranked[1].host
          BY <3>2, <3>3, OneSelected DEF OnBest
        <5>3. \A held \in BOOLEAN : ~Decide(held)
          BY <5>2 DEF Decide
        <5> QED
          BY <5>1, <5>3 DEF Evaluate, Attempting
      <4> QED
        BY <4>1, <4>2
    <3> QED
      BY <3>1, <3>3, <3>5, <3>6, <3>7
  <2> QED
    BY <2>2, <2>3
<1> QED
  BY <1>3, <1>4

\* The invariant of the history holds in every behaviour.
THEOREM HInvariance == HSpec => []HInv
<1>1. HInv /\ HNext => HInv'
  <2> SUFFICES ASSUME HInv, HNext PROVE HInv'
    OBVIOUS
  <2>1. Inv'
    BY NextTypes, NextTarget, NextFloor DEF Inv, HInv, HNext
  <2>2. UpdaterWaits'
    BY NextUpdater DEF HInv, HNext
  <2> QED
    BY <2>1, <2>2, NextJob, NextCarries, NextTear, NextStop, NextStays DEF HInv
<1>2. HInv /\ UNCHANGED <<vars, history>> => HInv'
  <2> SUFFICES ASSUME HInv, UNCHANGED <<vars, history>> PROVE HInv'
    OBVIOUS
  <2>1. Inv'
    BY NextTypes, NextTarget, NextFloor DEF Inv, HInv
  <2>2. UNCHANGED <<gl, snap, ranked, pc, seen, job>> /\ UNCHANGED <<operatorDown, torn, landed>>
    BY DEF vars, history
  <2> QED
    BY <2>1, <2>2 DEF HInv, RoundHasJob, UpdaterWaits, OnlyRunningCarries, TearIsLast, Untorn, StopSeen,
                      StaysPut, OnBest, Attempting
<1> QED
  BY HInitInv, <1>1, <1>2, PTL DEF HSpec

\* One round takes a live tunnel down at most once, in every mode and for every
\* ranking, role and sequence of faults.
THEOREM InterruptsOnce == HSpec => []OneInterruption
<1>1. HInv => OneInterruption
  BY DEF HInv, TearIsLast, OneInterruption
<1> QED
  BY HInvariance, <1>1, PTL

\* No automatic round starts a tunnel the operator was told is stopped.
THEOREM StopIsRespected == HSpec => StopStands
<1>1. HInv /\ [HNext]_<<vars, history>> =>
         [operatorDown /\ gl'.status # "stopped" =>
             ~(pc = "start" /\ job.kind = "auto")]_<<vars, history>>
  BY DEF HInv, StopSeen
<1> QED
  BY HInvariance, <1>1, PTL DEF HSpec, StopStands

\* After a verified switch to the best server no automatic round touches the
\* tunnel while nothing has changed, when servers are chosen by settings.
THEOREM RestsOnBest == Mode = "settings" => (HSpec => []StaysOnBest)
<1> SUFFICES ASSUME Mode = "settings" PROVE HSpec => []StaysOnBest
  OBVIOUS
<1>1. HInv => StaysOnBest
  BY DEF HInv, StaysPut, OnBest, StaysOnBest
<1> QED
  BY HInvariance, <1>1, PTL

-----------------------------------------------------------------------------
(* What a round settles for, and when it asks for a restart of Gluetun.     *)

\* Gluetun's list is replaced by the refreshes of this program alone, each of
\* which is seen to end, and no route is refused.
ListIsOurs ==
    /\ FaultKinds \cap {"gluetunRestart", "engineRestart", "updater", "slow"} = {}
    /\ Roles = {{}}

\* Outside of a refresh, what Gluetun disclosed is its list as it is now.
KnownIsList == pc # "await" => ~gl.updating /\ known \in {{}, gl.list}

\* The first n candidates could not be switched to.
Beaten(n) == \A i \in 1..n : ranked[i].host = job.prev \/ ranked[i].host \notin gl.list

\* A round has a reason for each candidate it passed over.
Passed ==
    job.kind \in {"auto", "best"} =>
        /\ pc = "next" => Beaten(job.at - 1)
        /\ pc \in {"settle", "pin", "stop", "start", "verify", "confirm"} =>
              /\ job.at >= 2 /\ job.target = ranked[job.at - 1].host
              /\ Beaten(job.at - 2)

\* A switch to a server the operator chose tries no other.
HostIsFixed == pc = "next" => job.kind # "host"

BInv == Inv /\ RoundHasJob /\ UpdaterWaits /\ KnownIsList /\ Passed /\ HostIsFixed

LEMMA BInitInv == Init => BInv
<1> SUFFICES ASSUME Init PROVE BInv
  OBVIOUS
<1>1. PICK l \in Lists, d \in Roles, p \in BOOLEAN :
         gl = [status |-> "starting", sel |-> BootSelection, list |-> l, on |-> None,
               late |-> None, updating |-> FALSE, proton |-> p, denied |-> d]
  BY DEF Init
<1>2. KnownIsList
  BY <1>1 DEF Init, KnownIsList
<1>3. RoundHasJob /\ UpdaterWaits /\ Passed /\ HostIsFixed
  BY DEF Init, RoundHasJob, UpdaterWaits, BetweenRounds, Passed, HostIsFixed, NoJob
<1> QED
  BY InitInv, <1>2, <1>3 DEF BInv

\* The list changes during a refresh and at no other time.
LEMMA ListStays ==
    ASSUME ListIsOurs, BInv, Next, pc # "await"
    PROVE  gl'.list = gl.list /\ (gl'.updating => pc' = "await")
<1>1. gl \in Gluetuns /\ ~gl.updating
  BY DEF BInv, Inv, TypeOK, KnownIsList
<1>2. ~GluetunRestart /\ ~UpdaterFinish
  BY <1>1 DEF GluetunRestart, Fault, ListIsOurs, UpdaterFinish
<1>3. CASE UNCHANGED gl
  BY <1>1, <1>3
<1>4. CASE \/ \E x \in {job.target, "stop", "start"} : gl' = [gl EXCEPT !.late = x]
           \/ gl' \in {Selected(gl, job.target), Stopped(gl), Started(gl)}
  BY <1>1, <1>4 DEF Gluetuns, Selected, Stopped, Started
<1>5. CASE RefreshTrigger /\ gl' = [gl EXCEPT !.updating = TRUE]
  <2>1. pc' = "await"
    <3>1. "updater" \notin gl.denied /\ ~Fault("updater")
      BY <1>1 DEF Gluetuns, ListIsOurs, Fault
    <3> QED
      BY <1>5, <3>1 DEF RefreshTrigger
  <2> QED
    BY <1>1, <1>5, <2>1 DEF Gluetuns
<1>6. CASE Connect \/ Recover \/ Drop
  BY <1>1, <1>6 DEF Connect, Recover, Drop, Gluetuns
<1>7. CASE LateEffect \/ Outside
  BY <1>1, <1>7 DEF LateEffect, Outside, Gluetuns, Selected, Stopped, Started
<1> QED
  BY Mutations, <1>2, <1>3, <1>4, <1>5, <1>6, <1>7 DEF Gluetun

\* No refresh fails, and no route is refused.
LEMMA Refreshes ==
    ASSUME ListIsOurs, Inv
    PROVE  /\ gl.denied = {}
           /\ RefreshTrigger => pc' = "await" /\ UNCHANGED <<job, needsRestart>>
           /\ RefreshWait => ~gl.updating /\ known' = {} /\ Refreshed(TRUE) /\ UNCHANGED gl
<1>1. gl.denied = {}
  BY DEF Inv, TypeOK, Gluetuns, ListIsOurs
<1>2. ~Fault("updater") /\ "slow" \notin FaultKinds
  BY DEF Fault, ListIsOurs
<1> QED
  BY <1>1, <1>2 DEF RefreshTrigger, RefreshWait

LEMMA NextKnown == ListIsOurs /\ BInv /\ Next => KnownIsList'
<1> SUFFICES ASSUME ListIsOurs, BInv, Next, pc' # "await"
             PROVE  ~gl'.updating /\ known' \in {{}, gl'.list}
  BY DEF KnownIsList
<1>1. Inv /\ KnownIsList /\ ~EngineRestart
  BY DEF BInv, EngineRestart, Fault, ListIsOurs
<1>2. CASE pc = "await"
  <2>1. CASE RefreshWait
    BY <1>1, <2>1, Refreshes
  <2>2. CASE ~RefreshWait
    <3>1. ~RefreshTrigger
      BY <1>2 DEF RefreshTrigger
    <3> QED
      BY <1>1, <1>2, <2>2, <3>1, QuietWhileRefreshing
  <2> QED
    BY <2>1, <2>2
<1>3. CASE pc # "await"
  <2>1. gl'.list = gl.list /\ ~gl'.updating
    BY <1>3, ListStays
  <2>2. known \in {{}, gl.list}
    BY <1>1, <1>3 DEF KnownIsList
  <2>3. known' \in {known, {}, gl.list}
    <3>1. CASE Engine
      BY <3>1, <1>3 DEF Engine, CheckStatus, CheckSettings, Evaluate, TryNext, Settle, Pin, Learned,
                    ReconnectStop, ReconnectStart, VerifyStatus, VerifySettings, Succeeded,
                    RefreshTrigger, RefreshWait
    <3>2. CASE HealthTick \/ EvaluateTick \/ Commands
      BY <3>2 DEF HealthTick, EvaluateTick, Commands, CheckStatus, Evaluate, SwitchTo,
                    SetTunnelStatus, RunUpdater, SetAuto
    <3>3. CASE Gluetun \/ Faulty \/ Tick \/ \E r \in Rankings : Rerank(r)
      BY <1>1, <3>3 DEF Gluetun, Faulty, Connect, Recover, LateEffect, UpdaterFinish, Drop,
                    GluetunRestart, Outside, Tick, Rerank, engineVars
    <3> QED
      BY <3>1, <3>2, <3>3 DEF Next
  <2> QED
    BY <2>1, <2>2, <2>3
<1> QED
  BY <1>2, <1>3

LEMMA NextPassed == ListIsOurs /\ BInv /\ Next => Passed'
<1> DEFINE Busy == {"settle", "pin", "stop", "start", "verify", "confirm"}
<1> SUFFICES ASSUME ListIsOurs, BInv, Next, job'.kind \in {"auto", "best"}
             PROVE  /\ pc' = "next" => Beaten(job.at - 1)'
                    /\ pc' \in Busy =>
                          /\ job'.at >= 2 /\ job'.target = ranked'[job'.at - 1].host
                          /\ Beaten(job.at - 2)'
  BY DEF Passed
<1>1. Inv /\ Passed /\ KnownIsList /\ RoundHasJob /\ job \in Jobs /\ gl.denied = {} /\ ~EngineRestart
  BY Refreshes DEF BInv, Inv, TypeOK, EngineRestart, Fault, ListIsOurs
<1>2. pc # "await" => gl'.list = gl.list
  BY ListStays
<1>3. CASE UNCHANGED <<job, ranked>> /\ \/ pc' = pc
                                        \/ pc \in Busy /\ pc' \in Busy
  BY <1>1, <1>2, <1>3 DEF Passed, Beaten
<1>4. CASE pc' \notin Busy \cup {"next"}
  BY <1>4
<1>5. CASE job'.at = 1 /\ pc' = "next"
  BY <1>5 DEF Beaten
<1>6. CASE TryNext
  <2>1. pc = "next" /\ UNCHANGED ranked /\ job.at \in Nat \ {0}
    BY <1>1, <1>6 DEF TryNext, Jobs
  <2>2. CASE job.at <= TopN
    <3> DEFINE h == ranked[job.at].host
    <3>1. job'.at = job.at + 1 /\ job'.prev = job.prev /\ job'.kind = job.kind
      BY <1>1, <1>6, <2>2 DEF TryNext, Jobs
    <3>2. \/ pc' = "next" /\ h = job.prev
          \/ pc' = "next" /\ ~MightKnow(h)
          \/ pc' = "settle" /\ job'.target = h
      BY <1>1, <1>6, <2>2 DEF TryNext, Jobs
    <3>3. Beaten(job.at - 1) /\ gl'.list = gl.list
      BY <1>1, <1>2, <2>1, <3>1 DEF Passed
    <3>4. ~MightKnow(h) => h \notin gl.list
      BY <1>1, <2>1 DEF MightKnow, KnownIsList
    <3>5. pc' = "next" => \A i \in 1..job.at : ranked[i].host = job.prev \/ ranked[i].host \notin gl.list
      BY <2>1, <3>2, <3>3, <3>4 DEF Beaten
    <3>6. job'.at - 1 = job.at /\ job'.at - 2 = job.at - 1 /\ job'.at >= 2
      BY <2>1, <3>1
    <3> QED
      BY <2>1, <3>1, <3>2, <3>3, <3>5, <3>6 DEF Beaten
  <2>3. CASE ~(job.at <= TopN)
    BY <1>4, <1>6, <2>3 DEF TryNext, EndRound
  <2> QED
    BY <2>2, <2>3
<1>7. CASE Settle \/ ReconnectStop \/ ReconnectStart \/ VerifyStatus \/ VerifySettings
  <2>1. pc \in Busy /\ UNCHANGED ranked
    BY <1>7 DEF Settle, ReconnectStop, ReconnectStart, VerifyStatus, VerifySettings
  <2>2. \/ EndRound \/ AfterRound \/ Failed \/ TimedOut
        \/ UNCHANGED job /\ pc' \in Busy
    BY <1>1, <1>7 DEF Settle, ReconnectStop, ReconnectStart, VerifyStatus, VerifySettings, Unconfirmed,
                      Succeeded
  <2>3. job.kind # "none"
    BY <1>1, <2>1 DEF RoundHasJob, BetweenRounds
  <2> QED
    BY <1>1, <1>3, <1>4, <2>1, <2>2, <2>3, Endings
<1>8. CASE Pin
  <2>1. pc = "pin" /\ UNCHANGED ranked /\ job.kind # "none"
    BY <1>1, <1>8 DEF Pin, RoundHasJob, BetweenRounds
  <2>2. \/ Failed \/ TimedOut
        \/ UNCHANGED job /\ pc' \in Busy
        \/ Rejected /\ job.target \notin gl.list
    BY <1>1, <1>8 DEF Pin
  <2>3. CASE Rejected /\ job.target \notin gl.list
    <3>1. CASE job.kind = "host"
      BY <1>4, <2>3, <3>1 DEF Rejected, EndRound
    <3>2. CASE job.kind # "host"
      <4>1. /\ pc' = "next" /\ job'.at = job.at /\ job'.prev = job.prev /\ job'.kind = job.kind
            /\ gl'.list = gl.list
        BY <1>1, <1>2, <2>1, <2>3, <3>2 DEF Rejected, Jobs
      <4>2. /\ job.at >= 2 /\ job.target = ranked[job.at - 1].host /\ Beaten(job.at - 2)
            /\ job.at \in Nat
        BY <1>1, <2>1, <4>1 DEF Passed, Jobs
      <4>3. \A i \in 1..(job.at - 1) : i \in 1..(job.at - 2) \/ i = job.at - 1
        BY <4>2
      <4> QED
        BY <2>1, <2>3, <4>1, <4>2, <4>3 DEF Beaten
    <3> QED
      BY <3>1, <3>2
  <2> QED
    BY <1>1, <1>3, <1>4, <2>1, <2>2, <2>3, Endings
<1>9. CASE RefreshTrigger \/ RefreshWait
  BY <1>1, <1>4, <1>5, <1>9, Refreshes DEF Refreshed, EndRound, Jobs
<1>10. CASE CheckStatus \/ CheckSettings
  BY <1>4, <1>10 DEF CheckStatus, CheckSettings
<1>11. ASSUME NEW kind \in {"auto", "best"}, Evaluate(kind)
       PROVE  pc' = "idle" \/ (pc' = "next" /\ job'.at = 1)
  BY <1>11 DEF Evaluate, BeginRound, NoJob
<1>12. CASE \/ \E h \in Servers : SwitchTo(h)
            \/ \E s \in {"stopped", "running"} : SetTunnelStatus(s)
            \/ RunUpdater
  <2>1. ~\E h \in Servers : SwitchTo(h)
    BY DEF SwitchTo, NoJob
  <2> QED
    BY <1>4, <1>12, <2>1 DEF SetTunnelStatus, RunUpdater
<1>13. CASE \E r \in Rankings : Rerank(r)
  BY <1>4, <1>13 DEF Rerank
<1>14. CASE Gluetun \/ Drop \/ GluetunRestart \/ Outside \/ Tick \/ \E b \in BOOLEAN : SetAuto(b)
  BY <1>3, <1>14 DEF Gluetun, Connect, Recover, LateEffect, UpdaterFinish, Drop, GluetunRestart,
                     Outside, Tick, SetAuto, engineVars
<1> QED
  BY <1>1, <1>4, <1>5, <1>6, <1>7, <1>8, <1>9, <1>10, <1>11, <1>12, <1>13, <1>14
     DEF Next, Engine, HealthTick, EvaluateTick, Commands, Faulty

LEMMA NextHost ==
    ASSUME Inv, HostIsFixed, Next
    PROVE  HostIsFixed'
<1> SUFFICES ASSUME pc' = "next" PROVE job'.kind # "host"
  BY DEF HostIsFixed
<1>1. HostIsFixed /\ job \in Jobs
  BY DEF Inv, TypeOK
<1>2. CASE UNCHANGED <<pc, job>>
  BY <1>1, <1>2 DEF HostIsFixed
<1>3. CASE TryNext
  BY <1>1, <1>3 DEF TryNext, EndRound, HostIsFixed, Jobs
<1>4. CASE Pin \/ ReconnectStop
  <2>1. Rejected
    BY <1>4 DEF Pin, ReconnectStop, Failed, TimedOut, EndRound, AfterRound
  <2> QED
    BY <1>1, <2>1 DEF Rejected, EndRound, Jobs
<1>5. CASE RefreshTrigger \/ RefreshWait
  BY <1>1, <1>5 DEF RefreshTrigger, RefreshWait, Refreshed, EndRound, Jobs
<1>6. ASSUME NEW kind \in {"auto", "best"}, Evaluate(kind)
      PROVE  job'.kind = kind
  BY <1>6 DEF Evaluate, BeginRound, NoJob
<1>7. ~(Settle \/ ReconnectStart \/ VerifyStatus \/ VerifySettings)
  BY DEF Settle, ReconnectStart, VerifyStatus, VerifySettings, Unconfirmed, Succeeded, Failed, TimedOut,
         EndRound, AfterRound
<1>8. ~(\/ CheckStatus \/ CheckSettings \/ RunUpdater \/ EngineRestart
        \/ (\E h \in Servers : SwitchTo(h))
        \/ \E s \in {"stopped", "running"} : SetTunnelStatus(s))
  BY DEF CheckStatus, CheckSettings, RunUpdater, EngineRestart, SwitchTo, SetTunnelStatus
<1>9. CASE \/ Gluetun \/ Drop \/ GluetunRestart \/ Outside \/ Tick
           \/ (\E b \in BOOLEAN : SetAuto(b)) \/ (\E r \in Rankings : Rerank(r))
  BY <1>2, <1>9 DEF Gluetun, Connect, Recover, LateEffect, UpdaterFinish, Drop, GluetunRestart,
                    Outside, Tick, SetAuto, Rerank, engineVars
<1> QED
  BY <1>3, <1>4, <1>5, <1>6, <1>7, <1>8, <1>9
     DEF Next, Engine, HealthTick, EvaluateTick, Commands, Faulty

LEMMA BInvariance == ListIsOurs => (Spec => []BInv)
<1> SUFFICES ASSUME ListIsOurs PROVE Spec => []BInv
  OBVIOUS
<1>1. BInv /\ [Next]_vars => BInv'
  <2> SUFFICES ASSUME BInv, [Next]_vars PROVE BInv'
    OBVIOUS
  <2>1. Inv'
    BY NextTypes, NextTarget, NextFloor DEF Inv, BInv
  <2>2. CASE Next
    BY <2>1, <2>2, Course, NextUpdater, NextKnown, NextPassed, NextHost
       DEF BInv, RoundHasJob, BetweenRounds, NoJob
  <2>3. CASE UNCHANGED vars
    BY <2>1, <2>3 DEF vars, BInv, RoundHasJob, UpdaterWaits, KnownIsList, Passed, Beaten, HostIsFixed
  <2> QED
    BY <2>2, <2>3
<1> QED
  BY BInitInv, <1>1, PTL DEF Spec

\* A round that pins a server has found every better one to be the current
\* server or missing from Gluetun's list, whatever else times out, drops or is
\* late, as long as the list is replaced by our refreshes alone.
THEOREM BestOfTheList == ListIsOurs => (Spec => []LandsOnBestKnown)
<1> SUFFICES ASSUME ListIsOurs PROVE Spec => []LandsOnBestKnown
  OBVIOUS
<1>1. BInv => LandsOnBestKnown
  BY DEF BInv, Passed, Beaten, LandsOnBestKnown
<1> QED
  BY BInvariance, <1>1, PTL

\* Under the same condition the operator is asked to restart Gluetun only when
\* its list has none of the candidates.
THEOREM BannerIsDeserved == ListIsOurs => (Spec => BannerIsTrue)
<1> SUFFICES ASSUME ListIsOurs PROVE Spec => BannerIsTrue
  OBVIOUS
<1> DEFINE Deserved == IF job.kind = "host" THEN job.target \notin gl.list
                       ELSE \A i \in 1..TopN : ranked[i].host \in {job.prev} \cup (Servers \ gl.list)
<1>1. BInv /\ [Next]_vars => [~needsRestart /\ needsRestart' => Deserved]_vars
  <2> SUFFICES ASSUME BInv, Next, ~needsRestart, needsRestart' PROVE Deserved
    OBVIOUS
  <2>1. /\ Inv /\ RoundHasJob /\ UpdaterWaits /\ Passed /\ HostIsFixed /\ job \in Jobs
        /\ ranked \in Rankings /\ gl.denied = {}
    BY Refreshes DEF BInv, Inv, TypeOK
  <2>2. CASE TryNext
    <3>1. pc = "next" /\ ~(job.at <= TopN)
      BY <2>2 DEF TryNext
    <3>2. job.kind \in {"auto", "best"}
      BY <2>1, <3>1 DEF RoundHasJob, BetweenRounds, UpdaterWaits, HostIsFixed, Jobs
    <3>3. Beaten(job.at - 1)
      BY <2>1, <3>1, <3>2 DEF Passed
    <3>4. \A i \in 1..TopN : i \in 1..(job.at - 1) /\ ranked[i].host \in Servers
      <4>1. TopN \in Nat /\ TopN <= Len(ranked) /\ Len(ranked) \in Nat /\ job.at \in Nat
        BY <2>1, TopNBound DEF Jobs
      <4>2. \A i \in 1..Len(ranked) : ranked[i].host \in Servers
        BY <2>1, RankedHosts
      <4> QED
        BY <3>1, <4>1, <4>2
    <3> QED
      BY <3>2, <3>3, <3>4 DEF Beaten
  <2>3. CASE Pin
    <3>1. Rejected /\ job.target \notin gl.list
      BY <2>1, <2>3 DEF Pin, Failed, TimedOut
    <3>2. job.kind = "host"
      BY <3>1 DEF Rejected
    <3> QED
      BY <3>1, <3>2
  <2>4. ~(RefreshTrigger \/ RefreshWait)
    BY <2>1, Refreshes DEF Refreshed
  <2>5. ~(\/ CheckStatus \/ CheckSettings \/ Settle \/ ReconnectStop \/ ReconnectStart
          \/ VerifyStatus \/ VerifySettings \/ EngineRestart \/ Tick \/ RunUpdater)
    BY <2>1 DEF CheckStatus, CheckSettings, Settle, ReconnectStop, ReconnectStart, VerifyStatus,
                VerifySettings, Unconfirmed, Succeeded, Failed, TimedOut, EngineRestart, Tick, RunUpdater
  <2>6. ~(\/ (\E kind \in {"auto", "best"} : Evaluate(kind))
          \/ (\E h \in Servers : SwitchTo(h))
          \/ (\E s \in {"stopped", "running"} : SetTunnelStatus(s))
          \/ (\E b \in BOOLEAN : SetAuto(b)) \/ (\E r \in Rankings : Rerank(r)))
    BY DEF Evaluate, SwitchTo, SetTunnelStatus, SetAuto, Rerank
  <2>7. ~(Gluetun \/ Drop \/ GluetunRestart \/ Outside)
    BY DEF Gluetun, Connect, Recover, LateEffect, UpdaterFinish, Drop, GluetunRestart, Outside, engineVars
  <2> QED
    BY <2>2, <2>3, <2>4, <2>5, <2>6, <2>7 DEF Next, Engine, HealthTick, EvaluateTick, Commands, Faulty
<1> QED
  BY BInvariance, <1>1, PTL DEF Spec, BannerIsTrue

-----------------------------------------------------------------------------
(* How long the loop can be busy.                                           *)

Trying == {"next", "settle", "pin", "stop", "start", "verify", "confirm"}

\* The calls an attempt may still make, a verification counted as one.
Due(at) ==
    CASE at = "settle" -> 7 [] at = "pin" -> 6 [] at = "stop" -> 5 [] at = "start" -> 4
      [] at \in {"verify", "confirm"} -> 3 [] at = "next" -> 0

\* What a first attempt at the candidates leaves for the second, and what a
\* round can come to.
Again == 8 * TopN + 16
Whole == 16 * TopN + 28

\* A bound on the steps the loop takes before it is idle again: the candidates
\* that are left, the second attempt at all of them, and before that the check,
\* the evaluation and the updater the operator asked for.
Left ==
    CASE pc = "idle" -> 0
      [] pc = "await"   /\ job.why = "after" -> 2
      [] pc = "refresh" /\ job.why = "after" -> 3
      [] pc \in Trying ->
            8 * (TopN + 1 - job.at) + Due(pc) + 4 + (IF job.second THEN 0 ELSE Again)
      [] pc = "await"   /\ job.why = "retry" -> Again + 2
      [] pc = "refresh" /\ job.why = "retry" -> Again + 3
      [] pc = "evaluate" -> Whole
      [] pc = "settings" -> Whole + 1
      [] pc = "check"    -> Whole + 2
      [] pc = "await"   /\ job.why = "command" -> Whole + 3
      [] pc = "refresh" /\ job.why = "command" -> Whole + 4

\* A verification that is asked again; only its deadline ends these.
Polls == pc \in {"verify", "confirm"} /\ pc' \in {"verify", "confirm"} /\ Left' = Left

\* The candidates are counted, and there is one second attempt.
Paced ==
    /\ pc \in Trying => job.at <= TopN + 1
    /\ pc \in {"refresh", "await"} => job.why # "none" /\ (job.why = "retry" => ~job.second)

\* Every step of the loop ends the round, brings its end nearer, or asks for the
\* verification again; and nothing else, the restart of this process excepted,
\* keeps it busier than it was.
BusyForBounded ==
    [][/\ Engine => pc' = "idle" \/ Left' < Left \/ Polls
       /\ pc # "idle" /\ ~Engine => \/ UNCHANGED <<pc, job, ranked>>
                                    \/ pc = "evaluate" /\ UNCHANGED <<pc, job>>
                                    \/ EngineRestart]_vars

LEMMA NextMoves ==
    ASSUME job \in Jobs, TryNext
    PROVE  \/ pc' = "idle"
           \/ /\ pc' \in {"next", "settle"} /\ job.at <= TopN
              /\ job'.at = job.at + 1 /\ job'.second = job.second
           \/ pc' = "refresh" /\ job'.why = "retry" /\ ~job.second /\ ~job'.second
BY DEF TryNext, EndRound, Jobs

LEMMA AttemptMoves ==
    ASSUME job \in Jobs, Settle \/ Pin \/ ReconnectStop \/ ReconnectStart
    PROVE  \/ pc' = "idle"
           \/ /\ pc' \in Trying /\ pc \in Trying /\ Due(pc') < Due(pc)
              /\ job'.at = job.at /\ job'.second = job.second
           \/ pc' = "refresh" /\ job'.why = "after"
           \/ pc' = "refresh" /\ job'.why = "retry" /\ ~job.second /\ ~job'.second
<1>1. ASSUME Failed \/ TimedOut
      PROVE  \/ pc' = "idle"
             \/ pc' = "refresh" /\ job'.why = "after"
             \/ pc' = "verify" /\ job' = job
  BY <1>1 DEF Failed, TimedOut, AfterRound, EndRound, Jobs
<1>2. ASSUME Rejected
      PROVE  \/ pc' = "idle"
             \/ pc' = "next" /\ job'.at = job.at /\ job'.second = job.second
             \/ pc' = "refresh" /\ job'.why = "retry" /\ ~job.second /\ ~job'.second
  BY <1>2 DEF Rejected, EndRound, Jobs
<1>3. CASE Settle
  <2>1. pc = "settle" /\ (Failed \/ (pc' \in {"pin", "stop"} /\ job' = job))
    BY <1>3 DEF Settle
  <2>2. Failed => \/ pc' = "idle" \/ (pc' = "refresh" /\ job'.why = "after")
    BY DEF Failed, AfterRound, EndRound, Jobs
  <2> QED
    BY <2>1, <2>2 DEF Due, Trying
<1>4. CASE Pin
  <2>1. /\ pc = "pin"
        /\ Failed \/ TimedOut \/ Rejected \/ (pc' \in {"stop", "verify"} /\ job' = job)
    BY <1>4 DEF Pin
  <2> QED
    BY <2>1, <1>1, <1>2 DEF Due, Trying
<1>5. CASE ReconnectStop
  <2>1. pc = "stop" /\ (Failed \/ TimedOut \/ Rejected \/ (pc' = "start" /\ job' = job))
    BY <1>5 DEF ReconnectStop
  <2> QED
    BY <2>1, <1>1, <1>2 DEF Due, Trying
<1>6. CASE ReconnectStart
  <2>1. pc = "start" /\ (Failed \/ TimedOut \/ (pc' = "verify" /\ job' = job))
    BY <1>6 DEF ReconnectStart
  <2> QED
    BY <2>1, <1>1 DEF Due, Trying
<1> QED
  BY <1>3, <1>4, <1>5, <1>6

LEMMA VerifyMoves ==
    ASSUME job \in Jobs, VerifyStatus \/ VerifySettings
    PROVE  /\ pc \in {"verify", "confirm"}
           /\ \/ pc' = "idle"
              \/ pc' \in {"verify", "confirm"} /\ job' = job
              \/ pc' = "refresh" /\ job'.why = "after"
<1>1. EndRound \/ AfterRound \/ Failed => pc' = "idle" \/ (pc' = "refresh" /\ job'.why = "after")
  BY DEF Failed, AfterRound, EndRound, Jobs
<1>2. CASE VerifyStatus
  <2>1. pc = "verify" /\ (Failed \/ (pc' \in {"verify", "confirm"} /\ job' = job))
    BY <1>2 DEF VerifyStatus, Unconfirmed
  <2> QED
    BY <2>1, <1>1
<1>3. CASE VerifySettings
  <2>1. /\ pc = "confirm"
        /\ EndRound \/ AfterRound \/ Failed \/ (pc' = "verify" /\ job' = job)
    BY <1>3 DEF VerifySettings, Succeeded, Unconfirmed
  <2> QED
    BY <2>1, <1>1
<1> QED
  BY <1>2, <1>3

LEMMA RefreshMoves ==
    ASSUME job \in Jobs, RefreshTrigger \/ RefreshWait
    PROVE  /\ pc \in {"refresh", "await"}
           /\ \/ pc' = "idle"
              \/ pc = "refresh" /\ pc' = "await" /\ job' = job
              \/ job.why = "retry" /\ pc' \in {"next", "settle"} /\ job'.at = 1 /\ job'.second
              \/ job.why = "command" /\ pc' = "check"
<1>1. ASSUME NEW ok \in BOOLEAN, Refreshed(ok)
      PROVE  \/ pc' = "idle"
             \/ job.why = "retry" /\ pc' \in {"next", "settle"} /\ job'.at = 1 /\ job'.second
             \/ job.why = "command" /\ pc' = "check"
  BY <1>1 DEF Refreshed, EndRound, Jobs
<1>2. /\ pc \in {"refresh", "await"}
      /\ \/ \E ok \in BOOLEAN : Refreshed(ok)
         \/ pc = "refresh" /\ pc' = "await" /\ job' = job
  BY DEF RefreshTrigger, RefreshWait
<1> QED
  BY <1>1, <1>2

\* The ways of control through one step of the loop: through a check, to the
\* first candidate, to the next one, through the calls of an attempt, around a
\* verification, and into, through and out of a refresh.
Checks   == (pc = "check" /\ pc' = "settings") \/ (pc = "settings" /\ pc' = "evaluate")
Begins   == pc = "evaluate" /\ pc' = "next" /\ job'.at = 1 /\ ~job'.second
Turns    == /\ pc = "next" /\ pc' \in {"next", "settle"} /\ job.at <= TopN
            /\ job'.at = job.at + 1 /\ job'.second = job.second
Advances == /\ pc \in Trying /\ pc' \in Trying /\ Due(pc') < Due(pc)
            /\ job'.at = job.at /\ job'.second = job.second
AsksAgain == pc \in {"verify", "confirm"} /\ pc' \in {"verify", "confirm"} /\ job' = job
Follows  == pc \in Trying /\ pc' = "refresh" /\ job'.why = "after"
Retries  == pc \in Trying /\ pc' = "refresh" /\ job'.why = "retry" /\ ~job.second /\ ~job'.second
Awaits   == pc = "refresh" /\ pc' = "await" /\ job' = job
Resumes  == /\ pc \in {"refresh", "await"} /\ job.why = "retry"
            /\ pc' \in {"next", "settle"} /\ job'.at = 1 /\ job'.second
Reports  == pc \in {"refresh", "await"} /\ job.why = "command" /\ pc' = "check"

LEMMA EngineMoves ==
    ASSUME job \in Jobs, Engine
    PROVE  /\ ranked' = ranked
           /\ \/ pc' = "idle" \/ Checks \/ Begins \/ Turns \/ Advances \/ AsksAgain
              \/ Follows \/ Retries \/ Awaits \/ Resumes \/ Reports
<1> USE DEF Checks, Begins, Turns, Advances, AsksAgain, Follows, Retries, Awaits, Resumes, Reports
<1>1. CASE pc # "idle" /\ CheckStatus
  BY <1>1 DEF CheckStatus
<1>2. CASE CheckSettings
  BY <1>2 DEF CheckSettings
<1>3. CASE pc = "evaluate" /\ Evaluate("auto")
  BY <1>3 DEF Evaluate, BeginRound, NoJob
<1>4. CASE TryNext
  <2>1. pc = "next" /\ ranked' = ranked
    BY <1>4 DEF TryNext
  <2> QED
    BY <1>4, <2>1, NextMoves DEF Trying
<1>5. CASE Settle \/ Pin \/ ReconnectStop \/ ReconnectStart
  <2>1. pc \in Trying /\ ranked' = ranked
    BY <1>5 DEF Settle, Pin, ReconnectStop, ReconnectStart, Trying
  <2> QED
    BY <1>5, <2>1, AttemptMoves
<1>6. CASE VerifyStatus \/ VerifySettings
  <2>1. ranked' = ranked
    BY <1>6 DEF VerifyStatus, VerifySettings
  <2> QED
    BY <1>6, <2>1, VerifyMoves DEF Trying
<1>7. CASE RefreshTrigger \/ RefreshWait
  <2>1. ranked' = ranked
    BY <1>7 DEF RefreshTrigger, RefreshWait
  <2> QED
    BY <1>7, <2>1, RefreshMoves
<1> QED
  BY <1>1, <1>2, <1>3, <1>4, <1>5, <1>6, <1>7 DEF Engine

LEMMA EnginePaced ==
    ASSUME TypeOK, Paced, Engine
    PROVE  Paced' /\ (pc' = "idle" \/ Left' < Left \/ Polls)
<1>1. TopN \in Nat /\ job \in Jobs /\ ranked' = ranked
  BY TopNBound, EngineMoves DEF TypeOK
<1>2. TopN' = TopN /\ Again' = Again /\ Whole' = Whole /\ Again = 8 * TopN + 16 /\ Whole = 16 * TopN + 28
  BY <1>1 DEF TopN, Again, Whole
<1>3. job.at \in Nat /\ job.at > 0 /\ job.second \in BOOLEAN
  BY <1>1 DEF Jobs
<1>4. \A at \in Trying : Due(at) \in 0..7
  BY DEF Trying, Due
<1>5. /\ pc \in Trying => Left = 8 * (TopN + 1 - job.at) + Due(pc) + 4 + (IF job.second THEN 0 ELSE Again)
      /\ pc' \in Trying =>
             Left' = 8 * (TopN + 1 - job'.at) + Due(pc') + 4 + (IF job'.second THEN 0 ELSE Again)
  BY <1>2 DEF Left, Trying
<1>6. CASE pc' = "idle"
  BY <1>6 DEF Paced, Trying
<1>7. CASE Checks
  BY <1>7, <1>1, <1>2 DEF Checks, Paced, Trying, Left
<1>8. CASE Begins
  <2>1. Left = Whole /\ Left' = 8 * TopN + 4 + Again
    BY <1>1, <1>5, <1>8 DEF Begins, Left, Trying, Due
  <2> QED
    BY <2>1, <1>1, <1>2, <1>8 DEF Begins, Paced
<1>9. CASE Turns
  <2>1. Due(pc) = 0 /\ Due(pc') \in 0..7 /\ pc \in Trying /\ pc' \in Trying
    BY <1>4, <1>9 DEF Turns, Trying, Due
  <2>2. Left' < Left
    BY <2>1, <1>1, <1>2, <1>3, <1>5, <1>9 DEF Turns
  <2> QED
    BY <2>2, <1>1, <1>2, <1>3, <1>9 DEF Turns, Paced
<1>10. CASE Advances
  <2>1. Left' < Left
    BY <1>1, <1>2, <1>3, <1>4, <1>5, <1>10 DEF Advances
  <2> QED
    BY <2>1, <1>2, <1>10 DEF Advances, Paced, Trying
<1>11. CASE AsksAgain
  <2>1. Due(pc) = 3 /\ Due(pc') = 3 /\ pc \in Trying /\ pc' \in Trying
    BY <1>11 DEF AsksAgain, Due, Trying
  <2>2. Left' = Left
    BY <2>1, <1>5, <1>11 DEF AsksAgain
  <2> QED
    BY <2>1, <2>2, <1>2, <1>11 DEF AsksAgain, Paced, Polls, Trying
<1>12. CASE Follows
  <2>1. Left' = 3
    BY <1>12 DEF Follows, Left, Trying
  <2>2. job.at <= TopN + 1
    BY <1>12 DEF Follows, Paced
  <2>3. Left >= 4
    BY <2>2, <1>1, <1>2, <1>3, <1>4, <1>5, <1>12 DEF Follows
  <2> QED
    BY <2>1, <2>3, <1>1, <1>2, <1>5, <1>12, <1>3, <1>4 DEF Follows, Paced, Trying
<1>13. CASE Retries
  <2>1. Left' = Again + 3
    BY <1>2, <1>13 DEF Retries, Left, Trying
  <2>2. job.at <= TopN + 1
    BY <1>13 DEF Retries, Paced
  <2>3. Left >= 4 + Again
    BY <2>2, <1>1, <1>2, <1>3, <1>4, <1>5, <1>13 DEF Retries
  <2>4. Left \in Int
    BY <1>1, <1>2, <1>3, <1>4, <1>5, <1>13 DEF Retries
  <2> QED
    BY <2>1, <2>3, <2>4, <1>1, <1>2, <1>13 DEF Retries, Paced, Trying
<1>14. CASE Awaits
  <2>1. job.why \in {"retry", "after", "command"} /\ (job.why = "retry" => ~job.second)
    BY <1>1, <1>14 DEF Awaits, Paced, Jobs
  <2> QED
    BY <2>1, <1>1, <1>2, <1>14 DEF Awaits, Paced, Trying, Left
<1>15. CASE Resumes
  <2>1. Due(pc') \in 0..7 /\ pc' \in Trying
    BY <1>15, <1>4 DEF Resumes, Trying
  <2>2. Left' = 8 * TopN + Due(pc') + 4
    BY <2>1, <1>1, <1>2, <1>5, <1>15 DEF Resumes
  <2>3. Left \in {Again + 2, Again + 3}
    BY <1>15 DEF Resumes, Left, Trying
  <2> QED
    BY <2>1, <2>2, <2>3, <1>1, <1>2, <1>15 DEF Resumes, Paced
<1>16. CASE Reports
  <2>1. Left \in {Whole + 3, Whole + 4} /\ Left' = Whole + 2
    BY <1>2, <1>16 DEF Reports, Left, Trying
  <2> QED
    BY <2>1, <1>1, <1>2, <1>16 DEF Reports, Paced, Trying
<1> QED
  BY <1>1, EngineMoves, <1>6, <1>7, <1>8, <1>9, <1>10, <1>11, <1>12, <1>13, <1>14, <1>15, <1>16

\* What is no step of the loop: outside of a round it may begin one.
LEMMA OthersWait ==
    ASSUME Next, ~Engine, pc # "idle"
    PROVE  \/ UNCHANGED <<pc, job, ranked>>
           \/ pc = "evaluate" /\ UNCHANGED <<pc, job>>
           \/ EngineRestart
<1>1. ~(HealthTick \/ EvaluateTick \/ (\E h \in Servers : SwitchTo(h)) \/ RunUpdater
        \/ (\E s \in {"stopped", "running"} : SetTunnelStatus(s)) \/ \E b \in BOOLEAN : SetAuto(b))
  BY DEF HealthTick, EvaluateTick, SwitchTo, RunUpdater, SetTunnelStatus, SetAuto
<1>2. ~Evaluate("best")
  BY DEF Evaluate
<1>3. CASE Gluetun \/ Drop \/ GluetunRestart \/ Outside \/ Tick
  BY <1>3 DEF Gluetun, Connect, Recover, LateEffect, UpdaterFinish, Drop, GluetunRestart,
              Outside, Tick, engineVars, gluetunVars
<1>4. CASE \E r \in Rankings : Rerank(r)
  BY <1>4 DEF Rerank
<1> QED
  BY <1>1, <1>2, <1>3, <1>4 DEF Next, Commands, Faulty

\* A round that begins, by command or by ticker, begins with the first candidate.
LEMMA OthersPaced ==
    ASSUME TypeOK, Paced, [Next]_vars, ~Engine
    PROVE  Paced'
<1>1. ASSUME UNCHANGED <<pc, job, ranked>> PROVE Paced'
  <2>1. TopN' = TopN
    BY <1>1 DEF TopN
  <2> QED
    BY <1>1, <2>1 DEF Paced
<1>2. ASSUME pc' \in {"idle", "check", "settings", "evaluate"} PROVE Paced'
  BY <1>2 DEF Paced, Trying
<1>3. ASSUME ranked' = ranked, pc' \in {"next", "settle"}, job'.at = 1 PROVE Paced'
  <2>1. TopN' = TopN /\ TopN \in Nat
    BY <1>3, TopNBound DEF TopN, TypeOK
  <2> QED
    BY <1>3, <2>1 DEF Paced
<1>4. CASE HealthTick
  BY <1>2, <1>4 DEF HealthTick, CheckStatus
<1>5. CASE EvaluateTick \/ Evaluate("best")
  <2>1. ranked' = ranked /\ (pc' = "idle" \/ (pc' = "next" /\ job'.at = 1))
    BY <1>5 DEF EvaluateTick, Evaluate, BeginRound, NoJob
  <2> QED
    BY <2>1, <1>2, <1>3
<1>6. CASE \E h \in Servers : SwitchTo(h)
  <2>1. ranked' = ranked /\ pc' = "settle" /\ job'.at = 1
    BY <1>6 DEF SwitchTo, NoJob
  <2> QED
    BY <2>1, <1>3
<1>7. CASE \E s \in {"stopped", "running"} : SetTunnelStatus(s)
  BY <1>2, <1>7 DEF SetTunnelStatus
<1>8. CASE RunUpdater
  <2>1. pc' = "check" \/ (pc' = "refresh" /\ job'.why = "command")
    BY <1>8 DEF RunUpdater, NoJob
  <2> QED
    BY <2>1, <1>2 DEF Paced, Trying
<1>9. CASE (\E b \in BOOLEAN : SetAuto(b)) \/ Gluetun \/ Drop \/ GluetunRestart \/ Outside \/ Tick
            \/ UNCHANGED vars
  BY <1>1, <1>9 DEF SetAuto, Gluetun, Connect, Recover, LateEffect, UpdaterFinish, Drop,
                    GluetunRestart, Outside, Tick, engineVars, gluetunVars, vars
<1>10. CASE (\E r \in Rankings : Rerank(r)) \/ EngineRestart
  BY <1>2, <1>10 DEF Rerank, EngineRestart
<1> QED
  BY <1>4, <1>5, <1>6, <1>7, <1>8, <1>9, <1>10 DEF Next, Commands, Faulty

LEMMA NextPaced == Inv /\ Paced /\ [Next]_vars => Paced'
BY EnginePaced, OthersPaced DEF Inv

\* Behind "every round ends": whatever Gluetun answers, refuses or withholds, each
\* step of the loop takes it nearer to being idle, a repeated verification
\* excepted; what fairness adds is that these steps come.
THEOREM RoundsShrink == Spec => BusyForBounded
<1>1. Init => Paced
  BY DEF Init, Paced, Trying
<1>2. Inv /\ Paced /\ [Next]_vars =>
          [/\ Engine => pc' = "idle" \/ Left' < Left \/ Polls
           /\ pc # "idle" /\ ~Engine => \/ UNCHANGED <<pc, job, ranked>>
                                        \/ pc = "evaluate" /\ UNCHANGED <<pc, job>>
                                        \/ EngineRestart]_vars
  BY EnginePaced, OthersWait DEF Inv
<1> QED
  BY Invariance, NextPaced, <1>1, <1>2, PTL DEF Spec, BusyForBounded

\* The bound in figures: a loop that is busy has at most sixteen steps for each
\* candidate before it, and thirty-two more, however long the catalogue is.
THEOREM RoundsAreShort == Spec => [](Left \in 0..(16 * TopN + 32))
<1>1. Init => Paced
  BY DEF Init, Paced, Trying
<1>2. Inv /\ Paced => Left \in 0..(16 * TopN + 32)
  <2> SUFFICES ASSUME TypeOK, Paced PROVE Left \in 0..(16 * TopN + 32)
    BY DEF Inv
  <2>1. TopN \in Nat /\ job \in Jobs /\ job.at \in Nat /\ job.at > 0 /\ job.second \in BOOLEAN
    <3>1. TopN \in Nat /\ job \in Jobs
      BY TopNBound DEF TypeOK
    <3> QED
      BY <3>1 DEF Jobs
  <2>2. Again = 8 * TopN + 16 /\ Whole = 16 * TopN + 28
    BY DEF Again, Whole
  <2>3. CASE pc \in Trying
    <3>1. Left = 8 * (TopN + 1 - job.at) + Due(pc) + 4 + (IF job.second THEN 0 ELSE Again)
      BY <2>3 DEF Left, Trying
    <3>2. Due(pc) \in 0..7 /\ job.at <= TopN + 1
      BY <2>3 DEF Due, Trying, Paced
    <3> QED
      BY <2>1, <2>2, <3>1, <3>2
  <2>4. CASE pc \notin Trying
    <3>1. pc \in {"idle", "check", "settings", "evaluate", "refresh", "await"}
      BY <2>4 DEF TypeOK, PCs, Trying
    <3>2. pc \in {"refresh", "await"} => job.why \in {"retry", "after", "command"}
      BY <2>1 DEF Paced, Jobs
    <3>3. Left \in {0, 2, 3, Again + 2, Again + 3, Whole, Whole + 1, Whole + 2, Whole + 3, Whole + 4}
      BY <3>1, <3>2, <2>4 DEF Left
    <3> HIDE DEF Left
    <3> QED
      BY <3>3, <2>1, <2>2
  <2> QED
    BY <2>3, <2>4
<1> QED
  BY Invariance, NextPaced, <1>1, <1>2, PTL DEF Spec
=============================================================================
