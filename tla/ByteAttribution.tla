--------------------------- MODULE ByteAttribution ---------------------------
(***************************************************************************)
(* Which server gets the credit for what qBittorrent moved: recordTransfer *)
(* and transferredSince, with everything that moves the tunnel between two *)
(* polls.  qBittorrent reports session totals, so bytes are attributed by  *)
(* difference to the server the program believes the tunnel is on.         *)
(*                                                                         *)
(* One tick of the poll timer is QBITTORRENT_INTERVAL, which is also how   *)
(* long a fresh switch settles: the first scheduled poll after a switch    *)
(* comes too early, the next one does not.                                 *)
(***************************************************************************)
EXTENDS Integers, FiniteSets, Functions

CONSTANTS
    Servers,
    None,        \* no server: "" in the code
    MaxBytes,    \* BOUND on what is moved in a behaviour
    MaxMoves,    \* BOUND on the moves of the tunnel
    FaultMixes,  \* which of "switchTo", "late", "moves", "unanswered", "busyLoop", "dips",
                 \* "qbRestart", "restart" and "down" happen together in a behaviour
    MaxFaults    \* BOUND on how many of these happen

ASSUME ByteAttributionAssumption ==
    /\ None \notin Servers /\ Servers # {} /\ IsFiniteSet(Servers)
    /\ MaxBytes \in Nat /\ MaxMoves \in Nat /\ MaxFaults \in Nat

VARIABLES
    tunnel,     \* the server that carries the traffic
    up,         \* whether the tunnel is up
    counter,    \* qBittorrent's session total
    shown,      \* what currentHostname answers: selection, exit or remembered
    shownUp,    \* whether the snapshot says running
    pinned,     \* persisted: PinnedHostname
    settled,    \* a poll interval has passed since LastSwitchAt
    base,       \* e.transferBaselineHost and the total it was taken at
    credited,   \* persisted: DownloadedBytes of each server
    visits,     \* persisted: Visits of each server
    measuring,  \* persisted: MeasuringHost
    carried,    \* history: what each server really carried
    stays,      \* history: how often the tunnel came to each server
    moves,
    faults      \* the kinds of fault that happen, and how many are left

world   == <<tunnel, up, counter, carried, stays, moves>>
view    == <<shown, shownUp, pinned, settled>>
records == <<base, credited, visits, measuring>>
vars    == <<world, view, records, faults>>

NoBase == [host |-> None, bytes |-> 0]

Fault(kind) ==
    kind \in faults.kinds /\ faults.left > 0 /\ faults' = [faults EXCEPT !.left = @ - 1]

Init ==
    /\ tunnel \in Servers /\ up = TRUE /\ counter = 0
    /\ shown = tunnel /\ shownUp = TRUE /\ pinned = tunnel /\ settled = TRUE
    /\ base = NoBase /\ measuring = None
    /\ credited = [h \in Servers |-> 0] /\ visits = [h \in Servers |-> 0]
    /\ carried = [h \in Servers |-> 0]
    /\ stays = [h \in Servers |-> IF h = tunnel THEN 1 ELSE 0]
    /\ moves = 0 /\ \E mix \in FaultMixes : faults = [kinds |-> mix, left |-> MaxFaults]

-----------------------------------------------------------------------------
(* The world                                                                *)

Traffic ==
    /\ up /\ carried[tunnel] < MaxBytes
    /\ counter' = counter + 1
    /\ carried' = [carried EXCEPT ![tunnel] = @ + 1]
    /\ UNCHANGED <<tunnel, up, stays, moves, faults>> /\ UNCHANGED view /\ UNCHANGED records

Arrives(h) ==
    /\ h # tunnel /\ moves < MaxMoves /\ moves' = moves + 1
    /\ tunnel' = h /\ up' = TRUE
    /\ stays' = [stays EXCEPT ![h] = @ + 1]
    /\ UNCHANGED <<counter, carried>>

\* Gluetun restarts or reconnects on its own, to a server of its choosing.
GluetunMoves ==
    /\ Fault("moves") /\ \E h \in Servers : Arrives(h)
    /\ UNCHANGED view /\ UNCHANGED records

TunnelDrops ==
    /\ Fault("down") /\ up' = FALSE
    /\ UNCHANGED <<tunnel, counter, carried, stays, moves>> /\ UNCHANGED view /\ UNCHANGED records

TunnelReturns ==
    /\ ~up /\ up' = TRUE
    /\ UNCHANGED <<tunnel, counter, carried, stays, moves, faults>>
    /\ UNCHANGED view /\ UNCHANGED records

QbittorrentRestarts ==
    /\ Fault("qbRestart") /\ counter' = 0
    /\ UNCHANGED <<tunnel, up, carried, stays, moves>> /\ UNCHANGED view /\ UNCHANGED records

-----------------------------------------------------------------------------
(* The run loop, outside the polls                                          *)

\* tryCandidates: the tunnel verified on h, which the snapshot then names.
Round ==
    /\ \E h \in Servers : Arrives(h) /\ pinned' = h /\ shown' = h
    /\ settled' = FALSE
    /\ UNCHANGED <<shownUp, faults>> /\ UNCHANGED records

\* tryCandidates: h was applied but the tunnel came up after the timeout.
RoundTimesOut ==
    /\ Fault("late")
    /\ \E h \in Servers : Arrives(h) /\ pinned' = h
    /\ UNCHANGED <<shown, shownUp, settled>> /\ UNCHANGED records

\* switchTo: the tunnel verified on h, of which the snapshot only gets the exit.
SwitchTo ==
    /\ Fault("switchTo")
    /\ \E h \in Servers : Arrives(h) /\ pinned' = h
    /\ settled' = FALSE
    /\ UNCHANGED <<shown, shownUp>> /\ UNCHANGED records

\* checkGluetun: readable settings name the pinned server or disprove it
\* (verifyGluetunPin); unreadable ones leave the selection as it was.
HealthCheck ==
    /\ shownUp' = up
    /\ \/ pinned = tunnel /\ shown' = tunnel /\ UNCHANGED pinned
       \/ pinned # tunnel /\ shown' \in {tunnel, None} /\ pinned' = None
       \/ UNCHANGED <<shown, pinned>>
    /\ UNCHANGED <<settled, faults>> /\ UNCHANGED world /\ UNCHANGED records

\* New: the baseline and the snapshot are not persisted; until the first
\* check the remembered server is the current one.
Restart ==
    /\ Fault("restart")
    /\ base' = NoBase /\ shown' = pinned /\ shownUp' = TRUE
    /\ UNCHANGED <<pinned, settled, credited, visits, measuring>> /\ UNCHANGED world

\* The loop is held up for an interval, so that a poll is skipped.
LoopBusy ==
    /\ Fault("busyLoop") /\ settled' = TRUE
    /\ UNCHANGED <<shown, shownUp, pinned>> /\ UNCHANGED world /\ UNCHANGED records

-----------------------------------------------------------------------------
(* recordTransfer                                                           *)

\* Faulty variant: a reading right after a switch counts like any other.
AttributableAtOnce == shown # None /\ shownUp

\* A server is known, the tunnel is up, and a switch of ours has settled.
Attributable == shown # None /\ shownUp /\ (shown = pinned => settled)

\* transferredSince: nothing without a baseline of this server, and nothing
\* when the counter went backwards.
Since == IF base.host = shown /\ counter >= base.bytes THEN counter - base.bytes ELSE 0

\* Faulty variant: what tells a stay from the next one is held in memory only.
NewStayInMemory == shown # base.host

NewStay == shown # measuring

\* Faulty variant: the baseline of a server is set once and then left alone.
CreditKeepingBase(moving) ==
    /\ base' = IF base.host = shown THEN base ELSE [host |-> shown, bytes |-> counter]
    /\ credited' = [credited EXCEPT ![shown] = @ + Since]
    /\ UNCHANGED <<visits, measuring>>

\* moving: whether the instantaneous rate of the reading is above zero.
Credit(moving) ==
    /\ base' = [host |-> shown, bytes |-> counter]
    /\ IF Since > 0 \/ moving
       THEN /\ credited' = [credited EXCEPT ![shown] = @ + Since]
            /\ visits' = [visits EXCEPT ![shown] = @ + IF NewStay THEN 1 ELSE 0]
            /\ measuring' = IF moving THEN shown ELSE measuring
       ELSE UNCHANGED <<credited, visits, measuring>>

\* Every path that declines the reading drops the baseline with it.
Declined == base' = NoBase /\ UNCHANGED <<credited, visits, measuring>>

RecordTransfer(moving) == IF Attributable THEN Credit(moving) ELSE Declined

\* Whether qBittorrent moves something at the instant of the reading: a poll
\* that lands in a dip reads zero although bytes moved since the last one.
InstantRate(moving) ==
    IF moving THEN up /\ UNCHANGED faults
    ELSE IF Since > 0 THEN Fault("dips") ELSE UNCHANGED faults

\* Run's transferTicker; afterwards a whole interval lies before the next one.
ScheduledPoll ==
    /\ \E moving \in BOOLEAN : InstantRate(moving) /\ RecordTransfer(moving)
    /\ settled' = TRUE
    /\ UNCHANGED <<shown, shownUp, pinned>> /\ UNCHANGED world

\* The operator's Refresh button, at any time.
ManualPoll ==
    /\ \E moving \in BOOLEAN : InstantRate(moving) /\ RecordTransfer(moving)
    /\ UNCHANGED view /\ UNCHANGED world

\* A scheduled poll without an answer does not reach recordTransfer.
Unanswered ==
    /\ Fault("unanswered") /\ settled' = TRUE
    /\ UNCHANGED <<shown, shownUp, pinned>> /\ UNCHANGED world /\ UNCHANGED records

Next ==
    \/ Traffic \/ GluetunMoves \/ TunnelDrops \/ TunnelReturns \/ QbittorrentRestarts
    \/ Round \/ RoundTimesOut \/ SwitchTo \/ HealthCheck \/ Restart \/ LoopBusy
    \/ ScheduledPoll \/ ManualPoll \/ Unanswered

Spec == Init /\ [][Next]_vars

-----------------------------------------------------------------------------
(* Correctness                                                              *)

\* Every variable has its type.
TypeOK ==
    /\ tunnel \in Servers /\ up \in BOOLEAN /\ counter \in Nat
    /\ shown \in Servers \cup {None} /\ shownUp \in BOOLEAN
    /\ pinned \in Servers \cup {None} /\ settled \in BOOLEAN
    /\ base \in [host : Servers \cup {None}, bytes : Nat]
    /\ credited \in [Servers -> Nat] /\ visits \in [Servers -> Nat]
    /\ carried \in [Servers -> Nat] /\ stays \in [Servers -> Nat]
    /\ measuring \in Servers \cup {None}
    /\ moves \in 0..MaxMoves /\ faults \in [kinds : FaultMixes, left : 0..MaxFaults]

\* None of these faults belongs to the behaviour.
Without(kinds) == faults.kinds \cap kinds = {}

\* No server is credited with traffic another one carried: what the records
\* say of a server never exceeds what it carried (recordTransfer: "Every guard
\* here exists to keep one server's figures from being credited to another").
\* That takes polls that are answered in time and a tunnel that only this
\* program moves, in a round that verifies it.
CreditedWhereCarried ==
    Without({"switchTo", "late", "moves", "unanswered", "busyLoop"}) =>
        \A h \in Servers : credited[h] <= carried[h]

\* Whatever happens to the tunnel, to the polls and to the two programs, no
\* byte is counted twice (transferredSince).
NothingCountedTwice ==
    SumFunction(credited) <= SumFunction(carried)

\* A server whose traffic does not pause is not counted as visited more often
\* than the tunnel came to it.
VisitsAreStays ==
    Without({"dips", "switchTo", "late", "moves", "unanswered", "busyLoop"}) =>
        \A h \in Servers : visits[h] <= stays[h]
=============================================================================
