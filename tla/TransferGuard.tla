---------------------------- MODULE TransferGuard ----------------------------
(***************************************************************************)
(* Whether a transfer holds the tunnel: refreshTransferWith and what it    *)
(* keeps between two polls of qBittorrent (the samples of the averaging    *)
(* window, since when the tunnel is busy), and transferBlocksSwitch, which *)
(* answers for automatic switching.  The Switching module takes that       *)
(* answer as an input of every decision.                                   *)
(***************************************************************************)
EXTENDS Integers, Sequences, SequencesExt

CONSTANTS
    Confs,       \* the settings the program may be given, in ticks:
                 \*   window, SWITCHING_BUSY_WINDOW, 0 for the latest reading alone
                 \*   maxDefer, SWITCHING_BUSY_MAX_DEFER, 0 for no limit
    Grace,       \* firstReadingGrace in ticks
    DownLimit,   \* SWITCHING_BUSY_DOWNLOAD, 0 when disabled
    UpLimit,     \* SWITCHING_BUSY_UPLOAD, 0 when disabled
    Rates,       \* the readings qBittorrent gives
    MaxTime,     \* BOUND on the clock
    MaxPolls     \* BOUND on the readings of a behaviour

ASSUME TransferGuardAssumption ==
    /\ Confs # {} /\ Confs \subseteq [window : Nat, maxDefer : Nat] /\ Grace \in Nat
    /\ DownLimit \in Nat /\ UpLimit \in Nat
    /\ Rates \subseteq [down : Nat, up : Nat]
    /\ MaxTime \in Nat /\ MaxPolls \in Nat

VARIABLES
    conf,       \* e.cfg.Switching, read once at the start
    now,        \* the clock
    startedAt,  \* e.startedAt
    answered,   \* ~e.transferCheckedAt.IsZero()
    reachable,  \* e.transferReachable
    samples,    \* e.transferSamples
    busySince,  \* e.transferBusySince, Never when zero
    status,     \* the tunnel status of the snapshot, "" before the first check
    log,        \* history: every reading since the program started
    freeAt      \* history: when a switch was last not held back

vars == <<conf, now, startedAt, answered, reachable, samples, busySince, status, log, freeAt>>

Never    == -1
Statuses == {"", "running", "stopped", "crashed"}
Samples  == [at : Nat, rate : [down : Nat, up : Nat]]

-----------------------------------------------------------------------------
(* averageRates, transferIsBusy, transferBlocksSwitch                       *)

Total(s, way) ==
    LET sum[i \in 0..Len(s)] == IF i = 0 THEN 0 ELSE sum[i - 1] + s[i].rate[way]
    IN  sum[Len(s)]

\* The mean of the window reaches the limit of one direction.
Reaches(s, way, limit) == limit > 0 /\ s # <<>> /\ Total(s, way) \div Len(s) >= limit

Summed(s) == [i \in DOMAIN s |-> [at |-> s[i].at, rate |-> [down |-> s[i].rate.down + s[i].rate.up]]]

\* Faulty variant: the two directions are added up before they are compared.
BusySummed(s) == Reaches(Summed(s), "down", DownLimit)

Busy(s) == Reaches(s, "down", DownLimit) \/ Reaches(s, "up", UpLimit)

\* The safety valve: the transfer has held the tunnel for too long.
Overdue == conf.maxDefer > 0 /\ busySince # Never /\ now - busySince > conf.maxDefer

Waiting == status \in {"", "running"} /\ now - startedAt < Grace

Blocks == IF answered THEN Busy(samples) /\ status # "crashed" /\ ~Overdue ELSE Waiting

-----------------------------------------------------------------------------
(* Steps                                                                    *)

\* History: what is not held back now could have moved now.
Noted == freeAt' = IF Blocks' THEN freeAt ELSE now'

Init ==
    /\ conf \in Confs
    /\ now = 0 /\ startedAt = 0
    /\ answered = FALSE /\ reachable = FALSE
    /\ samples = <<>> /\ busySince = Never
    /\ status = "" /\ log = <<>> /\ freeAt = 0

Tick ==
    /\ now < MaxTime /\ now' = now + 1
    /\ UNCHANGED <<conf, startedAt, answered, reachable, samples, busySince, status, log>> /\ Noted

\* checkGluetun publishes what Gluetun says.
Check ==
    /\ status' \in Statuses \ {"", status}
    /\ UNCHANGED <<conf, now, startedAt, answered, reachable, samples, busySince, log>> /\ Noted

\* recordTransferSample: the reading is kept and what is older than the
\* window, counted back from this reading, is dropped.  Readings are in the
\* order of time, so that is everything up to the last one that is too old.
Kept(s, at) == SubSeq(s, SelectLastInSeq(s, LAMBDA x : x.at < at - conf.window) + 1, Len(s))

Recorded(s, sample) == IF conf.window = 0 THEN <<sample>> ELSE Kept(Append(s, sample), sample.at)

\* Faulty variant: every busy reading starts the wait again.
SinceLatest(s) == IF Busy(s) THEN now ELSE Never

\* Busy since the first busy reading, until a reading that is not busy.
Since(s) ==
    CASE ~Busy(s)                       -> Never
      [] Busy(s) /\ busySince = Never   -> now
      [] Busy(s) /\ busySince # Never   -> busySince

\* A poll that qBittorrent answers.
Answer(rate) ==
    /\ Len(log) < MaxPolls
    /\ answered' = TRUE /\ reachable' = TRUE
    /\ samples' = Recorded(samples, [at |-> now, rate |-> rate])
    /\ busySince' = Since(samples')
    /\ log' = Append(log, [at |-> now, rate |-> rate])
    /\ UNCHANGED <<conf, now, startedAt, status>> /\ Noted

\* Faulty variant: the window keeps moving while qBittorrent is silent.
NoAnswerDrains ==
    /\ reachable' = FALSE
    /\ samples' = Kept(samples, now)
    /\ UNCHANGED <<conf, now, startedAt, answered, busySince, status, log>> /\ Noted

\* A poll without an answer: the last known rates are kept.
NoAnswer ==
    /\ reachable' = FALSE
    /\ UNCHANGED <<conf, now, startedAt, answered, samples, busySince, status, log>> /\ Noted

\* The program starts again and remembers none of this.
Restart ==
    /\ startedAt' = now
    /\ answered' = FALSE /\ reachable' = FALSE
    /\ samples' = <<>> /\ busySince' = Never
    /\ status' = "" /\ log' = <<>> /\ freeAt' = now
    /\ UNCHANGED <<conf, now>>

Next == Tick \/ Check \/ (\E rate \in Rates : Answer(rate)) \/ NoAnswer \/ Restart

Spec == Init /\ [][Next]_vars

-----------------------------------------------------------------------------
(* Correctness                                                              *)

\* A tunnel that is held is let go only by an answer, by a tunnel that is no
\* longer up, by the safety valve, or by the end of the grace period when
\* qBittorrent has never answered: losing contact and the passing of time do
\* not release a transfer (refreshTransferWith, recordTransferSample).
LossOfContactHolds ==
    [][(Blocks /\ ~Blocks') =>
          \/ log' # log
          \/ status' # status /\ status' # "running"
          \/ answered /\ Overdue'
          \/ ~answered /\ now' - startedAt >= Grace]_vars

\* A switch is held back without a break for no longer than the grace period
\* and the limit on deferring together, whatever qBittorrent, the tunnel and
\* the polls do (transferBlocksSwitch).
DeferralIsBounded == (conf.maxDefer > 0 /\ Blocks) => now - freeAt <= Grace + conf.maxDefer

Recent == {i \in DOMAIN log : log[i].at >= Last(log).at - conf.window}

\* Through the averaging: a transfer that stays at or above a limit for a whole
\* window is not interrupted before the safety valve opens; and traffic that
\* stays below both limits for a whole window holds nothing, so that a burst is
\* forgotten with its window and the directions are not added up
\* (recordTransferSample, averageRates, transferIsBusy).
WindowDecides ==
    answered =>
        /\ (/\ status \in {"", "running"} /\ ~Overdue
            /\ \/ DownLimit > 0 /\ \A i \in Recent : log[i].rate.down >= DownLimit
               \/ UpLimit > 0 /\ \A i \in Recent : log[i].rate.up >= UpLimit) => Blocks
        /\ (/\ \A i \in Recent : log[i].rate.down < DownLimit \/ DownLimit = 0
            /\ \A i \in Recent : log[i].rate.up < UpLimit \/ UpLimit = 0) => ~Blocks
=============================================================================
