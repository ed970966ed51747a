# A formal model of gluetun-proton-list-updater

The program keeps a [Gluetun](https://github.com/qdm12/gluetun) VPN container on
the best ProtonVPN server. It reads Proton's server list and utilisation figures,
ranks the servers the operator's filters allow, and switches the tunnel through
Gluetun's control server when a better one is worth the interruption. It holds a
switch back while qBittorrent is busy, credits the traffic to the servers that
carried it, and keeps what it learned in a state file.

This directory holds TLA+ modules translated from that code, the TLC
configurations that check them on small instances, and theorems the TLA+ proof
system checks for every value of the constants. `PROJECT.json` ties every
definition to the lines it models, every property to a mutation of the code that
breaks it, and every hazard to the properties that cover it.

Contents: [inventory](#inventory) - [modules](#modules) - [runs](#runs) -
[fairness](#fairness) - [conditions](#conditions-inside-properties) -
[proofs](#proofs) - [divergences](#what-the-code-does-otherwise-than-its-words) -
[plan](#plan).

## Inventory

Paths are below `src/internal/`. One goroutine, `Engine.Run`, owns nearly all
state: tickers, dashboard commands and shutdown are the cases of one `select`, and
whatever a case calls (a switch round, a list refresh, a login that waits for a
code) runs to its end before the next case. Concurrency is therefore between the
loop and the outside: Gluetun, Proton, qBittorrent, the disk, the operator, the
clock, and the HTTP goroutines that read the snapshot and queue commands.

| Component | State it keeps | Operations | Meets | Hard about it | What makes it correct |
|---|---|---|---|---|---|
| Switch decision and round, `engine/switch.go` | hostnames Gluetun disclosed, the restart banner, locals of a round | `evaluate`, `decide`, `performSwitch`, `tryCandidates`, `applyTarget`, `verifyTunnel`, `switchTo`, `refreshGluetunServerList` | Gluetun client, snapshot, state store, transfer guard | requests with unknown outcome, half a reconnect, what was learned going stale, waits of minutes | the minimum interval holds; one interruption a round; the best server Gluetun has; a stopped tunnel stays stopped; rounds end; the tunnel converges |
| Health check, `engine/tasks.go` | gluetun part of the snapshot | `checkGluetun`, `becameUsable`, `verifyGluetunPin`, `currentHostname` | Gluetun client, state store | two reads of a moving target; a pin lost to a restart | a pin that is gone is noticed; what was read is not mixed with what was believed |
| Server list tasks, `engine/tasks.go`, `engine/engine.go` | candidates, blocked servers, latest loads, tier, requirements, protocol | `refreshServerList`, `refreshLoads`, `applyLogicals`, `updateRequirements`, `updateVPNType`, `rebuildFromCache` | Proton client, caches, catalogue | five inputs that arrive in any order and are each rebuilt from | candidates are usable; both sides of a comparison are equally fresh; an inference never strands the tunnel |
| Catalogue, `catalog/` | none | `Build`, `ApplyLoads`, `Explain` | - | agreement between `Build` and `Explain` | a row is kept or explained, never both |
| Scoring, `scoring/` | none | `Rank`, `TopN`, `Find` | - | floating point ties | a total order, stable under equal scores |
| State store and caches, `engine/state.go` | the persisted state, its dirty mark | `load`, `update`, `mutate`, `flush`, `trim` | atomic files | a failed write, a kill, a shutdown | what is clean is on disk; nothing pending is forgotten |
| Atomic file writes, `atomicfile/` | temporary and final file | `Write`, `WriteJSON`, `ReadJSON` | the kernel | death between two system calls | the file is a whole state at every moment |
| Transfer guard, `engine/transfer.go`, `engine/rates.go` | window of samples, busy since, time of the last answer | `refreshTransferWith`, `recordTransferSample`, `transferBlocksSwitch` | qBittorrent client, decision | silence, bursts, a limit on deferring | a transfer is not cut, a quiet tunnel not held, a deferral is bounded |
| Transfer attribution, `engine/history.go` | baseline, bytes and visits per server | `recordTransfer`, `transferredSince` | qBittorrent, snapshot, state store | the server is read after the bytes moved | no byte to the wrong server, none twice |
| Gluetun client, `gluetunapi/` | none | `SetStatus`, `Reconnect`, `PinServer`, `WaitForUpdater`, `do` | Gluetun | 2xx late, never, or lost; 401/403 | a timeout is an unknown outcome |
| Proton session, `proton/` | session in memory and on disk, code channel | `authenticatedRequest`, `attempt`, `login`, `refresh`, `Code`, `Submit` | Proton, the operator | one-use refresh tokens, lost answers, a code with a wait | the session on disk is the one held; the password is sent when it must be; every request ends |
| Run loop and snapshot, `engine/engine.go`, `engine/snapshot.go` | published snapshot, subscribers | `New`, `Run`, `publish`, `Subscribe` | everything | readers in other goroutines | one consistent snapshot; no lost wake-up |
| Commands, `engine/commands.go`, `engine/gluetunloops.go` | a bounded queue | `submit`, `handleCommand`, `setTunnelStatus`, `setDNSStatus` | dashboard, run loop | a round of minutes ahead of the command; callers that left | commands run one at a time and at most once, a refused one never; every caller hears something |
| Servers file, `serversfile/` | Gluetun's server data on a shared volume | layout and version detection, `Write`, preservation of other providers, the check that Gluetun reads it | Gluetun, the second writer, which truncates its file first | two writers, two layouts, a volume older than the image | other sections survive; what is written is what Gluetun uses; the warning is true |
| Latency prober, `latency/` | smoothed times | a pool of workers | network | cancellation in a sweep | every target measured at most once |
| Dashboard, `dashboard/` | the open streams | HTTP handlers, event stream, graceful shutdown | commands, snapshot, main | slow readers, callers that wait at a shutdown | a stream ends up on the latest snapshot; an idle one does not hold up a shutdown |
| Log buffer, `logbuf/` | a ring | `Handle`, `Records`, `Reset` | every goroutine | wrap-around | the newest records in order |
| Main, `cmd/` | none | starts and stops both parts | run loop, dashboard | two deadlines that run at once | nobody is cut off but for cause |
| qBittorrent client, configuration, preflight | none | requests, parsing | - | - | - |

How they meet: the list tasks publish `e.ranked`, which is an input of the decision
(`Rankings` and `Rerank` in `Switching`); the transfer guard answers one question
for it (`held`, in `Decide`); the round writes `PinnedHostname`, `LastSwitchAt` and
the selection of the snapshot, which attribution and the next decision read; every
record goes through the state store to the atomic writer; every request for a list
or for loads goes through the session; every fetched list is written to the servers
file, which Gluetun reads when it starts. The dashboard reads the snapshot and hands
over commands, and `main` starts and stops it and the loop.

## Modules

| Module | Code | State | Actions |
|---|---|---|---|
| `Switching` | `switch.go`, health check, commands, Gluetun client | `gl` (Gluetun), `snap`, `ranked`, `known` (disclosed hostnames), `needsRestart`, `pc`, `seen`, `job` (locals of a round), `pinned`, `age` (ticks since `LastSwitchAt`), `auto` | one per call to Gluetun and per command |
| `SwitchingHistory` | the same | adds four observers: stopped by the operator, interruptions of this round, where the last switch landed, time since the last interruption | those of `Switching`, unchanged |
| `DurableStore` | what the state file promises | `running`, `held`, `disk`, `past` | start, change, save, end, settle, fail |
| `StateStore` | `state.go` over `atomicfile.go` | memory, dirty mark, system call that is due, temporary file, litter, file, what a power failure may leave | one per operation and system call |
| `TransferGuard` | `transfer.go`, `rates.go` | window, busy since, answered, tunnel status, and the full log of readings as history | tick, check, answered poll, silent poll, restart |
| `ByteAttribution` | `history.go` | baseline, credited bytes, visits, the view of the current server, and what each server really carried as history | moves of the tunnel by each party, the two polls |
| `ProtonSession` | `proton/auth.go`, `client.go`, `totp.go` | tokens Proton honours, session held and stored, call that is due, attempt, code channel | one per request to Proton |
| `Candidates` | list tasks, catalogue | Proton's figures, Gluetun's filter and protocol, three files, loads, tier, requirement, candidates, blocked | one per task, two where a task makes two requests |
| `ServersFile` | `serversfile.go`, `writeServersFile`, `detectSchemaVersion`, `checkServerDataIsRead` | the two files and the manifest, who wrote what, the image of Gluetun, what this program believes of them, the write or health check in progress | one per file read or replaced by this program, a write that fails, a health check from its answer to its look at the files; start, update, flush, stop and change of image of Gluetun |
| `SerialCommands` | what the dashboard may rely on | where each command stands, what its caller was told | accept, refuse, begin, finish, tell |
| `CommandQueue` | `submit`, the `select` of `Run`, `handleCommand` | the channel, where the loop is, the result channels, where each caller is | one per channel operation |
| `EventStream` | `mutateSnapshot`, `subscriberSet`, `Snapshot`, `handleEvents` | the published snapshot and the map it shares, subscribers, their slots, what each stream is encoding and has written | one per critical section and per case of the `select` |
| `Service` | `dashboard.New` and `Run`, `main` | extends both above with the process, the server, the two deadlines | those of both, within a process that serves, drains and exits |

`MC*` modules give the constants their small values. Each of `SwitchingProofs`,
`StateStoreProofs`, `TransferGuardProofs`, `ByteAttributionProofs`,
`ProtonSessionProofs`, `CandidatesProofs`, `ServersFileProofs` and `ServiceProofs`
holds the theorems about its component.

`Service` is the composition: it extends `CommandQueue` and `EventStream`, whose
actions leave each other's variables alone, and says when each may be taken: the
loop does nothing else while a notification is due, the snapshot changes only while
the loop works, requests come only while the server serves.

How code became actions:

- **A step ends at the next call to the outside.** Everything between two calls
  belongs to the step that ends the first: `VerifySettings` contains
  `recordSwitch`, the snapshot update and the deferred refresh that follow a
  confirmation. Between two steps Gluetun, the clock and the faults move freely.
- **A request to Gluetun has four outcomes**, as `do` classifies them: answered,
  refused, timed out (its effect came, comes later or never comes: `late`), or the
  connection failed before or after the effect.
- **Faults are counted.** Every fault of the environment draws on one budget
  (`MaxFaults`), and which kinds occur is a constant, or (`FaultMixes`) is chosen in
  the initial state, so that one run covers several environments.
- **Configuration is chosen in the initial state** where a run covers several
  settings: `Roles`, `Confs`, `Containers`, `Factors`.
- **Time** is a tick. `age` saturates at `MaxAge`, which is at least both windows of
  the decision, so that an older switch cannot be told from none.
- **Loads, scores, names** are members of small sets. In `StateStore` the n-th
  change ever made is the number n, so that a lost, doubled or reordered record
  shows.

Faulty variants named `... variant:` in the modules are the mutations of the code
each property is tested against; nothing in a specification uses them.

## Runs

Every run is finite and deadlock is checked in all of them. (`Service` stutters
when the process is gone, which is its only end.)

| Run | Asks | Bounds, and why they are enough |
|---|---|---|
| `Rounds` | `TypeOK`, `RoundPastFloor` (no automatic round inside the minimum interval), `StaysOnBest` (no second round after a verified switch while nothing changed), `StopStands` (a tunnel the operator stopped is not started by a round), `OneInterruption` (a round takes a live tunnel down at most once) | two servers, two rankings with the load trigger on either side, lists that lack the best one, roles that refuse two routes, every command, one fault of seven kinds. Interval 1 and cooldown 2 differ, so each is decisive somewhere |
| `RoundsBest` | `LandsOnBestKnown` (a round settles for the best candidate Gluetun has), `BannerIsTrue` (the restart banner is raised for a true reason) | three servers of which two are tried, so the best, a fallback and an untried one exist; lists that lack one or two; a provider that is not ProtonVPN; one timeout, outage, drop or move by somebody else |
| `RoundsStatus` | `OneInterruption`, `RoundEnds` | status mode, where a reconnect is two requests; a Gluetun that may stay in transition for ever; a refused route; two faults |
| `Unattended` | `Converges` (the tunnel ends up on the best server and stays) | three servers; three faults among timeouts, outages, and restarts of either process, so a fault can hit the recovery from a fault |
| `Store` | `TypeOK`, `Settled` (a clean store is on disk), `ShutdownKeepsAll`, `ChangesReachTheFile`, and `SavesAreAtomic`, which is the specification `DurableStore` | two records kept of four changes, so trimming drops one; three faults of four kinds between any two system calls |
| `Guard` | `DeferralIsBounded`, `WindowDecides` (a steady transfer is not interrupted, a quiet tunnel not held), `LossOfContactHolds` | three readings in six ticks, over windows of two ticks and of one reading, with and without a limit; readings idle, at a limit, above one, below both |
| `Bytes` | `CreditedWhereCarried`, `NothingCountedTwice`, `VisitsAreStays` | two servers and three moves (leave, return, leave), two faults; harmless mixes and all of them |
| `Session` | `StoredIsHeld`, `LoginNeedsDeadToken`, `RequestsEnd` | accounts without second factor, with a secret, with manual codes; three faults of seven kinds, so a token is lost, replaced and lost again |
| `Catalog` | `CandidatesAreUsable`, `ComparisonIsFair`, `NoOscillation`, `InferenceNeverStrands`, `OperatorFilterIsMet`, `LoadsNeverGoBack`, `Converges` | two servers that differ in every attribute, every container setting, both protocols, five mixes of two faults, two changes of Proton's figures |
| `Serving` | `CommandsAreSerial`, which is the specification `SerialCommands`; `NoLostWakeup`, `ViewsAreWhole`, `ShutdownIsOrderly`, `CallersHear` | three commands, two with a caller that waits, for a queue of one: one runs, one queues, one finds no room. Two streams over one change, one stream over three (a change while it subscribes, one while it encodes, one while it waits), and a command beside a stream. Deadlines of one and two ticks: only their order matters |
| `Servers` | `ForeignKept`, `WrittenIsUsed`, `VersionIsGluetuns`, `WarningIsTrue` | a legacy image and a directory image with another version, both write modes, storage kept or not, every file and every health check interrupted at each step; no bound at all, since the states are finitely many |
| `ClaimFloor` | what a comment and the README say and the code does not do; see [below](#what-the-code-does-otherwise-than-its-words) | the smallest instance that shows it |

## Fairness

No specification assumes more than the code or its environment gives:

- `LoopFairness` (`Switching`): the loop takes the steps of a call it is in. It is
  strong fairness because a mutation is answered only when Gluetun's own loop has
  settled, and that may be for a moment. The second conjunct is `VerifyTimeout`: a
  verification does not poll for ever.
- `TickerFairness`: a `time.Ticker` keeps one tick pending and `select` picks a ready
  case at random, so neither ticker is passed over for ever. The clock runs.
- `GluetunFairness` (only in `Unattended`): Gluetun finishes a transition, answers
  what it queued, restarts a crashed tunnel and ends an update. `RoundEnds` does
  **not** assume it.
- `StateStore.LiveSpec`: the container is restarted, a write runs to its end, the
  flush timer fires.
- `ProtonSession.LiveSpec`: every request and every wait ends, by the HTTP timeout
  and by the ten minutes of `ManualCodeProvider.Code`. Proton need not recover and
  nobody need submit a code.
- `Service.LiveSpec`: the loop takes the steps of what it is in; `select` is fair at
  random, so neither a queued command nor the stop is passed over for ever (strong
  fairness, since tickers come in between); handlers run; a client reads what it is
  sent or goes away, because without a write timeout nothing else would end its
  stream. Nothing is assumed of callers.
- `Candidates.LiveSpec`: a call that began ends, the program is started again, and
  each ticker fires again and again.

## Conditions inside properties

Some properties hold only in part of the environments the code can meet. The part
is written into the property (`Without(kinds)`) or into the run, never into the
actions, and is listed here because the rest is where the code is weaker:

- `RoundsBest` has no restart of Gluetun, no failing or slow updater and no role that refuses routes: with nothing pinned a
  restart goes unnoticed, and names disclosed before it hide the best candidates; a refresh whose request
  failed may have replaced the list all the same; and a refused route counts as a
  refused hostname.
- `Unattended` has no drops: a tunnel that is down when a pin arrives needs an
  explicit reconnect, and half a reconnect leaves a stopped tunnel, which every
  later evaluation respects.
- `CreditedWhereCarried` and `VisitsAreStays` leave out manual switches, moves Gluetun
  makes by itself, switches that come up after their timeout, polls without an
  answer and polls a busy loop skips; visits also polls that land in a dip.
  `NothingCountedTwice` holds under all of them.
- `StoredIsHeld` needs a disk that takes the session; `LoginNeedsDeadToken` also a
  Proton that answers.
- `CandidatesAreUsable` needs a tier known before the list is built and, like
  `LoadsNeverGoBack`, a list that could be cached; `InferenceNeverStrands` and `Converges` need servers that do not go
  into maintenance. `OperatorFilterIsMet` begins with the first health check that reads
  the filter: a pin before that clears what nobody has seen. From there on it needs a
  program that keeps running and, for the candidates, a list that could be cached.
- `ForeignKept` leaves out writes during which Gluetun was writing the legacy file as
  well (`moved`): the read, the merge and the replacement are not one step, and nothing
  locks. It says nothing of a file that cannot be parsed, which holds no section
  that could be kept.
- `WrittenIsUsed` is about a write that ended beside a Gluetun that was up, with the
  version it expects. `VersionIsGluetuns` is about a start beside Gluetun's own file,
  which no provider's file hides. `WarningIsTrue` names the cases in which the
  warning is wrong: replace mode, a legacy file that Gluetun was writing during the
  health check, and a write that lost its sections to such an overlap.
- `ViewsAreWhole` excepts the selection map, and `ShutdownIsOrderly` callers whose
  command has no result and clients that do not read.

## Proofs

Eight modules prove 60 theorems that a reader may want to cite, each for every value
of the constants: sets of servers, commands, streams and images of any size, any
deadlines, caps and windows, any number of faults. Each starts from the assumptions
named in the component's module; three also state a condition in the theorem itself.
Every `Invariance` theorem is
`Spec => []Inv` for an inductive `Inv`, which TLC checked on the run's instance before
it was proved.

`SwitchingProofs` proves of `Switching` and `SwitchingHistory`, from `SwitchingAssumption`
alone (any finite or infinite set of servers, any rankings and lists, any windows, any number of
faults of any kind):

- `Invariance`: `Spec => []Inv`, where `Inv` is `TypeOK`, that the calls which need a
  target have one (`TargetChosen`), and `RoundPastFloor`. `TypeOK` by itself is not
  inductive: a pin stores the target of the round, which has to be a server, so the
  steps from `settle` on need to know that a target was chosen.
- `TypeCorrectness` and `FloorHolds`: the two invariants that follow. The floor is
  asked once, in `Decide`; the proof goes through every action to show that nothing
  between that question and the last call of the round dates a switch except the
  round's own success, which ends it.
- `HInvariance`: `HSpec => []HInv`. `HInv` adds that the loop has the locals of a round
  exactly while it is in one (`RoundHasJob`); that only a running loop carries traffic,
  so a pin that takes a live tunnel down is never followed by the explicit restart
  (`OnlyRunningCarries`); that the calls which could still take the tunnel down come
  before the one that did (`TearIsLast`); that after a stop the engine has seen it or
  is about to look (`StopSeen`); and that after a success on the best server Gluetun and
  the snapshot agree on it, so whichever of the two the next decision reads, there is
  nothing to do (`StaysPut`). `InterruptsOnce` and `StopIsRespected` follow in every
  mode, `RestsOnBest` where servers are chosen by settings: a tunnel restarted by
  status comes up where Gluetun likes.
- `BestOfTheList` and `BannerIsDeserved`, under `ListIsOurs`: Gluetun's list is replaced by
  the refreshes of this program alone, each of which is seen to end, and no route is
  refused. That is the environment of the run `RoundsBest`, stated for every list and
  ranking. The invariant is that what Gluetun disclosed is its list as it is now
  (`KnownIsList`), and that a round has a reason for each candidate it passed over
  (`Passed`).
- `RoundsShrink`, the part of `RoundEnds` that is not fairness. `Left` bounds the steps
  until the loop is idle: the candidates left and the calls of the attempt under way,
  the second attempt at all of them that one refresh may bring (`Again`), and the
  check, the evaluation and the refresh before it. Every step of the loop makes it
  smaller, except a repeated poll of a verification, which `VerifyTimeout` ends; nothing outside the loop
  adds to it, except a restart of the process and a ranking that is replaced before the
  round reads it. `RoundsAreShort`: `Left` is at most `16 * TopN + 32`, so the bound does
  not grow with the catalogue. What fairness adds is that the steps are taken.

`StateStoreProofs` proves of `StateStore`, from `StateStoreAssumption` alone (any cap,
any number of changes, any number of faults):

- `Invariance`: `Spec => []Inv`, where `Inv` is `TypeOK`; `FilesWhole`, that the file
  and all a power failure may leave of it are whole; `TempReady`, which says what the
  temporary file holds at each system call, and without which the rename could not
  be shown to publish a whole and synced file; and `Settled`.
- `TypeCorrectness`, `FileIsWhole`, `CleanIsOnDisk`, and `ShutdownIsComplete` of the step
  that ends the program: the properties that follow. The
  first contains that neither memory nor file ever exceeds the cap.
- `NothingRecordedTwice`: memory, the file, and whatever a power failure may make of the
  file are in the order of the changes, without repetition (`InOrder`). `NewestAreKept`:
  `trim` drops what is oldest, never below the cap, and never what was just recorded;
  `TrimmedIsSuffix` is the lemma about `trim` both need.
- `WritesShrink`: each system call of a write, failing or not, brings its end nearer.
  With `CleanIsOnDisk`, by which a change that is not in the file is dirty or being
  written, it is the part of `ChangesReachTheFile` that is not fairness.
- `Implementation`: `Spec => Durable!Spec`. Initial states map to initial states, and
  each action to the abstract step the proof names: the rename is the save, the
  other calls of a write stutter.

`ServiceProofs` proves of `Service`:

- `SerialExecution`: `Spec => CommandsAreSerial`, the refinement. It needs `Placed`:
  a command is with its caller, in the queue (once), in the loop or done, and never in
  two of these places. Each step of queue, callers and loop is then one step of
  `SerialCommands` or a stutter; that a caller left, or that the loop takes a tick
  first, does not show.
- `Invariance`, with `NoLostWakeup` itself; that a running handler is subscribed and
  no subscriber's channel is closed (`Subscribed`), without which a notification
  could miss a stream or panic; that only a write into a published map shows in an
  older view (`ViewsAreHonest`); and that the server drains no longer than its time
  (`InTime`), which makes main's deadline the later one.
- `TypeCorrectness`, `WakeupsArrive`, `WholeViews`, `OrderlyShutdown` follow.
- `WaitersAreServed`: the command of a caller that waits is queued, running or answered.
  `CommandsTakeTurns`: a queued command keeps its place, moves up by one or runs, and
  the one that runs gets its result before the next begins. Together they are the part
  of `CallersHear` that is not fairness: the place of a command only moves forward.
- `StopsInTime`: the clock that runs from the signal on never passes `Drain + Unwind`,
  five and six seconds in the code, because the server returns or the engine does before
  the first is over and main waits no longer than the second from then on
  (`WithinDeadlines`). Eleven seconds are more than the ten `docker stop` grants by
  default; only a handler that cannot end and an engine that is busy together use them.

`ServersFileProofs` proves of `ServersFile`, for any set of images:

- `Invariance`: sections and manifests come from Gluetun (`Evidence`); what a write
  that Gluetun has not met holds is what is in the file (`Held`) and covers the file
  the running image reads (`Placed`); what Gluetun wrote carries the version of the
  image that runs (`Genuine`); an image that is up has left its artefact (`Settled`),
  which is still there when the health check that it answered looks for it (`Seen`);
  and what is ready is what the next start reads (`Ready`). `Overlaps` ties these to
  the files Gluetun was writing meanwhile.
- `OthersAreKept`, `WritesAreUsed`, `VersionIsDetected`, `WarningHolds` are the four
  action properties of the run; `TypeCorrectness` goes with them.

`TransferGuardProofs` proves of `TransferGuard`, for any windows and rates: `Invariance`
(there is a time the tunnel has been busy since exactly if it is busy, and it was not
held for longer than the grace period before), `BoundedDeferral` and `ContactHolds`, in which
what the average of a window is does not enter. In `WindowIsDecisive` it does:

- The sum of the samples is a recursive function on their number. The induction theorems of
  the library take an operator, which the provers cannot instantiate; `SetInduction`
  states induction about a set of numbers instead, and follows from `<` being well
  founded (`WFMin`). With it `AddsExist` shows that there is such a function, and
  `MeanAtLeast` and `MeanBelow` that an average is not below a bound all samples reach,
  nor reaches one they all stay below.
- `SamplesAreRecent` is the invariant `Windowed`: each sample kept is a reading of the
  window that ends now. What `Kept` drops from the front is the lemma `KeptIsRecent`.

`ByteAttributionProofs` proves of `ByteAttribution`: `Invariance`, where `BaselineIsOurs`
says that the program knows where the tunnel is and that no more was counted from a
usable baseline than that server carried uncredited, and `StayIsOpen` that a server
not measured last has a stay to be counted; `CreditsAreEarned`, `VisitsAreEarned`,
`TypeCorrectness`. `BytesAreCountedOnce` is about sums over all servers, which are folds: the
lemmas on sums show that one changed term changes the sum by that much, and the
invariant adds what is still uncredited to what is credited. It needs
`IsFiniteSet(Servers)`, part of `ByteAttributionAssumption`: a catalogue is a finite list.

`ProtonSessionProofs` proves of `ProtonSession`: `Invariance`, where `NoneIsDead` says
that a client without a session has no file that could still help;
`SessionIsStored`, `PasswordIsLastResort`, `TypeCorrectness`. `RequestsShrink` is the part of
`RequestsEnd` that is not fairness: `Left` bounds the steps until the loop is idle by the
rest of the attempt (`Phase`: a login of two factors, the request, its refresh, a second
login and the request once more), the attempts after it, and the list that follows the
account. Every step of the loop makes it smaller, whatever Proton answers, and neither
outages nor codes that come or do not come add to it. `RequestsAreShort`: at most twenty-six
steps for every attempt allowed.

`CandidatesProofs` proves of `Candidates`: `Invariance`, which says what is cached,
which requirement and tier every candidate meets, that the rows of one answer have
figures of one age (`Shapes`), and that a filter once read as on is never given up
(`FilterIsHeld`), although no later check may read it so; `UsableCandidates`, `FairComparison`, `GivenUpForGood`,
`FilterOutlivesPins`, `TypeCorrectness`. `FiguresOnlyGetNewer` rests on a second
invariant, `FiguresAgree`: every candidate has the age of the newest loads or of the
cached list. `InferenceYields` rests on a third, `InferenceIsMet`: a requirement that
was inferred has a candidate as soon as there is a list, because the rebuild that
leaves none gives it up (`KeptWithCandidate`). `CandidatesAreComplete` is the part of
`Converges` that is not fairness: while the program runs, what survives the filters is a
candidate, in every state and not only in the end. It holds because every change of the
requirement or the protocol rebuilds, and because a tier that becomes known without a
rebuild only takes servers away (`TierTakesAway`).

Only model-checked:

- everything under fairness: `RoundEnds`, `Converges` (of `Catalog` and of `Unattended`),
  `ChangesReachTheFile`, `RequestsEnd`, `CallersHear`. The prover handles neither fairness nor
  `ENABLED`. What these need besides fairness is proved, as named above: a measure that
  every step brings down, or a place that only moves forward. `Converges` of `Unattended`
  is the exception: it also depends on what Gluetun does by itself, and stays with TLC.

Every invariant and every action property that a run checks is the statement of a
theorem; `ClaimFloor` excepted, which is false. The theorems about progress state
formulas of their own (`BusyForBounded`, `RequestsAreFinite`, `InTurn` and so on), which
were checked on the instance of the component's run before they were proved.

`NeverTorn` and the type invariants of the modules without a run for them are proved
only; TLC checked them when they were written.

## What the code does otherwise than its words

One run shows a statement of the repository that the program does not keep:

- **`ClaimFloor`** - `recordSwitch` dates only a verified switch. A round that takes
  the tunnel down and is not confirmed may be followed by another at the next
  evaluation, although `engine.go:896-898` says the tunnel "cannot be torn down more
  often than this". What does hold is `RoundPastFloor`.

Others met while reading and modelling. They follow from steps that are in the
modules; no run is spent on them:

- Any failed refresh, a timeout included, drops the session and logs in with the
  password, where `client.go:279-280` speaks of a dead refresh token. With a Proton
  that answers the statement holds: `LoginNeedsDeadToken`.
- A list built while the tier was unknown, because the account request failed once,
  keeps servers above the plan until the list is next modified, where
  `engine.go:169-170` says they "are not candidates".
- The schema version is found once, at start, in a file this program writes itself.
  Started before Gluetun, or beside one that is upgraded later, it keeps writing
  the wrong version, over Gluetun's own, and reads its own back after a restart
  (`detectSchemaVersion`; `writeServersFile` detects only the layout again;
  `config.go:164-166` calls the default "only a fallback"). A provider's file that is
  out of date hides the version of a legacy Gluetun.
- A legacy file that cannot be parsed ends the write with an error, where the comment
  says it "must not stop us writing a good one" (`writeLegacy`). `ReadLegacy` and `Fails`
  do what the code does; no property takes a side.
- A write that meets one of Gluetun's of the legacy file loses the sections of the other
  providers: the file it reads may be truncated already, and what Gluetun goes on
  writing ends in a file that was replaced (`writeLegacy`).
- In replace mode, after such a write, and when Gluetun writes its legacy file during the
  health check, Gluetun is said to ignore the files although it reads them
  (`commands.go:206-208` rules a false alarm out while Gluetun is down, which does hold).
- `tryCandidates` writes into the selection map of the published snapshot, which
  streams encode without a lock; `engine.go:5-9` says the snapshot is "replaced
  wholesale". With the wrong timing the Go runtime ends the process.
- The first round of work runs before the `select` is first reached, so commands
  wait for Proton at start (`Run`, "so a slow Proton API cannot delay dashboard
  responsiveness").
- A caller whose command is still queued or running at shutdown is not answered and
  makes `Server.Run` use up its five seconds; with the dashboard off, `main` waits all
  of its six for a second component that does not exist; there is no write timeout,
  so a client that does not read keeps its stream.
- A stop that timed out, or that arrives in a round, can be undone by the start half
  of that round (`gluetunloops.go:12-14`).
- 401 and 403 count as refused hostnames, so a role without `PUT /v1/vpn/settings`
  raises the banner about an outdated list (`gluetunapi/client.go`, `do`).
- When Gluetun refuses the better candidates, a round continues below the current
  server and settles for a worse one; the reconnect button pressed on the best
  server moves to the second best (`tryCandidates` skips the current server inside
  its loop).
- A pin that timed out and was then verified is not stored as `PinnedHostname`
  (`applyTarget`; `state.go:181-183`).
- `switchTo` records a timed-out change as failed without verifying it, against the
  advice of `gluetunapi/client.go:41-46`, and leaves the old selection in the
  snapshot, which credits the old server with the new one's traffic until the next
  health check.
- In status mode the snapshot gets a selection Gluetun does not have
  (`tryCandidates`).
- A reconnect whose second request fails leaves a stopped tunnel that is from then
  on taken for the operator's decision (`Reconnect`; `switch.go:73`).
- With nothing pinned, `verifyGluetunPin` returns early, so a restart of Gluetun does
  not make the program forget what was disclosed before.
- A tunnel that crashed on the best server is "already on the best server"
  (`decide`; `switch.go:68-69` says such a tunnel is acted on).
- One failed read of the state file makes a fresh start, and the next write replaces
  the record (`New`; the comment of `forgetRetiredServers` calls retirement the only
  way a total is deleted).
- A poll without an answer keeps the byte baseline (`history.go:98-101` asks every
  path that declines a reading to drop it). A stay whose polls all land in dips is
  counted as several visits.
- A code submitted while no login waits is kept for a later login (`totp.go:86-87`);
  the flag that shows the form is published only after the login has given up; a
  refused password is sent again at the next refresh (`auth.go:207-208`).
- A pin that comes before the settings of Gluetun could be read for the first time clears
  `PORT_FORWARD_ONLY`, and the program does not learn of it before Gluetun restarts: `checkGluetun` sets
  `Reachable` although `GetSettings` failed, and neither `evaluate` nor `switchTo` asks
  for more (`tasks.go:548` says
  "the operator's intent is satisfied by the choice").
- An adopted requirement is not applied when the list could not be cached
  (`rebuildFromCache`), and is forgotten by a restart after our own pin cleared the
  filter in Gluetun.
- A rebuild after a list could not be saved starts from the older cached one, and takes
  the candidates and their figures back to it (`rebuildFromCache`; `engine.go:172-179`
  would not have a rebuild revert a load).
- A fetched list is overlaid with older loads while the time shown is now
  (`applyLogicals`, `refreshServerList`); a candidate whose load rises above
  `FILTER_MAX_LOAD` stays one; a loads refresh may drop the last P2P server although
  the requirement was only inferred.

## Not modelled

- `countries/`, `catalog/explain.go`, `proton/model.go`, `config/` and `preflight/` are
  functions of their arguments: parsing, lookup and wording, with no state between
  two calls and no order of steps. The constants of the modules stand for the values
  that pass validation.
- `scoring/` weighs and sorts floating point figures, which TLC does not have; `Switching`
  takes any ranking, and any change of it.
- `latency/` measures with a pool of workers for which the loop waits. It changes one
  input of the ranking and takes time, and both are free in `Switching`.
- `logbuf/` holds one lock in every method, and `qbittorrent/` and the requests of
  `gluetunapi/` are stateless; the guard, the attribution and the round take their
  answers, failures and timeouts as inputs.
- SRP and TOTP arithmetic, the JSON dialects of Gluetun versions, ports, DNS status and
  other fields that are only displayed, the statistics of the catalogue, and the page
  of the dashboard.
- The safety valve and the decision are modelled apart: `held` in `Switching` is any
  answer the guard could give, which includes every answer `TransferGuard` gives.

## Plan

Done, in the order of importance to a user of the tunnel: (1) `Switching` with
`SwitchingHistory`; (2) `DurableStore`, `StateStore` and the refinement; (3) `TransferGuard`;
(4) `ByteAttribution`; (5) `ProtonSession`; (6) `Candidates`; (7) `SerialCommands`,
`CommandQueue`, `EventStream` and `Service`; (8) `ServersFile`; and the proofs of each.

What would add most from here:

1. `GuardedSwitching`: `TransferGuard` in place of the free `held`, for what an open
   safety valve does after the switch it allowed.
