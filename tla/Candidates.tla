------------------------------ MODULE Candidates ------------------------------
(***************************************************************************)
(* Which servers may be chosen, and with which load: the server list and   *)
(* the utilisation figures Proton publishes, the two caches on disk, the   *)
(* filters Gluetun enforces, its protocol, and the tier of the account.    *)
(* Each reaches the run loop at its own pace; applyLogicals and applyLoads *)
(* put them together.                                                      *)
(*                                                                         *)
(* PORT_FORWARD_ONLY stands for all "only" filters of Gluetun; it is the   *)
(* one the program may also infer.  A server is a logical server with one  *)
(* machine of its own.  FILTER_VPN_TYPE is "auto".  The wider set that only  *)
(* the servers file gets (fileCandidates) is left out.                     *)
(***************************************************************************)
EXTENDS Integers

CONSTANTS
    Servers,
    Allowed,       \* servers the operator's own filters let through
    P2P,           \* servers that can forward a port
    Wireguard,     \* servers with a WireGuard key
    Plus,          \* servers of tier 2, the others are of tier 0
    Loads,         \* utilisations, in percent
    MaxLoad,       \* FILTER_MAX_LOAD
    Containers,    \* PORT_FORWARD_ONLY and VPN_PORT_FORWARDING the Gluetun container may have
    Protocols,     \* what VPN_TYPE of the Gluetun container can be
    FaultMixes,    \* which of "account", "list", "disk", "restart", "gluetunRestart",
                   \* "plan" and "maintenance" happen together in a behaviour
    MaxFaults,     \* BOUND on how many of these happen
    MaxTime        \* BOUND on how often Proton's figures change

ASSUME CandidatesAssumption ==
    /\ Allowed \subseteq Servers /\ P2P \subseteq Servers
    /\ Wireguard \subseteq Servers /\ Plus \subseteq Servers
    /\ Loads \subseteq 0..100 /\ Loads # {} /\ MaxLoad \in 1..100
    /\ Containers # {} /\ Containers \subseteq [only : BOOLEAN, forwarding : BOOLEAN]
    /\ Protocols # {} /\ Protocols \subseteq {"wireguard", "openvpn"}
    /\ MaxFaults \in Nat /\ MaxTime \in Nat

VARIABLES
    now,          \* how often Proton's figures have changed
    world,        \* Proton: whether each server is in service, and its load
    modified,     \* Proton: when the list was last modified
    plan,         \* Proton: the tier of the account
    gl,           \* Gluetun: its container, the filter it reports (a pin clears it), its protocol
    pc,           \* "down", "idle", "list", "requirements"
    listFile,     \* the cached list: rows, fetchedAt, and the time it was modified
    loadsFile,    \* the cached utilisation figures
    tierFile,     \* persisted: AccountTier
    latest,       \* e.latestLoads
    tier,         \* e.accountTier, Unknown when nil
    require,      \* e.requirements.PortForward
    reason,       \* e.portForwardReason
    abandoned,    \* e.portForwardInferenceAbandoned
    vpnType,      \* e.vpnType, "" before Gluetun was asked
    listModified, \* snapshot.Proton.ListLastModified
    loadRefresh,  \* snapshot.Proton.LastLoadRefresh
    candidates,   \* e.candidates, by hostname
    blocked,      \* e.blocked, by hostname
    faults        \* the kinds of fault that happen, and how many are left

proton == <<now, world, modified, plan>>
files  == <<listFile, loadsFile, tierFile>>
wants  == <<require, reason, abandoned, vpnType>>
sets   == <<candidates, blocked>>
shown  == <<listModified, loadRefresh>>
vars   == <<proton, gl, pc, files, latest, tier, wants, shown, sets, faults>>

Unknown == -1
Never   == -1
NoRows  == [s \in {} |-> [up |-> TRUE, load |-> 0, at |-> 0]]
NoList  == [rows |-> NoRows, at |-> Never, modified |-> Never]

Fault(kind) ==
    kind \in faults.kinds /\ faults.left > 0 /\ faults' = [faults EXCEPT !.left = @ - 1]

-----------------------------------------------------------------------------
(* catalog.Build, catalog.ApplyLoads, buildBlocked                          *)

TierOf(s) == IF s \in Plus THEN 2 ELSE 0

Usable(s, account, protocol) ==
    /\ account # Unknown => TierOf(s) <= account
    /\ protocol = "wireguard" => s \in Wireguard

\* Whether a row of the list survives the filters.
Survives(s, rows, required, account, protocol) ==
    /\ rows[s].up
    /\ s \in Allowed /\ rows[s].load <= MaxLoad
    /\ required => s \in P2P
    /\ Usable(s, account, protocol)

Build(rows, required, account, protocol) ==
    [s \in {s \in DOMAIN rows : Survives(s, rows, required, account, protocol)} |-> rows[s]]

\* The figures replace those of the list; what is out of service is dropped.
ApplyLoads(set, loads) ==
    [s \in {s \in DOMAIN set : s \in DOMAIN loads => loads[s].up} |->
        IF s \in DOMAIN loads THEN loads[s] ELSE set[s]]

Minus(set, other) == [s \in DOMAIN set \ DOMAIN other |-> set[s]]

-----------------------------------------------------------------------------
(* applyLogicals                                                            *)

\* Faulty variant: an inferred requirement is kept whatever it leaves.
GivesUpNothing(rows, required, why, account, protocol) == FALSE

\* An inferred requirement that no server meets is given up.
GivesUp(rows, required, why, account, protocol) ==
    /\ required /\ why = "VPN_PORT_FORWARDING"
    /\ DOMAIN Build(rows, TRUE, account, protocol) = {}

\* Faulty variant: what nothing but a requirement excludes keeps its old load.
BlockedUnrefreshed(rows, required, account, protocol, loads) ==
    Minus(Build(rows, FALSE, account, protocol), Build(rows, required, account, protocol))

BlockedBy(rows, required, account, protocol, loads) ==
    IF ~required THEN NoRows
    ELSE ApplyLoads(Minus(Build(rows, FALSE, account, protocol),
                          Build(rows, required, account, protocol)), loads)

\* The catalogue from a list, for the requirement, tier and protocol given.
ApplyLogicals(rows, required, why, account, protocol, loads) ==
    LET gives == GivesUp(rows, required, why, account, protocol)
        still == required /\ ~gives
    IN  /\ require' = still
        /\ reason' = IF gives THEN "" ELSE why
        /\ abandoned' = (abandoned \/ gives)
        /\ candidates' = ApplyLoads(Build(rows, still, account, protocol), loads)
        /\ blocked' = BlockedBy(rows, still, account, protocol, loads)

-----------------------------------------------------------------------------
Init ==
    /\ now = 0 /\ modified = 0
    /\ world \in [Servers -> [up : {TRUE}, load : Loads]]
    /\ plan \in {0, 2}
    /\ \E box \in Containers, protocol \in Protocols :
          gl = [container |-> box, only |-> box.only, protocol |-> protocol]
    /\ pc = "down"
    /\ listFile = NoList /\ loadsFile = [rows |-> NoRows, at |-> Never]
    /\ tierFile = Unknown /\ latest = NoRows /\ tier = Unknown
    /\ require = FALSE /\ reason = "" /\ abandoned = FALSE /\ vpnType = ""
    /\ listModified = Never /\ loadRefresh = Never
    /\ candidates = NoRows /\ blocked = NoRows
    /\ \E mix \in FaultMixes : faults = [kinds |-> mix, left |-> MaxFaults]

\* What Proton answers now.
Rows == [s \in Servers |-> [up |-> world[s].up, load |-> world[s].load, at |-> now]]

\* Saved, or the write failed, of which there is only a warning.
SavedOr(file, value) == (file' = value /\ UNCHANGED faults) \/ (Fault("disk") /\ file' = file)

\* New, loadCachedLogicals, applyCachedLoads: the list, and then the figures
\* that are newer than the list.
Start ==
    LET newer == loadsFile.at > listFile.at
        loads == IF newer THEN loadsFile.rows ELSE NoRows
    IN  /\ pc = "down" /\ pc' = "idle"
        /\ tier' = tierFile
        /\ vpnType' = "" /\ require' = FALSE /\ reason' = "" /\ abandoned' = FALSE
        /\ latest' = IF listFile = NoList THEN NoRows ELSE loads
        /\ candidates' = ApplyLoads(Build(listFile.rows, FALSE, tierFile, ""), loads)
        /\ blocked' = NoRows
        /\ listModified' = listFile.modified
        /\ loadRefresh' = IF newer /\ listFile # NoList THEN loadsFile.at ELSE Never
    /\ UNCHANGED proton /\ UNCHANGED files /\ UNCHANGED <<gl, faults>>

-----------------------------------------------------------------------------
(* refreshServerList.  The ticks come in any order, the first round of Run  *)
(* among them; a tick whose request fails is one that does not come.        *)

RefreshAccountInfo ==
    /\ pc = "idle" /\ pc' = "list"
    /\ \/ tier' = plan /\ (IF plan = tier THEN UNCHANGED <<tierFile, faults>>
                                          ELSE SavedOr(tierFile, plan))
       \/ Fault("account") /\ UNCHANGED <<tier, tierFile>>
    /\ UNCHANGED proton /\ UNCHANGED wants /\ UNCHANGED sets /\ UNCHANGED shown
    /\ UNCHANGED <<gl, listFile, loadsFile, latest>>

Refetched ==
    /\ ApplyLogicals(Rows, require, reason, tier, vpnType, latest)
    /\ SavedOr(listFile, [rows |-> Rows, at |-> now, modified |-> modified])
    /\ listModified' = modified /\ loadRefresh' = now
    /\ UNCHANGED vpnType

Unfetched == UNCHANGED wants /\ UNCHANGED sets /\ UNCHANGED shown /\ UNCHANGED listFile

\* A new list, no change since the last one (304), or no answer.
FetchList ==
    /\ pc = "list" /\ pc' = "idle"
    /\ \/ listModified # modified /\ Refetched
       \/ listModified = modified /\ Unfetched /\ UNCHANGED faults
       \/ Fault("list") /\ Unfetched
    /\ UNCHANGED proton /\ UNCHANGED <<gl, loadsFile, tierFile, latest, tier>>

\* Faulty variant: the figures are not kept for the next rebuild.
RefreshLoadsUnkept ==
    /\ pc = "idle" /\ DOMAIN candidates # {}
    /\ candidates' = ApplyLoads(candidates, Rows)
    /\ blocked' = ApplyLoads(blocked, Rows)
    /\ loadRefresh' = now
    /\ SavedOr(loadsFile, [rows |-> Rows, at |-> now])
    /\ UNCHANGED proton /\ UNCHANGED wants
    /\ UNCHANGED <<gl, pc, listFile, tierFile, latest, tier, listModified>>

RefreshLoads ==
    /\ pc = "idle" /\ DOMAIN candidates # {}
    /\ latest' = Rows
    /\ candidates' = ApplyLoads(candidates, Rows)
    /\ blocked' = ApplyLoads(blocked, Rows)
    /\ loadRefresh' = now
    /\ SavedOr(loadsFile, [rows |-> Rows, at |-> now])
    /\ UNCHANGED proton /\ UNCHANGED wants
    /\ UNCHANGED <<gl, pc, listFile, tierFile, tier, listModified>>

-----------------------------------------------------------------------------
(* checkGluetun, from one answer of Gluetun to the two updates              *)

\* rebuildFromCache, without a cached list a warning and nothing else.
Rebuild(required, why, protocol) ==
    IF listFile = NoList
    THEN require' = required /\ reason' = why /\ UNCHANGED abandoned /\ UNCHANGED sets
    ELSE ApplyLogicals(listFile.rows, required, why, tier, protocol, latest)

\* Faulty variant: the catalogue is not rebuilt for the protocol.
UpdateVPNTypeUnbuilt ==
    /\ pc = "idle" /\ pc' = "requirements" /\ vpnType' = gl.protocol
    /\ UNCHANGED <<require, reason, abandoned>> /\ UNCHANGED sets
    /\ UNCHANGED proton /\ UNCHANGED files /\ UNCHANGED shown
    /\ UNCHANGED <<gl, latest, tier, faults>>

UpdateVPNType ==
    /\ pc = "idle" /\ pc' = "requirements"
    /\ vpnType' = gl.protocol
    /\ IF vpnType = gl.protocol
       THEN UNCHANGED <<require, reason, abandoned>> /\ UNCHANGED sets
       ELSE Rebuild(require, reason, gl.protocol)
    /\ UNCHANGED proton /\ UNCHANGED files /\ UNCHANGED shown
    /\ UNCHANGED <<gl, latest, tier, faults>>

\* Faulty variant: what was given up is inferred again.
InferredAgain == gl.container.forwarding

Inferred == gl.container.forwarding /\ ~abandoned

\* Faulty variant: a filter Gluetun no longer reports is dropped.
RequiredNow == gl.only \/ Inferred

\* Requirements are added, never dropped: "off" is taken for our own pin.
Required == gl.only \/ Inferred \/ require

UpdateRequirements ==
    LET why == IF gl.only THEN "PORT_FORWARD_ONLY"
               ELSE IF Inferred /\ reason = "" THEN "VPN_PORT_FORWARDING" ELSE reason
    IN  /\ pc = "requirements" /\ pc' = "idle"
        /\ IF Required = require
           THEN reason' = why /\ UNCHANGED <<require, abandoned>> /\ UNCHANGED sets
           ELSE Rebuild(Required, why, vpnType)
    /\ UNCHANGED proton /\ UNCHANGED files /\ UNCHANGED shown
    /\ UNCHANGED <<gl, latest, tier, vpnType, faults>>

\* PinServer: the filters of Gluetun are cleared by every pin.  A pin may come
\* before its settings could be read: nothing that leads to one asks for them.
Pin(s) ==
    /\ pc = "idle" /\ s \in DOMAIN candidates
    /\ gl' = [gl EXCEPT !.only = FALSE]
    /\ UNCHANGED proton /\ UNCHANGED files /\ UNCHANGED wants /\ UNCHANGED sets
    /\ UNCHANGED shown /\ UNCHANGED <<pc, latest, tier, faults>>

-----------------------------------------------------------------------------
(* Everything else                                                          *)

engine == <<pc, files, latest, tier, wants, shown, sets>>

LoadChanges ==
    /\ now < MaxTime /\ now' = now + 1
    /\ \E s \in Servers, l \in Loads : l # world[s].load /\ world' = [world EXCEPT ![s].load = l]
    /\ UNCHANGED engine /\ UNCHANGED <<modified, plan, gl, faults>>

\* A server goes into maintenance or comes back, which modifies the list.
Maintenance ==
    /\ "maintenance" \in faults.kinds
    /\ now < MaxTime /\ now' = now + 1 /\ modified' = now'
    /\ \E s \in Servers : world' = [world EXCEPT ![s].up = ~@]
    /\ UNCHANGED engine /\ UNCHANGED <<plan, gl, faults>>

PlanChanges ==
    /\ Fault("plan") /\ plan' = 2 - plan
    /\ UNCHANGED engine /\ UNCHANGED <<now, world, modified, gl>>

GluetunRestarts ==
    /\ pc # "requirements" /\ Fault("gluetunRestart")
    /\ \E protocol \in Protocols :
          gl' = [gl EXCEPT !.only = gl.container.only, !.protocol = protocol]
    /\ UNCHANGED engine /\ UNCHANGED proton

Ends ==
    /\ pc # "down" /\ Fault("restart") /\ pc' = "down"
    /\ candidates' = NoRows /\ blocked' = NoRows
    /\ UNCHANGED proton /\ UNCHANGED files /\ UNCHANGED wants /\ UNCHANGED shown
    /\ UNCHANGED <<gl, latest, tier>>

Next ==
    \/ Start \/ RefreshAccountInfo \/ FetchList \/ RefreshLoads
    \/ UpdateVPNType \/ UpdateRequirements \/ \E s \in Servers : Pin(s)
    \/ LoadChanges \/ Maintenance \/ PlanChanges \/ GluetunRestarts \/ Ends

Spec == Init /\ [][Next]_vars

\* The container is started again, a call that began ends, and every ticker
\* fires again and again (select passes none over for ever).
LiveSpec ==
    /\ Spec /\ WF_vars(Start) /\ WF_vars(FetchList) /\ WF_vars(UpdateRequirements)
    /\ SF_vars(RefreshAccountInfo) /\ SF_vars(RefreshLoads) /\ SF_vars(UpdateVPNType)

-----------------------------------------------------------------------------
(* Correctness                                                              *)

\* Rows with figures of time t or before.
RowType(set, t) ==
    /\ DOMAIN set \subseteq Servers
    /\ \A s \in DOMAIN set : set[s] \in [up : BOOLEAN, load : Loads, at : 0..t]

\* Every variable has its type; in particular no candidate is out of service.
TypeOK ==
    /\ now \in 0..MaxTime /\ modified \in 0..now /\ plan \in {0, 2}
    /\ world \in [Servers -> [up : BOOLEAN, load : Loads]]
    /\ gl \in [container : Containers, only : BOOLEAN, protocol : Protocols]
    /\ pc \in {"down", "idle", "list", "requirements"}
    /\ \A set \in {listFile.rows, loadsFile.rows, latest, candidates, blocked} :
          RowType(set, now)
    /\ \A s \in DOMAIN candidates : candidates[s].up
    /\ {listFile.at, listFile.modified, loadsFile.at, listModified, loadRefresh} \subseteq Never..now
    /\ {tier, tierFile} \subseteq {Unknown, 0, 2}
    /\ require \in BOOLEAN /\ abandoned \in BOOLEAN
    /\ reason \in {"", "PORT_FORWARD_ONLY", "VPN_PORT_FORWARDING"}
    /\ vpnType \in Protocols \cup {""}
    /\ faults \in [kinds : FaultMixes, left : 0..MaxFaults]

\* None of these faults belongs to the behaviour.
Without(kinds) == faults.kinds \cap kinds = {}

\* A candidate can be connected to, as far as the program knows: it meets what
\* Gluetun enforces, supports the protocol and is within the account's tier,
\* in whatever order those become known and whichever rebuild comes last.  It
\* takes a tier that was known in time and a list that could be cached.
CandidatesAreUsable ==
    Without({"account", "plan", "disk"}) /\ pc \in {"idle", "requirements"} =>
        \A s \in DOMAIN candidates : (require => s \in P2P) /\ Usable(s, tier, vpnType)

\* The figures a server is ranked by never go back in time, whatever the
\* catalogue is rebuilt from ("A rebuild would otherwise revert every load to
\* whatever the last full fetch saw", Engine.latestLoads).  A list that could
\* not be cached is the exception: a rebuild then starts from an older one.
LoadsNeverGoBack ==
    [][Without({"disk"}) =>
          \A s \in DOMAIN candidates \cap DOMAIN candidates' : candidates'[s].at >= candidates[s].at]_vars

\* A server Gluetun cannot use is shown with figures as old as those of the
\* servers it is there to be compared with ("that comparison is meaningless if
\* one side is refreshed every few minutes while the other is frozen", applyLoads).
ComparisonIsFair ==
    \A s \in DOMAIN blocked, t \in DOMAIN candidates : blocked[s].at = candidates[t].at

\* A requirement that was given up does not come back as an inference, which
\* would start the same cycle on every health check (updateRequirements).
NoOscillation == abandoned /\ require => reason = "PORT_FORWARD_ONLY"

\* An inferred requirement is never the reason that there is no candidate:
\* without it, the list and the figures at hand would not leave one either.
\* That holds until a loads refresh takes a server out of service.
InferenceNeverStrands ==
    (/\ Without({"maintenance", "disk"}) /\ pc # "down"
     /\ require /\ reason = "VPN_PORT_FORWARDING" /\ DOMAIN candidates = {}) =>
        DOMAIN ApplyLoads(Build(listFile.rows, FALSE, tier, vpnType), latest) = {}

\* Once a health check has read the filter of Gluetun as on, every candidate
\* meets it, in that step and in all that follow, although our own pins clear it
\* there and later checks read it as off (updateRequirements): as long as the
\* program keeps running and can cache the list.
OperatorFilterIsMet ==
    [][LET read  == pc = "requirements" /\ pc' = "idle" /\ gl.only
           known == pc # "down" /\ reason = "PORT_FORWARD_ONLY"
       IN  (read \/ known) /\ pc' # "down" =>
              /\ reason' = "PORT_FORWARD_ONLY"
              /\ Without({"disk"}) => DOMAIN candidates' \subseteq P2P]_vars

\* A server of the list that the filters, the requirement, the tier and the
\* protocol all allow is a candidate in the end, however these came to be known.
Converges ==
    Without({"maintenance", "account", "plan", "disk"}) =>
        <>[](\A s \in DOMAIN listFile.rows :
                Survives(s, listFile.rows, require, tier, vpnType) => s \in DOMAIN candidates)

=============================================================================
