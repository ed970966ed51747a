-------------------------- MODULE CandidatesProofs --------------------------
(***************************************************************************)
(* Theorems about Candidates, for any servers, filters, containers,        *)
(* protocols and faults: what a candidate meets, whatever the catalogue    *)
(* is rebuilt from and in whatever order its inputs become known; that the *)
(* servers that are compared have figures of one age, which never go back; *)
(* that a requirement that was given up is not inferred again; that an     *)
(* inferred one never leaves no candidate; and that no server is missing.  *)
(***************************************************************************)
EXTENDS Candidates, TLAPS

Types ==
    /\ require \in BOOLEAN /\ abandoned \in BOOLEAN
    /\ gl \in [container : Containers, only : BOOLEAN, protocol : Protocols]
    /\ faults \in [kinds : FaultMixes, left : 0..MaxFaults]
    /\ pc \in {"down", "idle", "list", "requirements"}

\* Rows of one answer of Proton: none or all servers, with figures of one age.
AgeIs(set, t) == \A s \in DOMAIN set : set[s].at = t
Answered(rows) == DOMAIN rows \in {{}, Servers} /\ \E t : AgeIs(rows, t)

Shapes ==
    /\ Answered(listFile.rows) /\ Answered(loadsFile.rows) /\ Answered(latest)
    /\ DOMAIN candidates \subseteq Servers /\ DOMAIN blocked \subseteq Servers
    /\ \E t : AgeIs(candidates, t) /\ AgeIs(blocked, t)

\* What could be cached is cached: without a list there are no candidates, and
\* the tier on disk is the tier in use.
Cached ==
    Without({"disk"}) =>
        /\ DOMAIN listFile.rows = {} => DOMAIN candidates = {}
        /\ tier = tierFile

\* A requirement holds of every candidate.
RequirementIsMet ==
    Without({"disk"}) => (require => DOMAIN candidates \subseteq P2P)

\* The tier is known before the first candidate, and both are of one protocol.
TierIsMet ==
    Without({"account", "plan", "disk"}) =>
        /\ pc = "list" => tier = plan
        /\ DOMAIN listFile.rows # {} => tier = plan
        /\ tier \in {Unknown, plan}
        /\ \A s \in DOMAIN candidates : Usable(s, tier, vpnType)

\* A filter that was read as on is never given up.
FilterIsHeld == reason = "PORT_FORWARD_ONLY" => require

Inv ==
    /\ Types /\ Shapes /\ NoOscillation /\ Cached /\ RequirementIsMet /\ TierIsMet
    /\ FilterIsHeld

-----------------------------------------------------------------------------
(* The operators the catalogue is made with                                 *)

LEMMA BuildIs ==
    ASSUME NEW rows, NEW required, NEW account, NEW protocol
    PROVE  LET built == Build(rows, required, account, protocol)
           IN  /\ DOMAIN built \subseteq DOMAIN rows
               /\ \A s \in DOMAIN built :
                     /\ built[s] = rows[s]
                     /\ required => s \in P2P
                     /\ Usable(s, account, protocol)
BY DEF Build, Survives

LEMMA ApplyLoadsIs ==
    ASSUME NEW set, NEW loads
    PROVE  LET applied == ApplyLoads(set, loads)
           IN  /\ DOMAIN applied \subseteq DOMAIN set
               /\ \A s \in DOMAIN applied : applied[s] = IF s \in DOMAIN loads THEN loads[s] ELSE set[s]
BY DEF ApplyLoads

LEMMA MinusIs ==
    ASSUME NEW set, NEW other
    PROVE  /\ DOMAIN Minus(set, other) \subseteq DOMAIN set
           /\ \A s \in DOMAIN Minus(set, other) : Minus(set, other)[s] = set[s]
BY DEF Minus

\* Figures of one age stay of one age when an answer is laid over them.
LEMMA LoadsAge ==
    ASSUME NEW set, NEW loads, DOMAIN set \subseteq Servers, DOMAIN loads = Servers,
           NEW u, AgeIs(loads, u)
    PROVE  AgeIs(ApplyLoads(set, loads), u)
<1> DEFINE applied == ApplyLoads(set, loads)
<1>1. \A s \in DOMAIN applied : s \in Servers /\ applied[s] = loads[s]
  BY ApplyLoadsIs
<1> HIDE DEF applied
<1>2. AgeIs(applied, u)
  BY <1>1 DEF AgeIs
<1> QED
  BY <1>2 DEF applied

LEMMA NoLoadsAge ==
    ASSUME NEW set, NEW loads, DOMAIN loads = {}, NEW t, AgeIs(set, t)
    PROVE  AgeIs(ApplyLoads(set, loads), t)
<1> DEFINE applied == ApplyLoads(set, loads)
<1>1. \A s \in DOMAIN applied : s \in DOMAIN set /\ applied[s] = set[s]
  BY ApplyLoadsIs
<1> HIDE DEF applied
<1>2. AgeIs(applied, t)
  BY <1>1 DEF AgeIs
<1> QED
  BY <1>2 DEF applied

LEMMA LoadsOfOneAge ==
    ASSUME NEW set, NEW other, NEW loads, Answered(loads),
           DOMAIN set \subseteq Servers, DOMAIN other \subseteq Servers,
           NEW t, AgeIs(set, t), AgeIs(other, t)
    PROVE  \E u : AgeIs(ApplyLoads(set, loads), u) /\ AgeIs(ApplyLoads(other, loads), u)
<1>1. CASE DOMAIN loads = {}
  BY <1>1, NoLoadsAge
<1>2. CASE DOMAIN loads = Servers
  BY <1>2, LoadsAge DEF Answered
<1> QED
  BY <1>1, <1>2 DEF Answered

LEMMA NoRowsAnswered == DOMAIN NoRows = {} /\ Answered(NoRows) /\ \A t : AgeIs(NoRows, t)
BY DEF NoRows, Answered, AgeIs

LEMMA RowsAnswered == DOMAIN Rows = Servers /\ Answered(Rows)
<1>1. DOMAIN Rows = Servers /\ \A s \in DOMAIN Rows : Rows[s].at = now
  BY DEF Rows
<1> QED
  BY <1>1 DEF Answered, AgeIs

\* The sets of a rebuild.
SetsFit ==
    /\ DOMAIN candidates' \subseteq Servers /\ DOMAIN blocked' \subseteq Servers
    /\ \E t : AgeIs(candidates', t) /\ AgeIs(blocked', t)

LEMMA BuildAge ==
    ASSUME NEW rows, NEW required, NEW account, NEW protocol, NEW t, AgeIs(rows, t), Answered(rows)
    PROVE  AgeIs(Build(rows, required, account, protocol), t)
           /\ DOMAIN Build(rows, required, account, protocol) \subseteq Servers
<1> DEFINE built == Build(rows, required, account, protocol)
<1>1. \A s \in DOMAIN built : s \in DOMAIN rows /\ built[s] = rows[s]
  BY BuildIs
<1> HIDE DEF built
<1>2. AgeIs(built, t) /\ DOMAIN built \subseteq Servers
  BY <1>1 DEF AgeIs, Answered
<1> QED
  BY <1>2 DEF built

LEMMA MinusAge ==
    ASSUME NEW set, NEW other, NEW t, AgeIs(set, t), DOMAIN set \subseteq Servers
    PROVE  AgeIs(Minus(set, other), t) /\ DOMAIN Minus(set, other) \subseteq Servers
<1> DEFINE rest == Minus(set, other)
<1>1. \A s \in DOMAIN rest : s \in DOMAIN set /\ rest[s] = set[s]
  BY MinusIs
<1> HIDE DEF rest
<1>2. AgeIs(rest, t) /\ DOMAIN rest \subseteq Servers
  BY <1>1 DEF AgeIs
<1> QED
  BY <1>2 DEF rest

LEMMA ApplyLogicalsFits ==
    ASSUME NEW rows, NEW required, NEW why, NEW account, NEW protocol, NEW loads,
           ApplyLogicals(rows, required, why, account, protocol, loads),
           Answered(rows), Answered(loads)
    PROVE  SetsFit
<1> DEFINE still == required /\ ~GivesUp(rows, required, why, account, protocol)
           built == Build(rows, still, account, protocol)
           rest  == Minus(Build(rows, FALSE, account, protocol), built)
<1>1. PICK t : AgeIs(rows, t)
  BY DEF Answered
<1>2. DOMAIN built \subseteq Servers /\ AgeIs(built, t)
  BY <1>1, BuildAge
<1>3. DOMAIN rest \subseteq Servers /\ AgeIs(rest, t)
  BY <1>1, BuildAge, MinusAge
<1>4. candidates' = ApplyLoads(built, loads) /\ blocked' = BlockedBy(rows, still, account, protocol, loads)
  BY DEF ApplyLogicals
<1>5. blocked' = NoRows \/ blocked' = ApplyLoads(rest, loads)
  BY <1>4 DEF BlockedBy
<1> HIDE DEF built, rest, still
<1>6. \E u : AgeIs(ApplyLoads(built, loads), u) /\ AgeIs(ApplyLoads(rest, loads), u)
  BY <1>2, <1>3, LoadsOfOneAge
<1>7. DOMAIN candidates' \subseteq Servers /\ DOMAIN blocked' \subseteq Servers
  BY <1>2, <1>3, <1>4, <1>5, ApplyLoadsIs, NoRowsAnswered
<1> QED
  BY <1>4, <1>5, <1>6, <1>7, NoRowsAnswered DEF SetsFit

LEMMA ApplyLogicalsMeets ==
    ASSUME NEW rows, NEW required \in BOOLEAN, NEW why, NEW account, NEW protocol, NEW loads,
           abandoned \in BOOLEAN,
           ApplyLogicals(rows, required, why, account, protocol, loads)
    PROVE  /\ require' \in BOOLEAN /\ abandoned' \in BOOLEAN
           /\ require' => required /\ reason' = why /\ (abandoned' => abandoned)
           /\ ~required => ~require' /\ reason' = why
           /\ why # "VPN_PORT_FORWARDING" => require' = required /\ reason' = why
           /\ DOMAIN candidates' \subseteq DOMAIN rows
           /\ require' => DOMAIN candidates' \subseteq P2P
           /\ \A s \in DOMAIN candidates' : Usable(s, account, protocol)
<1> DEFINE gives == GivesUp(rows, required, why, account, protocol)
           still == required /\ ~gives
           built == Build(rows, still, account, protocol)
<1>1. /\ require' = still /\ reason' = (IF gives THEN "" ELSE why) /\ abandoned' = (abandoned \/ gives)
      /\ candidates' = ApplyLoads(built, loads)
  BY DEF ApplyLogicals
<1>2. gives => required /\ why = "VPN_PORT_FORWARDING"
  BY DEF GivesUp
<1>3. gives \in BOOLEAN /\ still \in BOOLEAN
  BY DEF GivesUp
<1>4. DOMAIN candidates' \subseteq DOMAIN built
  BY <1>1, ApplyLoadsIs
<1>5. /\ DOMAIN built \subseteq DOMAIN rows
      /\ \A s \in DOMAIN built : (still => s \in P2P) /\ Usable(s, account, protocol)
  BY BuildIs
<1> HIDE DEF gives, built
<1> QED
  BY <1>1, <1>2, <1>3, <1>4, <1>5

-----------------------------------------------------------------------------
(* The steps                                                                *)

KindsStay == faults' \in [kinds : FaultMixes, left : 0..MaxFaults] /\ faults'.kinds = faults.kinds

LEMMA UnchangedFaults == Types /\ UNCHANGED faults => KindsStay
BY DEF Types, KindsStay

LEMMA FaultKeeps == ASSUME Types, NEW kind, Fault(kind) PROVE KindsStay /\ kind \in faults.kinds
BY CandidatesAssumption DEF Types, Fault, KindsStay

LEMMA SameKinds == ASSUME KindsStay, NEW kinds PROVE Without(kinds)' <=> Without(kinds)
BY DEF KindsStay, Without

LEMMA InitInv == Init => Inv
<1> SUFFICES ASSUME Init PROVE Inv
  OBVIOUS
<1>1. PICK mix \in FaultMixes : faults = [kinds |-> mix, left |-> MaxFaults]
  BY DEF Init
<1>2. PICK box \in Containers, protocol \in Protocols :
         gl = [container |-> box, only |-> box.only, protocol |-> protocol]
  BY DEF Init
<1>3. box.only \in BOOLEAN
  BY CandidatesAssumption
<1>4. faults \in [kinds : FaultMixes, left : 0..MaxFaults]
  BY <1>1, CandidatesAssumption
<1>5. Types
  BY <1>2, <1>3, <1>4 DEF Init, Types
<1>6. /\ candidates = NoRows /\ blocked = NoRows /\ latest = NoRows
      /\ listFile.rows = NoRows /\ loadsFile.rows = NoRows
  BY DEF Init, NoList
<1>7. Shapes
  BY <1>6, NoRowsAnswered DEF Shapes
<1>8. NoOscillation /\ Cached /\ RequirementIsMet
  BY <1>6, NoRowsAnswered DEF Init, NoOscillation, Cached, RequirementIsMet
<1>9. TierIsMet
  BY <1>6, NoRowsAnswered DEF Init, TierIsMet
<1>10. FilterIsHeld
  BY DEF Init, FilterIsHeld
<1> QED
  BY <1>5, <1>7, <1>8, <1>9, <1>10 DEF Inv

LEMMA StartInv == Inv /\ Start => Inv'
<1> SUFFICES ASSUME Inv, Start PROVE Inv'
  OBVIOUS
<1> DEFINE loads == IF loadsFile.at > listFile.at THEN loadsFile.rows ELSE NoRows
           built == Build(listFile.rows, FALSE, tierFile, "")
<1>1. /\ pc = "down" /\ pc' = "idle" /\ tier' = tierFile
      /\ vpnType' = "" /\ require' = FALSE /\ reason' = "" /\ abandoned' = FALSE
      /\ latest' \in {NoRows, loads} /\ candidates' = ApplyLoads(built, loads) /\ blocked' = NoRows
      /\ UNCHANGED <<plan, gl, listFile, loadsFile, tierFile, faults>>
  BY DEF Start, proton, files
<1>2. KindsStay
  BY <1>1, UnchangedFaults DEF Inv
<1>3. Types'
  BY <1>1, <1>2 DEF Inv, Types, KindsStay
<1>4. Answered(listFile.rows) /\ Answered(loads)
  BY NoRowsAnswered DEF Inv, Shapes
<1>5. DOMAIN built \subseteq DOMAIN listFile.rows /\ \A s \in DOMAIN built : Usable(s, tierFile, "")
  BY BuildIs
<1>6. DOMAIN candidates' \subseteq DOMAIN built
  BY <1>1, ApplyLoadsIs
<1>7. Shapes'
  <2>1. PICK t : AgeIs(built, t)
    BY <1>4, BuildAge DEF Answered
  <2>2. DOMAIN built \subseteq Servers /\ DOMAIN NoRows \subseteq Servers /\ AgeIs(NoRows, t)
    BY <1>4, <1>5, NoRowsAnswered DEF Answered
  <2> HIDE DEF built, loads
  <2>3. \E u : AgeIs(ApplyLoads(built, loads), u)
    BY <1>4, <2>1, <2>2, LoadsOfOneAge
  <2>4. \E u : AgeIs(candidates', u) /\ AgeIs(blocked', u)
    BY <1>1, <2>3, NoRowsAnswered
  <2>5. DOMAIN candidates' \subseteq Servers /\ DOMAIN blocked' \subseteq Servers
    BY <1>1, <1>6, <2>2, NoRowsAnswered
  <2>6. Answered(latest')
    BY <1>1, <1>4, NoRowsAnswered
  <2> QED
    BY <1>1, <2>4, <2>5, <2>6 DEF Inv, Shapes
<1>8. NoOscillation' /\ RequirementIsMet'
  BY <1>1 DEF NoOscillation, RequirementIsMet
<1>9. Cached'
  BY <1>1, <1>2, <1>5, <1>6, SameKinds DEF Cached
<1>10. TierIsMet'
  <2> SUFFICES ASSUME Without({"account", "plan", "disk"})'
               PROVE  /\ DOMAIN listFile.rows # {} => tierFile = plan
                      /\ tierFile \in {Unknown, plan}
                      /\ \A s \in DOMAIN candidates' : Usable(s, tierFile, "")
    BY <1>1 DEF TierIsMet
  <2>1. Without({"account", "plan", "disk"})
    BY <1>2, SameKinds
  <2>2. Without({"disk"})
    BY <2>1 DEF Without
  <2>3. tier = tierFile
    BY <2>2 DEF Inv, Cached
  <2> QED
    BY <2>1, <2>3, <1>5, <1>6 DEF Inv, TierIsMet
<1>11. FilterIsHeld'
  BY <1>1 DEF FilterIsHeld
<1> QED
  BY <1>3, <1>7, <1>8, <1>9, <1>10, <1>11 DEF Inv

LEMMA AccountInv == Inv /\ RefreshAccountInfo => Inv'
<1> SUFFICES ASSUME Inv, RefreshAccountInfo PROVE Inv'
  OBVIOUS
<1>1. /\ pc = "idle" /\ pc' = "list"
      /\ UNCHANGED <<plan, require, reason, abandoned, vpnType, candidates, blocked, gl, listFile, loadsFile, latest>>
  BY DEF RefreshAccountInfo, proton, wants, sets
<1>2. /\ KindsStay
      /\ \/ tier' = plan /\ (tierFile' = plan \/ (tierFile' = tierFile /\ (plan = tier \/ ~Without({"disk"}))))
         \/ UNCHANGED <<tier, tierFile>> /\ ~Without({"account"})
  <2>1. CASE tier' = plan /\ plan = tier /\ UNCHANGED <<tierFile, faults>>
    BY <2>1, UnchangedFaults DEF Inv
  <2>2. CASE tier' = plan /\ SavedOr(tierFile, plan)
    BY <2>2, UnchangedFaults, FaultKeeps DEF SavedOr, Inv, Without
  <2>3. CASE Fault("account") /\ UNCHANGED <<tier, tierFile>>
    BY <2>3, FaultKeeps DEF Inv, Without
  <2> QED
    BY <2>1, <2>2, <2>3 DEF RefreshAccountInfo
<1>3. Types' /\ Shapes' /\ NoOscillation'
  BY <1>1, <1>2 DEF Inv, Types, KindsStay, Shapes, NoOscillation
<1>4. Cached' /\ RequirementIsMet'
  BY <1>1, <1>2, SameKinds DEF Inv, Cached, RequirementIsMet
<1>5. TierIsMet'
  <2> SUFFICES ASSUME Without({"account", "plan", "disk"})'
               PROVE  tier' = plan /\ \A s \in DOMAIN candidates : Usable(s, tier', vpnType)
    BY <1>1 DEF TierIsMet
  <2>1. Without({"account", "plan", "disk"})
    BY <1>2, SameKinds
  <2>2. Without({"disk"}) /\ Without({"account"})
    BY <2>1 DEF Without
  <2>3. tier' = plan
    BY <1>2, <2>2
  <2>4. DOMAIN candidates # {} => tier = plan
    BY <2>1, <2>2 DEF Inv, Cached, TierIsMet
  <2>5. \A s \in DOMAIN candidates : Usable(s, tier, vpnType)
    BY <2>1 DEF Inv, TierIsMet
  <2> QED
    BY <2>3, <2>4, <2>5
<1>6. FilterIsHeld'
  BY <1>1, <1>2, SameKinds DEF Inv, FilterIsHeld
<1> QED
  BY <1>3, <1>4, <1>5, <1>6 DEF Inv

\* A rebuild gives up an inferred requirement, never the filter.
LEMMA ApplyLogicalsHolds ==
    ASSUME NEW rows, NEW required, NEW why, NEW account, NEW protocol, NEW loads,
           ApplyLogicals(rows, required, why, account, protocol, loads),
           why = "PORT_FORWARD_ONLY" => required
    PROVE  FilterIsHeld'
<1>1. why = "PORT_FORWARD_ONLY" => ~GivesUp(rows, required, why, account, protocol)
  BY DEF GivesUp
<1> QED
  BY <1>1 DEF ApplyLogicals, FilterIsHeld

\* A rebuild that leaves the protocol and the requirement to what they were.
LEMMA FetchInv == Inv /\ FetchList => Inv'
<1> SUFFICES ASSUME Inv, FetchList PROVE Inv'
  OBVIOUS
<1>1. /\ pc = "list" /\ pc' = "idle"
      /\ UNCHANGED <<plan, gl, loadsFile, tierFile, latest, tier, vpnType>>
  BY DEF FetchList, proton, Refetched, Unfetched, wants
<1>2. CASE Unfetched /\ (UNCHANGED faults \/ Fault("list"))
  <2>1. KindsStay /\ UNCHANGED <<require, reason, abandoned, candidates, blocked, listFile>>
    BY <1>2, UnchangedFaults, FaultKeeps DEF Unfetched, wants, sets, Inv
  <2>2. Types' /\ Shapes' /\ NoOscillation'
    BY <1>1, <2>1 DEF Inv, Types, KindsStay, Shapes, NoOscillation
  <2>3. Cached' /\ RequirementIsMet' /\ TierIsMet'
    BY <1>1, <2>1, SameKinds DEF Inv, Cached, RequirementIsMet, TierIsMet
  <2>4. FilterIsHeld'
    BY <1>1, <2>1, SameKinds DEF Inv, FilterIsHeld
  <2> QED
    BY <2>2, <2>3, <2>4 DEF Inv
<1>3. CASE Refetched
  <2>1. /\ ApplyLogicals(Rows, require, reason, tier, vpnType, latest)
        /\ SavedOr(listFile, [rows |-> Rows, at |-> now, modified |-> modified])
    BY <1>3 DEF Refetched
  <2>2. KindsStay /\ (listFile'.rows = Rows \/ (listFile' = listFile /\ ~Without({"disk"})))
    BY <2>1, UnchangedFaults, FaultKeeps DEF SavedOr, Inv, Without
  <2>3. require \in BOOLEAN /\ abandoned \in BOOLEAN
    BY DEF Inv, Types
  <2>4. /\ require' \in BOOLEAN /\ abandoned' \in BOOLEAN
        /\ require' => require /\ reason' = reason /\ (abandoned' => abandoned)
        /\ ~require => ~require' /\ reason' = reason
        /\ reason # "VPN_PORT_FORWARDING" => require' = require /\ reason' = reason
        /\ DOMAIN candidates' \subseteq DOMAIN Rows
        /\ require' => DOMAIN candidates' \subseteq P2P
        /\ \A s \in DOMAIN candidates' : Usable(s, tier, vpnType)
    BY <2>1, <2>3, ApplyLogicalsMeets
  <2>5. SetsFit /\ Answered(listFile'.rows)
    BY <2>1, <2>2, ApplyLogicalsFits, RowsAnswered DEF Inv, Shapes
  <2>6. Types'
    BY <1>1, <2>2, <2>4 DEF Inv, Types, KindsStay
  <2>7. Shapes'
    BY <1>1, <2>5 DEF Inv, Shapes, SetsFit
  <2>8. NoOscillation' /\ RequirementIsMet'
    BY <2>2, <2>4 DEF Inv, NoOscillation, RequirementIsMet
  <2>9. Cached'
    BY <1>1, <2>2, <2>4, SameKinds DEF Inv, Cached
  <2>10. TierIsMet'
    <3> SUFFICES ASSUME Without({"account", "plan", "disk"})'
                 PROVE  tier = plan /\ \A s \in DOMAIN candidates' : Usable(s, tier, vpnType)
      BY <1>1 DEF TierIsMet
    <3> QED
      BY <1>1, <2>2, <2>4, SameKinds DEF Inv, TierIsMet
  <2>11. FilterIsHeld'
    BY <2>1, ApplyLogicalsHolds DEF Inv, FilterIsHeld
  <2> QED
    BY <2>6, <2>7, <2>8, <2>9, <2>10, <2>11 DEF Inv
<1> QED
  BY <1>2, <1>3 DEF FetchList

LEMMA LoadsInv == Inv /\ RefreshLoads => Inv'
<1> SUFFICES ASSUME Inv, RefreshLoads PROVE Inv'
  OBVIOUS
<1>1. /\ latest' = Rows /\ candidates' = ApplyLoads(candidates, Rows) /\ blocked' = ApplyLoads(blocked, Rows)
      /\ SavedOr(loadsFile, [rows |-> Rows, at |-> now])
      /\ UNCHANGED <<plan, require, reason, abandoned, vpnType, gl, pc, listFile, tierFile, tier>>
  BY DEF RefreshLoads, proton, wants
<1>2. KindsStay /\ (loadsFile'.rows = Rows \/ loadsFile' = loadsFile)
  BY <1>1, UnchangedFaults, FaultKeeps DEF SavedOr, Inv
<1>3. DOMAIN candidates' \subseteq DOMAIN candidates /\ DOMAIN blocked' \subseteq DOMAIN blocked
  BY <1>1, ApplyLoadsIs
<1>4. \E u : AgeIs(candidates', u) /\ AgeIs(blocked', u)
  BY <1>1, LoadsOfOneAge, RowsAnswered DEF Inv, Shapes
<1>5. Answered(latest') /\ Answered(loadsFile'.rows)
  BY <1>1, <1>2, RowsAnswered DEF Inv, Shapes
<1>6. Types' /\ NoOscillation'
  BY <1>1, <1>2 DEF Inv, Types, KindsStay, NoOscillation
<1>7. Shapes'
  BY <1>1, <1>3, <1>4, <1>5 DEF Inv, Shapes
<1>8. Cached' /\ RequirementIsMet' /\ TierIsMet'
  BY <1>1, <1>2, <1>3, SameKinds DEF Inv, Cached, RequirementIsMet, TierIsMet
<1>9. FilterIsHeld'
  BY <1>1, <1>2, SameKinds DEF Inv, FilterIsHeld
<1> QED
  BY <1>6, <1>7, <1>8, <1>9 DEF Inv

\* What a rebuild from the cached list leaves, without one nothing being touched.
LEMMA RebuildMeets ==
    ASSUME Inv, NEW required \in BOOLEAN, NEW why, NEW protocol, Rebuild(required, why, protocol)
    PROVE  /\ SetsFit /\ require' \in BOOLEAN /\ abandoned' \in BOOLEAN
           /\ require' => required /\ reason' = why /\ (abandoned' => abandoned)
           /\ why # "VPN_PORT_FORWARDING" => require' = required /\ reason' = why
           /\ ~required => ~require' /\ reason' = why
           /\ Without({"disk"}) =>
                 /\ DOMAIN listFile.rows = {} => DOMAIN candidates' = {}
                 /\ require' => DOMAIN candidates' \subseteq P2P
                 /\ \A s \in DOMAIN candidates' : Usable(s, tier, protocol)
<1>1. CASE listFile = NoList
  <2>1. /\ require' = required /\ reason' = why /\ abandoned' = abandoned
        /\ candidates' = candidates /\ blocked' = blocked
    BY <1>1 DEF Rebuild, sets
  <2>2. DOMAIN listFile.rows = {}
    BY <1>1, NoRowsAnswered DEF NoList
  <2>3. Without({"disk"}) => DOMAIN candidates' = {}
    BY <2>1, <2>2 DEF Inv, Cached
  <2>4. SetsFit
    BY <2>1 DEF Inv, Shapes, SetsFit
  <2>5. abandoned \in BOOLEAN
    BY DEF Inv, Types
  <2> QED
    BY <2>1, <2>3, <2>4, <2>5
<1>2. CASE listFile # NoList
  <2>1. ApplyLogicals(listFile.rows, required, why, tier, protocol, latest)
    BY <1>2 DEF Rebuild
  <2>2. Answered(listFile.rows) /\ Answered(latest) /\ abandoned \in BOOLEAN
    BY DEF Inv, Shapes, Types
  <2>3. SetsFit
    BY <2>1, <2>2, ApplyLogicalsFits
  <2>4. /\ require' \in BOOLEAN /\ abandoned' \in BOOLEAN
        /\ require' => required /\ reason' = why /\ (abandoned' => abandoned)
        /\ ~required => ~require' /\ reason' = why
        /\ why # "VPN_PORT_FORWARDING" => require' = required /\ reason' = why
        /\ DOMAIN candidates' \subseteq DOMAIN listFile.rows
        /\ require' => DOMAIN candidates' \subseteq P2P
        /\ \A s \in DOMAIN candidates' : Usable(s, tier, protocol)
    BY <2>1, <2>2, ApplyLogicalsMeets
  <2> QED
    BY <2>3, <2>4
<1> QED
  BY <1>1, <1>2

LEMMA RebuildHolds ==
    ASSUME NEW required, NEW why, NEW protocol, Rebuild(required, why, protocol),
           why = "PORT_FORWARD_ONLY" => required
    PROVE  FilterIsHeld'
<1>1. CASE listFile = NoList
  BY <1>1 DEF Rebuild, FilterIsHeld
<1>2. CASE listFile # NoList
  BY <1>2, ApplyLogicalsHolds DEF Rebuild
<1> QED
  BY <1>1, <1>2

LEMMA VPNTypeInv == Inv /\ UpdateVPNType => Inv'
<1> SUFFICES ASSUME Inv, UpdateVPNType PROVE Inv'
  OBVIOUS
<1>1. /\ pc = "idle" /\ pc' = "requirements" /\ vpnType' = gl.protocol
      /\ UNCHANGED <<plan, gl, listFile, loadsFile, tierFile, latest, tier, faults>>
  BY DEF UpdateVPNType, proton, files
<1>2. KindsStay /\ vpnType' # ""
  BY <1>1, UnchangedFaults, CandidatesAssumption DEF Inv, Types
<1>3. CASE vpnType = gl.protocol
  <2>1. UNCHANGED <<require, reason, abandoned, candidates, blocked, vpnType>>
    BY <1>1, <1>3 DEF UpdateVPNType, sets
  <2>2. Types' /\ Shapes' /\ NoOscillation'
    BY <1>1, <1>2, <2>1 DEF Inv, Types, KindsStay, Shapes, NoOscillation
  <2>3. Cached' /\ RequirementIsMet' /\ TierIsMet'
    BY <1>1, <1>2, <2>1, SameKinds DEF Inv, Cached, RequirementIsMet, TierIsMet
  <2>4. FilterIsHeld'
    BY <1>1, <1>2, <2>1, SameKinds DEF Inv, FilterIsHeld
  <2> QED
    BY <2>2, <2>3, <2>4 DEF Inv
<1>4. CASE vpnType # gl.protocol
  <2>1. Rebuild(require, reason, gl.protocol) /\ require \in BOOLEAN
    BY <1>4 DEF UpdateVPNType, Inv, Types
  <2>2. /\ SetsFit /\ require' \in BOOLEAN /\ abandoned' \in BOOLEAN
        /\ require' => require /\ reason' = reason /\ (abandoned' => abandoned)
        /\ reason # "VPN_PORT_FORWARDING" => require' = require /\ reason' = reason
        /\ ~require => ~require' /\ reason' = reason
        /\ Without({"disk"}) =>
              /\ DOMAIN listFile.rows = {} => DOMAIN candidates' = {}
              /\ require' => DOMAIN candidates' \subseteq P2P
              /\ \A s \in DOMAIN candidates' : Usable(s, tier, gl.protocol)
    BY <2>1, RebuildMeets
  <2>3. Types'
    BY <1>1, <1>2, <2>2 DEF Inv, Types, KindsStay
  <2>4. Shapes'
    BY <1>1, <2>2 DEF Inv, Shapes, SetsFit
  <2>5. NoOscillation'
    BY <2>2 DEF Inv, NoOscillation
  <2>6. Cached' /\ RequirementIsMet'
    BY <1>1, <1>2, <2>2, SameKinds DEF Inv, Cached, RequirementIsMet
  <2>7. TierIsMet'
    <3> SUFFICES ASSUME Without({"account", "plan", "disk"})'
                 PROVE  /\ DOMAIN listFile.rows # {} => tier = plan
                        /\ tier \in {Unknown, plan}
                        /\ \A s \in DOMAIN candidates' : Usable(s, tier, gl.protocol)
      BY <1>1 DEF TierIsMet
    <3>1. Without({"account", "plan", "disk"})
      BY <1>2, SameKinds
    <3>2. Without({"disk"})
      BY <3>1 DEF Without
    <3> QED
      BY <2>2, <3>1, <3>2 DEF Inv, TierIsMet
  <2>8. FilterIsHeld'
    BY <2>1, RebuildHolds DEF Inv, FilterIsHeld
  <2> QED
    BY <2>3, <2>4, <2>5, <2>6, <2>7, <2>8 DEF Inv
<1> QED
  BY <1>3, <1>4

LEMMA RequirementsInv == Inv /\ UpdateRequirements => Inv'
<1> SUFFICES ASSUME Inv, UpdateRequirements PROVE Inv'
  OBVIOUS
<1> DEFINE why == IF gl.only THEN "PORT_FORWARD_ONLY"
                  ELSE IF Inferred /\ reason = "" THEN "VPN_PORT_FORWARDING" ELSE reason
<1>1. /\ pc = "requirements" /\ pc' = "idle"
      /\ UNCHANGED <<plan, gl, listFile, loadsFile, tierFile, latest, tier, vpnType, faults>>
  BY DEF UpdateRequirements, proton, files
<1>2. KindsStay /\ require \in BOOLEAN /\ abandoned \in BOOLEAN /\ gl.only \in BOOLEAN
  BY <1>1, UnchangedFaults DEF Inv, Types
<1>3. /\ abandoned /\ require => reason = "PORT_FORWARD_ONLY"
      /\ abandoned => ~Inferred
  BY DEF Inv, NoOscillation, Inferred
<1>4. reason = "PORT_FORWARD_ONLY" => require
  BY DEF Inv, FilterIsHeld
<1>5. CASE Required = require
  <2>1. reason' = why /\ UNCHANGED <<require, abandoned, candidates, blocked>>
    BY <1>5 DEF UpdateRequirements, sets
  <2>2. Types' /\ Shapes'
    BY <1>1, <1>2, <2>1 DEF Inv, Types, KindsStay, Shapes
  <2>3. NoOscillation'
    BY <1>3, <2>1 DEF NoOscillation
  <2>4. Cached' /\ RequirementIsMet' /\ TierIsMet'
    BY <1>1, <1>2, <2>1, SameKinds DEF Inv, Cached, RequirementIsMet, TierIsMet
  <2>5. FilterIsHeld'
    <3>1. gl.only => require
      BY <1>2, <1>5 DEF Required
    <3> QED
      BY <1>4, <2>1, <3>1 DEF FilterIsHeld
  <2> QED
    BY <2>2, <2>3, <2>4, <2>5 DEF Inv
<1>6. CASE Required # require
  <2>1. Rebuild(TRUE, why, vpnType) /\ ~require /\ (gl.only \/ Inferred)
    BY <1>2, <1>6 DEF UpdateRequirements, Required
  <2> HIDE DEF why
  <2>2. /\ SetsFit /\ require' \in BOOLEAN /\ abandoned' \in BOOLEAN
        /\ require' => reason' = why /\ (abandoned' => abandoned)
        /\ why # "VPN_PORT_FORWARDING" => require' = TRUE /\ reason' = why
        /\ Without({"disk"}) =>
              /\ DOMAIN listFile.rows = {} => DOMAIN candidates' = {}
              /\ require' => DOMAIN candidates' \subseteq P2P
              /\ \A s \in DOMAIN candidates' : Usable(s, tier, vpnType)
    BY <2>1, RebuildMeets
  <2>3. gl.only => why = "PORT_FORWARD_ONLY"
    BY DEF why
  <2>4. Types'
    BY <1>1, <1>2, <2>2 DEF Inv, Types, KindsStay
  <2>5. Shapes'
    BY <1>1, <2>2 DEF Inv, Shapes, SetsFit
  <2>6. NoOscillation'
    BY <1>3, <2>1, <2>2, <2>3 DEF NoOscillation
  <2>7. Cached' /\ RequirementIsMet'
    BY <1>1, <1>2, <2>2, SameKinds DEF Inv, Cached, RequirementIsMet
  <2>8. TierIsMet'
    <3> SUFFICES ASSUME Without({"account", "plan", "disk"})'
                 PROVE  /\ DOMAIN listFile.rows # {} => tier = plan
                        /\ tier \in {Unknown, plan}
                        /\ \A s \in DOMAIN candidates' : Usable(s, tier, vpnType)
      BY <1>1 DEF TierIsMet
    <3>1. Without({"account", "plan", "disk"})
      BY <1>2, SameKinds
    <3>2. Without({"disk"})
      BY <3>1 DEF Without
    <3> QED
      BY <2>2, <3>1, <3>2 DEF Inv, TierIsMet
  <2>9. FilterIsHeld'
    BY <2>1, RebuildHolds
  <2> QED
    BY <2>4, <2>5, <2>6, <2>7, <2>8, <2>9 DEF Inv
<1> QED
  BY <1>5, <1>6

\* A pin clears the filter Gluetun reports, and nothing the program holds.
LEMMA PinInv == ASSUME Inv, NEW s \in Servers, Pin(s) PROVE Inv'
<1>1. /\ pc = "idle" /\ gl' = [gl EXCEPT !.only = FALSE]
      /\ UNCHANGED <<plan, listFile, loadsFile, tierFile, require, reason, abandoned, vpnType,
                     candidates, blocked, pc, latest, tier, faults>>
  BY DEF Pin, proton, files, wants, sets
<1>2. KindsStay
  BY <1>1, UnchangedFaults DEF Inv
<1>3. gl' \in [container : Containers, only : BOOLEAN, protocol : Protocols] /\ gl'.container = gl.container
  BY <1>1 DEF Inv, Types
<1>4. Types' /\ Shapes' /\ NoOscillation'
  BY <1>1, <1>2, <1>3 DEF Inv, Types, KindsStay, Shapes, NoOscillation
<1>5. Cached' /\ RequirementIsMet' /\ TierIsMet'
  BY <1>1, <1>2, SameKinds DEF Inv, Cached, RequirementIsMet, TierIsMet
<1>6. FilterIsHeld'
  BY <1>1, <1>2, <1>3, SameKinds DEF Inv, FilterIsHeld
<1> QED
  BY <1>4, <1>5, <1>6 DEF Inv

LEMMA GluetunInv == Inv /\ GluetunRestarts => Inv'
<1> SUFFICES ASSUME Inv, GluetunRestarts PROVE Inv'
  OBVIOUS
<1>1. PICK protocol \in Protocols : gl' = [gl EXCEPT !.only = gl.container.only, !.protocol = protocol]
  BY DEF GluetunRestarts
<1>2. /\ pc # "requirements" /\ KindsStay
      /\ UNCHANGED <<plan, listFile, loadsFile, tierFile, require, reason, abandoned, vpnType,
                     candidates, blocked, pc, latest, tier>>
  BY FaultKeeps DEF GluetunRestarts, engine, proton, files, wants, sets, Inv
<1>3. /\ gl' \in [container : Containers, only : BOOLEAN, protocol : Protocols]
      /\ gl'.container = gl.container /\ gl'.only = gl.container.only
  BY <1>1, CandidatesAssumption DEF Inv, Types
<1>4. Types' /\ Shapes' /\ NoOscillation'
  BY <1>2, <1>3 DEF Inv, Types, KindsStay, Shapes, NoOscillation
<1>5. Cached' /\ RequirementIsMet' /\ TierIsMet'
  BY <1>2, SameKinds DEF Inv, Cached, RequirementIsMet, TierIsMet
<1>6. FilterIsHeld'
  BY <1>2, <1>3, SameKinds DEF Inv, FilterIsHeld
<1> QED
  BY <1>4, <1>5, <1>6 DEF Inv

\* Proton changes what it will answer, the program not having asked yet.
LEMMA ProtonInv == Inv /\ (LoadChanges \/ Maintenance \/ PlanChanges) => Inv'
<1> SUFFICES ASSUME Inv, LoadChanges \/ Maintenance \/ PlanChanges PROVE Inv'
  OBVIOUS
<1>1. /\ KindsStay
      /\ UNCHANGED <<listFile, loadsFile, tierFile, require, reason, abandoned, vpnType, gl,
                     candidates, blocked, pc, latest, tier>>
      /\ plan' = plan \/ ~Without({"account", "plan", "disk"})
  <2>1. CASE LoadChanges \/ Maintenance
    BY <2>1, UnchangedFaults DEF LoadChanges, Maintenance, engine, files, wants, sets, Inv
  <2>2. CASE PlanChanges
    BY <2>2, FaultKeeps DEF PlanChanges, engine, files, wants, sets, Inv, Without
  <2> QED
    BY <2>1, <2>2
<1>2. Types' /\ Shapes' /\ NoOscillation'
  BY <1>1 DEF Inv, Types, KindsStay, Shapes, NoOscillation
<1>3. Cached' /\ RequirementIsMet' /\ TierIsMet' /\ FilterIsHeld'
  BY <1>1, SameKinds DEF Inv, Cached, RequirementIsMet, TierIsMet, FilterIsHeld
<1> QED
  BY <1>2, <1>3 DEF Inv

LEMMA EndsInv == Inv /\ Ends => Inv'
<1> SUFFICES ASSUME Inv, Ends PROVE Inv'
  OBVIOUS
<1>1. /\ pc' = "down" /\ candidates' = NoRows /\ blocked' = NoRows
      /\ UNCHANGED <<plan, listFile, loadsFile, tierFile, require, reason, abandoned, vpnType, gl, latest, tier>>
      /\ KindsStay /\ ~Without({"restart", "disk"})
  BY FaultKeeps DEF Ends, proton, files, wants, Inv, Without
<1>2. Types' /\ NoOscillation'
  BY <1>1 DEF Inv, Types, KindsStay, NoOscillation
<1>3. Shapes'
  BY <1>1, NoRowsAnswered DEF Inv, Shapes
<1>4. Cached' /\ RequirementIsMet' /\ TierIsMet' /\ FilterIsHeld'
  BY <1>1, NoRowsAnswered, SameKinds DEF Inv, Cached, RequirementIsMet, TierIsMet, FilterIsHeld
<1> QED
  BY <1>2, <1>3, <1>4 DEF Inv

LEMMA NextKinds == Inv /\ [Next]_vars => KindsStay
BY UnchangedFaults, FaultKeeps
   DEF Next, Start, RefreshAccountInfo, FetchList, Refetched, RefreshLoads, SavedOr, UpdateVPNType,
       UpdateRequirements, Pin, LoadChanges, Maintenance, PlanChanges, GluetunRestarts, Ends, Inv, vars

-----------------------------------------------------------------------------
\* The invariant holds in every behaviour.
THEOREM Invariance == Spec => []Inv
<1>1. Inv /\ [Next]_vars => Inv'
  <2>1. Inv /\ UNCHANGED vars => Inv'
    <3> SUFFICES ASSUME Inv, UNCHANGED vars PROVE Inv'
      OBVIOUS
    <3>1. /\ UNCHANGED <<plan, listFile, loadsFile, tierFile, require, reason, abandoned, vpnType, gl>>
          /\ UNCHANGED <<candidates, blocked, pc, latest, tier, faults>>
      BY DEF vars, proton, files, wants, sets
    <3>2. KindsStay
      BY <3>1, UnchangedFaults DEF Inv
    <3>3. Types' /\ Shapes' /\ NoOscillation'
      BY <3>1 DEF Inv, Types, Shapes, NoOscillation
    <3>4. Cached' /\ RequirementIsMet' /\ TierIsMet' /\ FilterIsHeld'
      BY <3>1, <3>2, SameKinds DEF Inv, Cached, RequirementIsMet, TierIsMet, FilterIsHeld
    <3> QED
      BY <3>3, <3>4 DEF Inv
  <2> QED
    BY <2>1, StartInv, AccountInv, FetchInv, LoadsInv, VPNTypeInv, RequirementsInv, PinInv,
       ProtonInv, GluetunInv, EndsInv DEF Next
<1> QED
  BY InitInv, <1>1, PTL DEF Spec

\* A candidate can be connected to, whatever rebuild came last.
THEOREM UsableCandidates == Spec => []CandidatesAreUsable
<1>1. Inv => CandidatesAreUsable
  BY DEF Inv, CandidatesAreUsable, RequirementIsMet, TierIsMet, Without
<1> QED
  BY Invariance, <1>1, PTL

\* The servers that are compared have figures of one age.
THEOREM FairComparison == Spec => []ComparisonIsFair
<1>1. Inv => ComparisonIsFair
  BY DEF Inv, ComparisonIsFair, Shapes, AgeIs
<1> QED
  BY Invariance, <1>1, PTL

\* What was given up is not inferred again.
THEOREM GivenUpForGood == Spec => []NoOscillation
<1>1. Inv => NoOscillation
  BY DEF Inv
<1> QED
  BY Invariance, <1>1, PTL

\* No step but a restart lets go of a filter that was read as on.
LEMMA FilterIsKept ==
    ASSUME Inv, pc # "down", reason = "PORT_FORWARD_ONLY", [Next]_vars
    PROVE  reason' = "PORT_FORWARD_ONLY"
<1>1. require \in BOOLEAN /\ require
  BY DEF Inv, Types, FilterIsHeld
<1>2. ~Start
  BY DEF Start
<1>3. CASE FetchList
  <2>1. CASE Refetched
    <3>1. ApplyLogicals(Rows, require, reason, tier, vpnType, latest)
      BY <2>1 DEF Refetched
    <3> QED
      BY <3>1 DEF ApplyLogicals, GivesUp
  <2>2. CASE Unfetched
    BY <2>2 DEF Unfetched, wants
  <2> QED
    BY <1>3, <2>1, <2>2 DEF FetchList
<1>4. CASE UpdateVPNType
  <2>1. CASE Rebuild(require, reason, gl.protocol)
    <3>1. reason # "VPN_PORT_FORWARDING" => reason' = reason
      BY <1>1, <2>1, RebuildMeets
    <3> QED
      BY <3>1
  <2>2. CASE UNCHANGED reason
    BY <2>2
  <2> QED
    BY <1>4, <2>1, <2>2 DEF UpdateVPNType
<1>5. CASE UpdateRequirements
  <2>1. Required = TRUE
    BY <1>1 DEF Required
  <2> QED
    BY <1>1, <1>5, <2>1 DEF UpdateRequirements
<1>6. CASE \/ RefreshAccountInfo \/ RefreshLoads \/ (\E s \in Servers : Pin(s)) \/ LoadChanges
           \/ Maintenance \/ PlanChanges \/ GluetunRestarts \/ Ends \/ UNCHANGED vars
  BY <1>6 DEF RefreshAccountInfo, RefreshLoads, Pin, LoadChanges, Maintenance, PlanChanges,
              GluetunRestarts, Ends, engine, wants, vars
<1> QED
  BY <1>2, <1>3, <1>4, <1>5, <1>6 DEF Next

\* A check that reads the filter as on adopts it.
LEMMA FilterIsRead ==
    ASSUME Inv, pc = "requirements", pc' = "idle", gl.only, [Next]_vars
    PROVE  reason' = "PORT_FORWARD_ONLY"
<1>1. UpdateRequirements
  BY DEF Next, Start, RefreshAccountInfo, FetchList, RefreshLoads, UpdateVPNType, Pin, LoadChanges,
         Maintenance, PlanChanges, GluetunRestarts, Ends, engine, vars
<1>2. CASE Required = require
  BY <1>1, <1>2 DEF UpdateRequirements
<1>3. CASE Required # require
  <2>1. Rebuild(Required, "PORT_FORWARD_ONLY", vpnType) /\ Required \in BOOLEAN
    BY <1>1, <1>3 DEF UpdateRequirements, Required
  <2> QED
    BY <2>1, RebuildMeets
<1> QED
  BY <1>2, <1>3

\* The operator's filter, once read, outlives the pins that clear it.
THEOREM FilterOutlivesPins == Spec => OperatorFilterIsMet
<1> DEFINE read  == pc = "requirements" /\ pc' = "idle" /\ gl.only
           known == pc # "down" /\ reason = "PORT_FORWARD_ONLY"
           A == (read \/ known) /\ pc' # "down" =>
                  /\ reason' = "PORT_FORWARD_ONLY"
                  /\ Without({"disk"}) => DOMAIN candidates' \subseteq P2P
<1>1. Inv /\ Inv' /\ [Next]_vars => A
  <2> SUFFICES ASSUME Inv, Inv', [Next]_vars, read \/ known
               PROVE  /\ reason' = "PORT_FORWARD_ONLY"
                      /\ Without({"disk"}) => DOMAIN candidates' \subseteq P2P
    OBVIOUS
  <2>1. reason' = "PORT_FORWARD_ONLY"
    BY FilterIsKept, FilterIsRead
  <2>2. require'
    BY <2>1 DEF Inv, FilterIsHeld
  <2>3. Without({"disk"})' => DOMAIN candidates' \subseteq P2P
    BY <2>2 DEF Inv, RequirementIsMet
  <2> QED
    BY <2>1, <2>3, NextKinds, SameKinds
<1> HIDE DEF A
<1>2. Spec => [][A]_vars
  BY Invariance, <1>1, PTL DEF Spec
<1> QED
  BY <1>2 DEF A, OperatorFilterIsMet

-----------------------------------------------------------------------------
(* Types: what is kept of Proton's figures is never from the future, and no *)
(* candidate is out of service.                                             *)

InService(set) == \A s \in DOMAIN set : set[s].up

LEMMA RowTypeLater ==
    ASSUME NEW set, NEW t \in Nat, NEW u \in Nat, t <= u, RowType(set, t) PROVE RowType(set, u)
BY DEF RowType

LEMMA NoRowsType == ASSUME NEW t PROVE RowType(NoRows, t) /\ InService(NoRows)
BY NoRowsAnswered DEF RowType, InService

LEMMA BuildType ==
    ASSUME NEW rows, NEW required, NEW account, NEW protocol, NEW t, RowType(rows, t)
    PROVE  /\ RowType(Build(rows, required, account, protocol), t)
           /\ InService(Build(rows, required, account, protocol))
<1> DEFINE built == Build(rows, required, account, protocol)
<1>1. \A s \in DOMAIN built : s \in DOMAIN rows /\ built[s] = rows[s] /\ rows[s].up
  BY DEF Build, Survives
<1> HIDE DEF built
<1>2. RowType(built, t) /\ InService(built)
  BY <1>1 DEF RowType, InService
<1> QED
  BY <1>2 DEF built

LEMMA ApplyLoadsType ==
    ASSUME NEW set, NEW loads, NEW t, RowType(set, t), RowType(loads, t)
    PROVE  /\ RowType(ApplyLoads(set, loads), t)
           /\ InService(set) => InService(ApplyLoads(set, loads))
<1> DEFINE applied == ApplyLoads(set, loads)
<1>1. \A s \in DOMAIN applied :
         /\ s \in DOMAIN set
         /\ \/ s \in DOMAIN loads /\ applied[s] = loads[s] /\ loads[s].up
            \/ applied[s] = set[s]
  BY DEF ApplyLoads
<1> HIDE DEF applied
<1>2. RowType(applied, t) /\ (InService(set) => InService(applied))
  BY <1>1 DEF RowType, InService
<1> QED
  BY <1>2 DEF applied

LEMMA MinusType ==
    ASSUME NEW set, NEW other, NEW t, RowType(set, t) PROVE RowType(Minus(set, other), t)
<1> DEFINE rest == Minus(set, other)
<1>1. \A s \in DOMAIN rest : s \in DOMAIN set /\ rest[s] = set[s]
  BY MinusIs
<1> HIDE DEF rest
<1>2. RowType(rest, t)
  BY <1>1 DEF RowType
<1> QED
  BY <1>2 DEF rest

LEMMA RowsType == TypeOK => RowType(Rows, now)
<1> SUFFICES ASSUME TypeOK PROVE RowType(Rows, now)
  OBVIOUS
<1>1. \A s \in Servers : Rows[s] = [up |-> world[s].up, load |-> world[s].load, at |-> now]
  BY DEF Rows
<1>2. \A s \in Servers : world[s].up \in BOOLEAN /\ world[s].load \in Loads
  BY DEF TypeOK
<1>3. now \in 0..now
  <2>1. now \in 0..MaxTime
    BY DEF TypeOK
  <2> QED
    BY <2>1, CandidatesAssumption
<1> QED
  BY <1>1, <1>2, <1>3, RowsAnswered DEF RowType

\* TypeOK by parts, one row or one time at a time.
Past(t, n) == t = Never \/ t \in 0..n

ProtonOK ==
    /\ now \in 0..MaxTime /\ modified \in 0..now /\ plan \in {0, 2}
    /\ world \in [Servers -> [up : BOOLEAN, load : Loads]]

TimesOK ==
    /\ Past(listFile.at, now) /\ Past(listFile.modified, now) /\ Past(loadsFile.at, now)
    /\ Past(listModified, now) /\ Past(loadRefresh, now)

RowsOK ==
    /\ RowType(listFile.rows, now) /\ RowType(loadsFile.rows, now) /\ RowType(latest, now)
    /\ RowType(candidates, now) /\ RowType(blocked, now) /\ InService(candidates)

Reasons == {"", "PORT_FORWARD_ONLY", "VPN_PORT_FORWARDING"}
Tiers == {Unknown, 0, 2}

RestOK == tier \in Tiers /\ tierFile \in Tiers /\ reason \in Reasons /\ vpnType \in Protocols \cup {""}

Parts == ProtonOK /\ TimesOK /\ RowsOK /\ RestOK

LEMMA PastIs == ASSUME NEW n \in Nat, NEW t PROVE t \in Never..n <=> Past(t, n)
BY DEF Never, Past

LEMMA TypeParts == TypeOK <=> Types /\ Parts
<1>1. ASSUME ProtonOK
      PROVE  TimesOK <=> {listFile.at, listFile.modified, loadsFile.at, listModified, loadRefresh}
                            \subseteq Never..now
  <2>1. now \in Nat
    BY <1>1, CandidatesAssumption DEF ProtonOK
  <2> DEFINE past == Never..now
  <2>2. /\ listFile.at \in past <=> Past(listFile.at, now)
        /\ listFile.modified \in past <=> Past(listFile.modified, now)
        /\ loadsFile.at \in past <=> Past(loadsFile.at, now)
        /\ listModified \in past <=> Past(listModified, now)
        /\ loadRefresh \in past <=> Past(loadRefresh, now)
    BY <2>1, PastIs
  <2> HIDE DEF past
  <2>3. TimesOK <=> {listFile.at, listFile.modified, loadsFile.at, listModified, loadRefresh} \subseteq past
    BY <2>2 DEF TimesOK
  <2> QED
    BY <2>3 DEF past
<1>2. RowsOK <=>
         /\ \A set \in {listFile.rows, loadsFile.rows, latest, candidates, blocked} : RowType(set, now)
         /\ \A s \in DOMAIN candidates : candidates[s].up
  BY DEF RowsOK, InService
<1>3. RestOK <=> {tier, tierFile} \subseteq {Unknown, 0, 2} /\ reason \in Reasons
                    /\ vpnType \in Protocols \cup {""}
  BY DEF RestOK, Tiers
<1>4. TypeOK => ProtonOK
  BY DEF TypeOK, ProtonOK
<1>5. TypeOK => Types
  BY DEF TypeOK, Types
<1>6. TypeOK => TimesOK /\ RowsOK /\ RestOK
  BY <1>1, <1>2, <1>3, <1>4 DEF TypeOK, Reasons
<1>7. Types /\ ProtonOK /\ TimesOK /\ RowsOK /\ RestOK => TypeOK
  BY <1>1, <1>2, <1>3 DEF TypeOK, Reasons, Types, ProtonOK
<1> QED
  BY <1>4, <1>5, <1>6, <1>7 DEF Parts

\* What a rebuild leaves, if anything is rebuilt.
WantsType ==
    /\ require' \in BOOLEAN /\ abandoned' \in BOOLEAN /\ reason' \in Reasons
    /\ RowType(candidates', now) /\ RowType(blocked', now) /\ InService(candidates')

LEMMA ApplyLogicalsType ==
    ASSUME NEW rows, NEW required \in BOOLEAN, NEW why \in Reasons, NEW account, NEW protocol,
           NEW loads, RowType(rows, now), RowType(loads, now), abandoned \in BOOLEAN,
           ApplyLogicals(rows, required, why, account, protocol, loads)
    PROVE  WantsType
<1> DEFINE gives == GivesUp(rows, required, why, account, protocol)
           still == required /\ ~gives
           built == Build(rows, still, account, protocol)
           rest  == Minus(Build(rows, FALSE, account, protocol), built)
<1>1. /\ require' = still /\ reason' = (IF gives THEN "" ELSE why) /\ abandoned' = (abandoned \/ gives)
      /\ candidates' = ApplyLoads(built, loads)
      /\ blocked' \in {NoRows, ApplyLoads(rest, loads)}
  BY DEF ApplyLogicals, BlockedBy
<1>2. RowType(built, now) /\ InService(built) /\ RowType(rest, now)
  BY BuildType, MinusType
<1>3. gives \in BOOLEAN
  BY DEF GivesUp
<1> HIDE DEF gives, built, rest
<1>4. RowType(candidates', now) /\ InService(candidates') /\ RowType(blocked', now)
  BY <1>1, <1>2, ApplyLoadsType, NoRowsType
<1> QED
  BY <1>1, <1>3, <1>4 DEF WantsType, Reasons

LEMMA TypePartsNext == (TypeOK <=> Types /\ Parts)'
BY TypeParts, PTL

LEMMA InitType == Init => TypeOK
<1> SUFFICES ASSUME Init PROVE Types /\ Parts
  BY TypeParts
<1>1. /\ candidates = NoRows /\ blocked = NoRows /\ latest = NoRows
      /\ listFile.rows = NoRows /\ loadsFile.rows = NoRows
      /\ listFile.at = Never /\ listFile.modified = Never /\ loadsFile.at = Never
  BY DEF Init, NoList
<1>2. Types
  BY InitInv DEF Inv
<1>3. world \in [Servers -> [up : BOOLEAN, load : Loads]]
  <2>1. world \in [Servers -> [up : {TRUE}, load : Loads]]
    BY DEF Init
  <2>2. \A s \in Servers : world[s] \in [up : BOOLEAN, load : Loads]
    BY <2>1
  <2> QED
    BY <2>1, <2>2
<1>4. ProtonOK
  <2>1. now = 0 /\ modified = 0 /\ plan \in {0, 2}
    BY DEF Init
  <2> QED
    BY <1>3, <2>1, CandidatesAssumption DEF ProtonOK
<1>5. TimesOK
  BY <1>1 DEF Init, TimesOK, Past
<1>6. RowsOK
  BY <1>1, NoRowsType DEF RowsOK
<1>7. RestOK
  BY DEF Init, RestOK, Tiers, Reasons
<1> QED
  BY <1>2, <1>4, <1>5, <1>6, <1>7 DEF Parts

\* A step of the program, Proton staying as it is: what it leaves to be shown.
LEMMA ProgramType ==
    ASSUME TypeOK, Types', UNCHANGED proton, tier' \in Tiers, tierFile' \in Tiers,
           vpnType' \in Protocols \cup {""},
           Past(listFile'.at, now), Past(listFile'.modified, now), Past(loadsFile'.at, now),
           Past(listModified', now), Past(loadRefresh', now),
           RowType(listFile'.rows, now), RowType(loadsFile'.rows, now), RowType(latest', now),
           WantsType
    PROVE  TypeOK'
<1>1. ProtonOK' /\ now' = now
  BY TypeParts DEF ProtonOK, Parts, proton
<1>2. TimesOK' /\ RowsOK' /\ RestOK'
  BY <1>1 DEF TimesOK, RowsOK, RestOK, WantsType, InService, Tiers, Reasons
<1> QED
  BY <1>1, <1>2, TypePartsNext DEF Parts

LEMMA Typed ==
    ASSUME TypeOK
    PROVE  /\ now \in Nat /\ Past(now, now) /\ Past(modified, now) /\ plan \in Tiers /\ Past(Never, now)
           /\ require \in BOOLEAN /\ abandoned \in BOOLEAN
           /\ TimesOK /\ RowsOK /\ RestOK
<1>1. Types /\ ProtonOK /\ TimesOK /\ RowsOK /\ RestOK
  BY TypeParts DEF Parts
<1> QED
  BY <1>1, CandidatesAssumption DEF ProtonOK, Types, Past, Tiers

LEMMA StartType == TypeOK /\ Types' /\ Start => TypeOK'
<1> SUFFICES ASSUME TypeOK, Types', Start PROVE TypeOK'
  OBVIOUS
<1> DEFINE loads == IF loadsFile.at > listFile.at THEN loadsFile.rows ELSE NoRows
           built == Build(listFile.rows, FALSE, tierFile, "")
<1>1. /\ tier' = tierFile /\ vpnType' = "" /\ require' = FALSE /\ reason' = "" /\ abandoned' = FALSE
      /\ latest' \in {NoRows, loads} /\ candidates' = ApplyLoads(built, loads) /\ blocked' = NoRows
      /\ listModified' = listFile.modified /\ loadRefresh' \in {loadsFile.at, Never}
      /\ UNCHANGED proton /\ UNCHANGED <<listFile, loadsFile, tierFile>>
  BY DEF Start, files
<1>2. RowType(loads, now) /\ RowType(built, now) /\ InService(built)
  BY Typed, NoRowsType, BuildType DEF RowsOK
<1> HIDE DEF loads, built
<1>3. WantsType
  BY <1>1, <1>2, ApplyLoadsType, NoRowsType DEF WantsType, Reasons
<1>4. RowType(latest', now)
  BY <1>1, <1>2, NoRowsType
<1> QED
  BY <1>1, <1>3, <1>4, Typed, ProgramType DEF TimesOK, RowsOK, RestOK

LEMMA ListType == TypeOK /\ Types' /\ (RefreshAccountInfo \/ FetchList) => TypeOK'
<1> SUFFICES ASSUME TypeOK, Types', RefreshAccountInfo \/ FetchList PROVE TypeOK'
  OBVIOUS
<1>1. CASE RefreshAccountInfo
  <2>1. /\ UNCHANGED proton /\ UNCHANGED <<vpnType, require, reason, abandoned, candidates, blocked>>
        /\ UNCHANGED <<listModified, loadRefresh, listFile, loadsFile, latest>>
    BY <1>1 DEF RefreshAccountInfo, wants, sets, shown
  <2>2. tier' \in {tier, plan} /\ tierFile' \in {tierFile, plan}
    BY <1>1 DEF RefreshAccountInfo, SavedOr
  <2>3. WantsType
    BY <2>1, Typed DEF WantsType, RowsOK, RestOK
  <2> QED
    BY <2>1, <2>2, <2>3, Typed, ProgramType DEF TimesOK, RowsOK, RestOK
<1>2. CASE FetchList
  <2>1. UNCHANGED proton /\ UNCHANGED <<loadsFile, tierFile, latest, tier, vpnType>>
    BY <1>2 DEF FetchList, Refetched, Unfetched, wants
  <2>2. CASE Unfetched
    <3>1. UNCHANGED <<require, reason, abandoned, candidates, blocked, listModified, loadRefresh, listFile>>
      BY <2>2 DEF Unfetched, wants, sets, shown
    <3>2. WantsType
      BY <3>1, Typed DEF WantsType, RowsOK, RestOK
    <3> QED
      BY <2>1, <3>1, <3>2, Typed, ProgramType DEF TimesOK, RowsOK, RestOK
  <2>3. CASE Refetched
    <3>1. /\ ApplyLogicals(Rows, require, reason, tier, vpnType, latest)
          /\ listFile' \in {listFile, [rows |-> Rows, at |-> now, modified |-> modified]}
          /\ listModified' = modified /\ loadRefresh' = now
      BY <2>3 DEF Refetched, SavedOr
    <3>2. RowType(listFile'.rows, now) /\ Past(listFile'.at, now) /\ Past(listFile'.modified, now)
      BY <3>1, Typed, RowsType DEF TimesOK, RowsOK
    <3>3. WantsType
      BY <3>1, Typed, RowsType, ApplyLogicalsType DEF RowsOK, RestOK
    <3> QED
      BY <2>1, <3>1, <3>2, <3>3, Typed, ProgramType DEF TimesOK, RowsOK, RestOK
  <2> QED
    BY <1>2, <2>2, <2>3 DEF FetchList
<1> QED
  BY <1>1, <1>2

LEMMA LoadsType == TypeOK /\ Types' /\ RefreshLoads => TypeOK'
<1> SUFFICES ASSUME TypeOK, Types', RefreshLoads PROVE TypeOK'
  OBVIOUS
<1>1. /\ latest' = Rows /\ candidates' = ApplyLoads(candidates, Rows) /\ blocked' = ApplyLoads(blocked, Rows)
      /\ loadRefresh' = now /\ loadsFile' \in {loadsFile, [rows |-> Rows, at |-> now]}
      /\ UNCHANGED proton /\ UNCHANGED <<require, reason, abandoned, vpnType, listFile, tierFile, tier, listModified>>
  BY DEF RefreshLoads, SavedOr, wants
<1>2. RowType(Rows, now)
  BY RowsType
<1>3. WantsType
  BY <1>1, <1>2, Typed, ApplyLoadsType DEF WantsType, RowsOK, RestOK
<1>4. RowType(loadsFile'.rows, now) /\ Past(loadsFile'.at, now)
  BY <1>1, <1>2, Typed DEF TimesOK, RowsOK
<1> QED
  BY <1>1, <1>2, <1>3, <1>4, Typed, ProgramType DEF TimesOK, RowsOK, RestOK

LEMMA RebuildType ==
    ASSUME TypeOK, NEW required \in BOOLEAN, NEW why \in Reasons, NEW protocol,
           Rebuild(required, why, protocol)
    PROVE  WantsType
<1>1. CASE listFile = NoList
  BY <1>1, Typed DEF Rebuild, sets, WantsType, RowsOK, RestOK
<1>2. CASE listFile # NoList
  BY <1>2, Typed, ApplyLogicalsType DEF Rebuild, RowsOK, RestOK
<1> QED
  BY <1>1, <1>2

LEMMA HealthType == TypeOK /\ Types' /\ (UpdateVPNType \/ UpdateRequirements) => TypeOK'
<1> SUFFICES ASSUME TypeOK, Types', UpdateVPNType \/ UpdateRequirements PROVE TypeOK'
  OBVIOUS
<1>1. /\ UNCHANGED proton
      /\ UNCHANGED <<listFile, loadsFile, tierFile, latest, tier, listModified, loadRefresh>>
      /\ vpnType' \in {vpnType, gl.protocol}
  BY DEF UpdateVPNType, UpdateRequirements, files, shown
<1>2. gl.protocol \in Protocols /\ gl.only \in BOOLEAN /\ gl.container.forwarding \in BOOLEAN
  BY CandidatesAssumption DEF TypeOK
<1>3. WantsType
  <2>1. CASE UNCHANGED <<require, abandoned, candidates, blocked>> /\ reason' \in Reasons
    BY <2>1, Typed DEF WantsType, RowsOK, RestOK
  <2>2. CASE UpdateVPNType /\ vpnType # gl.protocol
    BY <2>2, Typed, RebuildType DEF UpdateVPNType, RestOK
  <2>3. CASE UpdateRequirements /\ Required # require
    <3> DEFINE why == IF gl.only THEN "PORT_FORWARD_ONLY"
                      ELSE IF Inferred /\ reason = "" THEN "VPN_PORT_FORWARDING" ELSE reason
    <3>1. why \in Reasons /\ Required \in BOOLEAN
      BY <1>2, Typed DEF Reasons, Required, Inferred, RestOK
    <3>2. Rebuild(Required, why, vpnType)
      BY <2>3 DEF UpdateRequirements
    <3> QED
      BY <3>1, <3>2, RebuildType
  <2>4. CASE UpdateVPNType /\ vpnType = gl.protocol
    BY <2>1, <2>4, Typed DEF UpdateVPNType, sets, RestOK
  <2>5. CASE UpdateRequirements /\ Required = require
    BY <2>1, <2>5, Typed DEF UpdateRequirements, sets, Reasons, RestOK
  <2> QED
    BY <2>2, <2>3, <2>4, <2>5
<1> QED
  BY <1>1, <1>2, <1>3, Typed, ProgramType DEF TimesOK, RowsOK, RestOK

LEMMA OutsideType ==
    TypeOK /\ Types' /\ ((\E s \in Servers : Pin(s)) \/ GluetunRestarts \/ Ends) => TypeOK'
<1> SUFFICES ASSUME TypeOK, Types', (\E s \in Servers : Pin(s)) \/ GluetunRestarts \/ Ends
             PROVE  TypeOK'
  OBVIOUS
<1>1. /\ UNCHANGED proton /\ UNCHANGED <<require, reason, abandoned, vpnType, tier>>
      /\ UNCHANGED <<listFile, loadsFile, tierFile, latest, listModified, loadRefresh>>
      /\ \/ UNCHANGED <<candidates, blocked>>
         \/ candidates' = NoRows /\ blocked' = NoRows
  BY DEF Pin, GluetunRestarts, Ends, engine, files, wants, sets, shown
<1>2. WantsType
  BY <1>1, Typed, NoRowsType DEF WantsType, RowsOK, RestOK
<1> QED
  BY <1>1, <1>2, Typed, ProgramType DEF TimesOK, RowsOK, RestOK

LEMMA ProtonType == TypeOK /\ Types' /\ (LoadChanges \/ Maintenance \/ PlanChanges) => TypeOK'
<1> SUFFICES ASSUME TypeOK, Types', LoadChanges \/ Maintenance \/ PlanChanges PROVE TypeOK'
  OBVIOUS
<1>0. ProtonOK /\ TimesOK /\ RowsOK /\ RestOK
  BY TypeParts DEF Parts
<1>1. /\ UNCHANGED <<listFile, loadsFile, tierFile, latest, tier, reason, vpnType>>
      /\ UNCHANGED <<listModified, loadRefresh, candidates, blocked>>
  BY DEF LoadChanges, Maintenance, PlanChanges, engine, files, wants, sets, shown
<1>2. world' \in [Servers -> [up : BOOLEAN, load : Loads]]
  <2>1. CASE LoadChanges
    <3>1. PICK s \in Servers, l \in Loads : world' = [world EXCEPT ![s].load = l]
      BY <2>1 DEF LoadChanges
    <3>2. [world[s] EXCEPT !.load = l] \in [up : BOOLEAN, load : Loads]
      BY <1>0 DEF ProtonOK
    <3> QED
      BY <1>0, <3>1, <3>2 DEF ProtonOK
  <2>2. CASE Maintenance
    <3>1. PICK s \in Servers : world' = [world EXCEPT ![s].up = ~@]
      BY <2>2 DEF Maintenance
    <3>2. [world[s] EXCEPT !.up = ~@] \in [up : BOOLEAN, load : Loads]
      <4>1. world[s].up \in BOOLEAN /\ world[s].load \in Loads /\ world[s] \in [up : BOOLEAN, load : Loads]
        BY <1>0 DEF ProtonOK
      <4> QED
        BY <4>1
    <3> QED
      BY <1>0, <3>1, <3>2 DEF ProtonOK
  <2>3. CASE PlanChanges
    BY <1>0, <2>3 DEF PlanChanges, ProtonOK
  <2> QED
    BY <2>1, <2>2, <2>3
<1>3. ProtonOK' /\ now' \in Nat /\ now \in Nat /\ now <= now'
  BY <1>0, <1>2, CandidatesAssumption DEF LoadChanges, Maintenance, PlanChanges, ProtonOK
<1>4. \A t : Past(t, now) => Past(t, now')
  BY <1>3 DEF Past
<1>5. TimesOK' /\ RestOK'
  BY <1>0, <1>1, <1>4 DEF TimesOK, RestOK
<1>6. RowsOK'
  BY <1>0, <1>1, <1>3, RowTypeLater DEF RowsOK, InService
<1> QED
  BY <1>3, <1>5, <1>6, TypePartsNext DEF Parts

\* Every variable has its type, whatever is fetched, cached, lost or restarted.
THEOREM TypeCorrectness == Spec => []TypeOK
<1>1. Init => TypeOK
  BY InitType
<1>2. TypeOK /\ Inv /\ Inv' /\ [Next]_vars => TypeOK'
  <2> SUFFICES ASSUME TypeOK, Inv, Inv', [Next]_vars PROVE TypeOK'
    OBVIOUS
  <2>1. Types'
    BY DEF Inv
  <2>2. CASE UNCHANGED vars
    BY <2>2 DEF vars, proton, files, wants, sets, shown, TypeOK
  <2> QED
    BY <2>1, <2>2, StartType, ListType, LoadsType, HealthType, OutsideType, ProtonType DEF Next
<1> QED
  BY <1>1, <1>2, Invariance, PTL DEF Spec

-----------------------------------------------------------------------------
(* The age of figures                                                       *)

\* Every candidate has the age of the newest loads or, before there are any, of
\* the cached list.
FiguresAgree ==
    Without({"disk"}) =>
        /\ pc = "down" => DOMAIN candidates = {}
        /\ AgeIs(listFile.rows, listFile.at)
        /\ DOMAIN latest = {} => AgeIs(candidates, listFile.at)
        /\ \A s \in DOMAIN candidates, u \in DOMAIN latest : candidates[s].at = latest[u].at

Newer == \A s \in DOMAIN candidates \cap DOMAIN candidates' : candidates'[s].at >= candidates[s].at

\* Candidates made of rows and loads, of which the loads decide the age.
MadeOf(made, rows, loads) ==
    /\ \A t : AgeIs(rows, t) /\ DOMAIN loads = {} => AgeIs(made, t)
    /\ \A s \in DOMAIN made, u \in DOMAIN loads : made[s].at = loads[u].at

LEMMA AppliedAge ==
    ASSUME NEW set, NEW loads, Answered(loads), DOMAIN set \subseteq Servers
    PROVE  MadeOf(ApplyLoads(set, loads), set, loads)
<1> DEFINE made == ApplyLoads(set, loads)
<1>1. ASSUME NEW t, AgeIs(set, t), DOMAIN loads = {} PROVE AgeIs(made, t)
  BY <1>1, NoLoadsAge
<1>2. ASSUME NEW s \in DOMAIN made, NEW u \in DOMAIN loads PROVE made[s].at = loads[u].at
  <2>1. PICK t : AgeIs(loads, t)
    BY DEF Answered
  <2>2. DOMAIN loads = Servers
    BY <1>2 DEF Answered
  <2>3. AgeIs(made, t)
    BY <2>1, <2>2, LoadsAge
  <2> QED
    BY <1>2, <2>1, <2>3 DEF AgeIs
<1> HIDE DEF made
<1>3. MadeOf(made, set, loads)
  BY <1>1, <1>2 DEF MadeOf
<1> QED
  BY <1>3 DEF made

LEMMA BuiltAge ==
    ASSUME NEW rows, NEW required, NEW account, NEW protocol, NEW loads,
           Answered(rows), Answered(loads)
    PROVE  MadeOf(ApplyLoads(Build(rows, required, account, protocol), loads), rows, loads)
<1> DEFINE built == Build(rows, required, account, protocol)
<1>1. DOMAIN built \subseteq Servers /\ \A t : AgeIs(rows, t) => AgeIs(built, t)
  BY BuildAge DEF Answered
<1> HIDE DEF built
<1>2. MadeOf(ApplyLoads(built, loads), built, loads)
  BY <1>1, AppliedAge
<1>3. MadeOf(ApplyLoads(built, loads), rows, loads)
  BY <1>1, <1>2 DEF MadeOf
<1> QED
  BY <1>3 DEF built

LEMMA RebuiltAge ==
    ASSUME NEW required, NEW why, NEW protocol, Inv, Rebuild(required, why, protocol)
    PROVE  UNCHANGED candidates \/ MadeOf(candidates', listFile.rows, latest)
<1>1. CASE listFile = NoList
  BY <1>1 DEF Rebuild, sets
<1>2. CASE listFile # NoList
  <2>1. PICK still : candidates' = ApplyLoads(Build(listFile.rows, still, tier, protocol), latest)
    BY <1>2 DEF Rebuild, ApplyLogicals
  <2> QED
    BY <2>1, BuiltAge DEF Inv, Shapes
<1> QED
  BY <1>1, <1>2

\* Neither what is rebuilt nor what is left alone changes its age.
LEMMA SameAge ==
    ASSUME Inv, FiguresAgree, TypeOK, KindsStay, UNCHANGED <<latest, listFile>>,
           UNCHANGED candidates \/ MadeOf(candidates', listFile.rows, latest),
           pc' = "down" => DOMAIN candidates' = {}, Without({"disk"})
    PROVE  FiguresAgree' /\ Newer
<1>1. Without({"disk"})'
  BY SameKinds
<1>2. /\ AgeIs(listFile.rows, listFile.at)
      /\ DOMAIN latest = {} => AgeIs(candidates, listFile.at)
      /\ \A s \in DOMAIN candidates, u \in DOMAIN latest : candidates[s].at = latest[u].at
  BY DEF FiguresAgree
<1>3. /\ DOMAIN latest = {} => AgeIs(candidates', listFile.at)
      /\ \A s \in DOMAIN candidates', u \in DOMAIN latest : candidates'[s].at = latest[u].at
  BY <1>2 DEF MadeOf
<1>4. FiguresAgree'
  BY <1>1, <1>2, <1>3 DEF FiguresAgree, AgeIs
<1>5. \A s \in DOMAIN candidates \cap DOMAIN candidates' : candidates'[s].at = candidates[s].at
  BY <1>2, <1>3 DEF AgeIs
<1>6. \A s \in DOMAIN candidates : candidates[s].at \in Int
  BY Typed DEF RowsOK, RowType
<1> QED
  BY <1>4, <1>5, <1>6 DEF Newer

LEMMA StartAge ==
    ASSUME Inv, FiguresAgree, Start, Without({"disk"}) PROVE FiguresAgree' /\ Newer
<1> DEFINE newer == loadsFile.at > listFile.at
           loads == IF newer THEN loadsFile.rows ELSE NoRows
<1>1. /\ pc = "down" /\ pc' = "idle" /\ faults' = faults /\ listFile' = listFile
      /\ latest' = IF listFile = NoList THEN NoRows ELSE loads
      /\ candidates' = ApplyLoads(Build(listFile.rows, FALSE, tierFile, ""), loads)
  BY DEF Start, files
<1>2. Without({"disk"})'
  BY <1>1, SameKinds, UnchangedFaults DEF Inv
<1>3. Answered(loads) /\ Answered(listFile.rows)
  BY NoRowsAnswered DEF Inv, Shapes
<1>4. AgeIs(listFile.rows, listFile.at) /\ DOMAIN candidates = {}
  BY <1>1 DEF FiguresAgree
<1> HIDE DEF loads
<1>5. MadeOf(candidates', listFile.rows, loads)
  BY <1>1, <1>3, BuiltAge
<1>6. ASSUME listFile = NoList PROVE DOMAIN candidates' = {}
  <2> DEFINE built == Build(listFile.rows, FALSE, tierFile, "")
  <2>1. listFile.rows = NoRows
    BY <1>6 DEF NoList
  <2>2. DOMAIN built = {}
    BY <2>1, BuildIs, NoRowsAnswered
  <2>3. candidates' = ApplyLoads(built, loads)
    BY <1>1
  <2> HIDE DEF built
  <2> QED
    BY <2>2, <2>3, ApplyLoadsIs
<1>7. MadeOf(candidates', listFile.rows, latest')
  BY <1>1, <1>5, <1>6 DEF MadeOf, AgeIs
<1>8. FiguresAgree'
  BY <1>1, <1>2, <1>4, <1>7 DEF FiguresAgree, MadeOf
<1> QED
  BY <1>4, <1>8 DEF Newer

\* A list that is fetched anew is no older than what it replaces.
LEMMA RefetchedAge ==
    ASSUME Inv, FiguresAgree, TypeOK, FetchList, Refetched, Without({"disk"})
    PROVE  FiguresAgree' /\ Newer
<1>1. /\ pc' = "idle" /\ latest' = latest
      /\ \E still : candidates' = ApplyLoads(Build(Rows, still, tier, vpnType), latest)
  BY DEF FetchList, Refetched, ApplyLogicals
<1>2. listFile' = [rows |-> Rows, at |-> now, modified |-> modified] /\ KindsStay
  BY UnchangedFaults, FaultKeeps DEF Refetched, SavedOr, Inv, Without
<1>3. Without({"disk"})'
  BY <1>2, SameKinds
<1>4. AgeIs(Rows, now)
  BY DEF Rows, AgeIs
<1>5. MadeOf(candidates', Rows, latest)
  BY <1>1, BuiltAge, RowsAnswered DEF Inv, Shapes
<1>6. /\ DOMAIN latest = {} => AgeIs(candidates', now)
      /\ \A s \in DOMAIN candidates', u \in DOMAIN latest : candidates'[s].at = latest[u].at
  BY <1>4, <1>5 DEF MadeOf
<1>7. FiguresAgree'
  BY <1>1, <1>2, <1>3, <1>4, <1>6 DEF FiguresAgree, AgeIs
<1>8. now \in Nat /\ \A s \in DOMAIN candidates : candidates[s].at \in 0..now
  BY Typed, CandidatesAssumption DEF RowsOK, RowType, ProtonOK
<1>9. \A s \in DOMAIN candidates, u \in DOMAIN latest : candidates[s].at = latest[u].at
  BY DEF FiguresAgree
<1>10. \A s \in DOMAIN candidates \cap DOMAIN candidates' : candidates'[s].at \in {now, candidates[s].at}
  BY <1>6, <1>9 DEF AgeIs
<1> QED
  BY <1>7, <1>8, <1>10 DEF Newer

LEMMA RefreshedAge ==
    ASSUME Inv, FiguresAgree, TypeOK, RefreshLoads, Without({"disk"}) PROVE FiguresAgree' /\ Newer
<1>1. /\ pc' = pc /\ pc = "idle" /\ latest' = Rows /\ listFile' = listFile
      /\ candidates' = ApplyLoads(candidates, Rows) /\ KindsStay
  BY UnchangedFaults, FaultKeeps DEF RefreshLoads, SavedOr, Inv
<1>2. Without({"disk"})'
  BY <1>1, SameKinds
<1>3. AgeIs(Rows, now)
  BY DEF Rows, AgeIs
<1>4. AgeIs(candidates', now)
  BY <1>1, <1>3, LoadsAge, RowsAnswered DEF Inv, Shapes
<1>5. DOMAIN Rows = {} => DOMAIN candidates' = {}
  BY <1>1, ApplyLoadsIs, RowsAnswered DEF Inv, Shapes
<1>6. FiguresAgree'
  BY <1>1, <1>2, <1>3, <1>4, <1>5 DEF FiguresAgree, AgeIs
<1>7. now \in Nat /\ \A s \in DOMAIN candidates : candidates[s].at \in 0..now
  BY Typed, CandidatesAssumption DEF RowsOK, RowType, ProtonOK
<1> QED
  BY <1>4, <1>6, <1>7 DEF Newer, AgeIs

LEMMA NextAge ==
    ASSUME Inv, FiguresAgree, TypeOK, [Next]_vars, Without({"disk"}) PROVE FiguresAgree' /\ Newer
<1>0. pc # "down" \/ DOMAIN candidates = {}
  BY DEF FiguresAgree
<1>1. CASE Start
  BY <1>1, StartAge
<1>2. CASE RefreshAccountInfo
  <2>1. UNCHANGED <<candidates, latest, listFile>> /\ pc' # "down" /\ KindsStay
    BY <1>2, UnchangedFaults, FaultKeeps DEF RefreshAccountInfo, SavedOr, Inv, sets
  <2> QED
    BY <2>1, SameAge
<1>3. CASE FetchList /\ Refetched
  BY <1>3, RefetchedAge
<1>4. CASE FetchList /\ Unfetched
  <2>1. UNCHANGED <<candidates, latest, listFile>> /\ pc' # "down"
    BY <1>4 DEF FetchList, Unfetched, sets
  <2>2. KindsStay
    BY <1>4, UnchangedFaults, FaultKeeps DEF FetchList, Refetched, SavedOr, Inv
  <2> QED
    BY <2>1, <2>2, SameAge
<1>5. CASE RefreshLoads
  BY <1>5, RefreshedAge
<1>6. CASE UpdateVPNType \/ UpdateRequirements
  <2>1. UNCHANGED <<latest, listFile, faults>> /\ pc' # "down"
    BY <1>6 DEF UpdateVPNType, UpdateRequirements, files
  <2>2. UNCHANGED candidates \/ MadeOf(candidates', listFile.rows, latest)
    BY <1>6, RebuiltAge DEF UpdateVPNType, UpdateRequirements, sets
  <2> QED
    BY <2>1, <2>2, SameAge, UnchangedFaults DEF Inv
<1>7. CASE (\E s \in Servers : Pin(s)) \/ LoadChanges \/ Maintenance \/ PlanChanges \/ GluetunRestarts
  <2>1. UNCHANGED <<candidates, latest, listFile, pc>>
    BY <1>7 DEF Pin, LoadChanges, Maintenance, PlanChanges, GluetunRestarts, engine, files, sets
  <2>2. KindsStay
    BY <1>7, UnchangedFaults, FaultKeeps
       DEF Pin, LoadChanges, Maintenance, PlanChanges, GluetunRestarts, Inv
  <2> QED
    BY <1>0, <2>1, <2>2, SameAge
<1>8. CASE Ends
  <2>1. UNCHANGED <<latest, listFile>> /\ candidates' = NoRows /\ KindsStay
    BY <1>8, FaultKeeps DEF Ends, files, Inv
  <2>2. MadeOf(candidates', listFile.rows, latest)
    BY <2>1, NoRowsAnswered DEF MadeOf
  <2> QED
    BY <2>1, <2>2, NoRowsAnswered, SameAge
<1>9. CASE UNCHANGED vars
  <2>1. UNCHANGED <<candidates, latest, listFile, pc, faults>>
    BY <1>9 DEF vars, files, sets
  <2> QED
    BY <1>0, <2>1, SameAge, UnchangedFaults DEF Inv
<1> QED
  BY <1>1, <1>2, <1>3, <1>4, <1>5, <1>6, <1>7, <1>8, <1>9 DEF Next, FetchList

LEMMA FiguresAgreeNext == Inv /\ TypeOK /\ FiguresAgree /\ [Next]_vars /\ Inv' => FiguresAgree'
<1> SUFFICES ASSUME Inv, TypeOK, FiguresAgree, [Next]_vars PROVE FiguresAgree'
  OBVIOUS
<1>1. CASE Without({"disk"})
  BY <1>1, NextAge
<1>2. CASE ~Without({"disk"})
  <2>1. KindsStay
    BY UnchangedFaults, FaultKeeps
       DEF Next, Start, RefreshAccountInfo, FetchList, Refetched, RefreshLoads, SavedOr, UpdateVPNType,
           UpdateRequirements, Pin, LoadChanges, Maintenance, PlanChanges, GluetunRestarts, Ends, Inv, vars
  <2> QED
    BY <1>2, <2>1, SameKinds DEF FiguresAgree
<1> QED
  BY <1>1, <1>2

\* No rebuild and no refresh takes a candidate back to older figures, for any
\* servers and any order of fetches, health checks and restarts.
THEOREM FiguresOnlyGetNewer == Spec => LoadsNeverGoBack
<1>1. Init => FiguresAgree
  <2> SUFFICES ASSUME Init PROVE FiguresAgree
    OBVIOUS
  <2>1. listFile.rows = NoRows /\ candidates = NoRows /\ latest = NoRows
    BY DEF Init, NoList
  <2> QED
    BY <2>1, NoRowsAnswered DEF FiguresAgree
<1>2. Spec => [](Inv /\ TypeOK /\ FiguresAgree)
  BY <1>1, FiguresAgreeNext, Invariance, TypeCorrectness, PTL DEF Spec
<1>3. Inv /\ TypeOK /\ FiguresAgree /\ [Next]_vars =>
        [Without({"disk"}) =>
            \A s \in DOMAIN candidates \cap DOMAIN candidates' : candidates'[s].at >= candidates[s].at]_vars
  BY NextAge DEF Newer
<1> QED
  BY <1>2, <1>3, PTL DEF LoadsNeverGoBack, Spec
-----------------------------------------------------------------------------
(* An inferred requirement is given up before it leaves no candidate.       *)

\* Without maintenance Proton never lists a server as out of service.
AllInService ==
    Without({"maintenance"}) =>
        /\ InService(world) /\ InService(listFile.rows) /\ InService(loadsFile.rows)
        /\ InService(latest)

\* A requirement has a reason, and one that was inferred has a candidate as
\* soon as there is a list.
InferenceIsMet ==
    /\ require => reason # ""
    /\ Without({"maintenance", "disk"}) /\ pc # "down" /\ require /\ reason = "VPN_PORT_FORWARDING" =>
          DOMAIN candidates # {} \/ DOMAIN listFile.rows = {}

\* Figures of servers in service drop none.
LEMMA InServiceKeeps ==
    ASSUME NEW set, NEW loads, InService(loads)
    PROVE  DOMAIN ApplyLoads(set, loads) = DOMAIN set
BY DEF ApplyLoads, InService

LEMMA RowsInService == ASSUME TypeOK, InService(world) PROVE InService(Rows)
BY DEF TypeOK, Rows, InService

LEMMA NextInService == TypeOK /\ Inv /\ AllInService /\ [Next]_vars => AllInService'
<1> SUFFICES ASSUME TypeOK, Inv, AllInService, [Next]_vars, Without({"maintenance"})'
             PROVE  /\ InService(world)' /\ InService(listFile.rows)' /\ InService(loadsFile.rows)'
                    /\ InService(latest)'
  BY DEF AllInService
<1>1. /\ Without({"maintenance"})
      /\ InService(world) /\ InService(listFile.rows) /\ InService(loadsFile.rows) /\ InService(latest)
  BY NextKinds, SameKinds DEF AllInService
<1>2. InService(Rows) /\ InService(NoRows)
  BY <1>1, RowsInService, NoRowsType
<1>3. InService(world)'
  <2>1. CASE UNCHANGED world
    BY <1>1, <2>1 DEF InService
  <2>2. CASE LoadChanges
    <3>1. PICK s \in Servers, l \in Loads : world' = [world EXCEPT ![s].load = l]
      BY <2>2 DEF LoadChanges
    <3>2. world \in [Servers -> [up : BOOLEAN, load : Loads]]
      BY DEF TypeOK
    <3> QED
      BY <1>1, <3>1, <3>2 DEF InService
  <2>3. ~Maintenance
    BY <1>1 DEF Maintenance, Without
  <2> QED
    BY <2>1, <2>2, <2>3
       DEF Next, Start, RefreshAccountInfo, FetchList, RefreshLoads, UpdateVPNType, UpdateRequirements,
           Pin, PlanChanges, GluetunRestarts, Ends, proton, vars
<1>4. listFile'.rows \in {listFile.rows, Rows}
  <2>1. CASE FetchList
    <3>1. listFile' = listFile \/ listFile' = [rows |-> Rows, at |-> now, modified |-> modified]
      BY <2>1 DEF FetchList, Refetched, Unfetched, SavedOr
    <3> QED
      BY <3>1
  <2>2. CASE ~FetchList
    <3>1. UNCHANGED listFile
      BY <2>2 DEF Next, Start, RefreshAccountInfo, RefreshLoads, UpdateVPNType, UpdateRequirements, Pin,
                  LoadChanges, Maintenance, PlanChanges, GluetunRestarts, Ends, engine, files, vars
    <3> QED
      BY <3>1
  <2> QED
    BY <2>1, <2>2
<1>5. loadsFile'.rows \in {loadsFile.rows, Rows}
  <2>1. CASE RefreshLoads
    <3>1. loadsFile' = loadsFile \/ loadsFile' = [rows |-> Rows, at |-> now]
      BY <2>1 DEF RefreshLoads, SavedOr
    <3> QED
      BY <3>1
  <2>2. CASE ~RefreshLoads
    <3>1. UNCHANGED loadsFile
      BY <2>2 DEF Next, Start, RefreshAccountInfo, FetchList, UpdateVPNType, UpdateRequirements, Pin,
                  LoadChanges, Maintenance, PlanChanges, GluetunRestarts, Ends, engine, files, vars
    <3> QED
      BY <3>1
  <2> QED
    BY <2>1, <2>2
<1>6. latest' \in {latest, loadsFile.rows, NoRows, Rows}
  BY DEF Next, Start, RefreshAccountInfo, FetchList, RefreshLoads, UpdateVPNType, UpdateRequirements,
         Pin, LoadChanges, Maintenance, PlanChanges, GluetunRestarts, Ends, engine, vars
<1> QED
  BY <1>1, <1>2, <1>3, <1>4, <1>5, <1>6

\* A rebuild keeps an inferred requirement only with a candidate that meets it.
LEMMA KeptWithCandidate ==
    ASSUME NEW rows, NEW required \in BOOLEAN, NEW why, NEW account, NEW protocol, NEW loads,
           InService(loads), ApplyLogicals(rows, required, why, account, protocol, loads),
           require', reason' = "VPN_PORT_FORWARDING"
    PROVE  DOMAIN candidates' # {}
<1> DEFINE gives == GivesUp(rows, required, why, account, protocol)
           still == required /\ ~gives
<1>1. /\ require' = still /\ reason' = (IF gives THEN "" ELSE why)
      /\ candidates' = ApplyLoads(Build(rows, still, account, protocol), loads)
  BY DEF ApplyLogicals
<1>2. required /\ ~gives /\ why = "VPN_PORT_FORWARDING"
  BY <1>1
<1>3. DOMAIN Build(rows, TRUE, account, protocol) # {}
  BY <1>2 DEF GivesUp
<1>4. still = TRUE
  BY <1>2
<1>5. DOMAIN candidates' = DOMAIN Build(rows, TRUE, account, protocol)
  BY <1>1, <1>4, InServiceKeeps
<1> QED
  BY <1>3, <1>5

\* What is required, for what reason, and of which candidates, across a rebuild.
LEMMA RebuiltWithCandidate ==
    ASSUME Inv, AllInService, NEW required \in BOOLEAN, NEW why, NEW protocol,
           Rebuild(required, why, protocol), UNCHANGED listFile,
           required => why # ""
    PROVE  /\ require' => reason' # ""
           /\ Without({"maintenance"}) /\ require' /\ reason' = "VPN_PORT_FORWARDING" =>
                 DOMAIN candidates' # {} \/ DOMAIN listFile'.rows = {}
<1>1. CASE listFile = NoList
  <2>1. require' = required /\ reason' = why
    BY <1>1 DEF Rebuild
  <2>2. DOMAIN listFile'.rows = {}
    BY <1>1, NoRowsAnswered DEF NoList
  <2> QED
    BY <2>1, <2>2
<1>2. CASE listFile # NoList
  <2>1. ApplyLogicals(listFile.rows, required, why, tier, protocol, latest)
    BY <1>2 DEF Rebuild
  <2>2. require' => required /\ reason' = why
    BY <2>1 DEF ApplyLogicals
  <2>3. Without({"maintenance"}) => InService(latest)
    BY DEF AllInService
  <2> QED
    BY <2>1, <2>2, <2>3, KeptWithCandidate
<1> QED
  BY <1>1, <1>2

LEMMA NextInference == TypeOK /\ Inv /\ AllInService /\ InferenceIsMet /\ [Next]_vars => InferenceIsMet'
<1> SUFFICES ASSUME TypeOK, Inv, AllInService, InferenceIsMet, [Next]_vars PROVE InferenceIsMet'
  OBVIOUS
<1> DEFINE Apart == Without({"maintenance", "disk"})
<1>1. Apart' <=> Apart
  BY NextKinds, SameKinds
<1>2. require \in BOOLEAN /\ (Apart => Without({"maintenance"}) /\ InService(Rows) /\ InService(latest))
  <2>1. Apart => Without({"maintenance"})
    BY DEF Without
  <2> QED
    BY <2>1, RowsInService DEF Inv, Types, AllInService
<1>3. CASE UNCHANGED <<require, reason, listFile, candidates>> /\ pc # "down"
  BY <1>1, <1>3 DEF InferenceIsMet
<1>4. CASE require' = FALSE
  BY <1>4 DEF InferenceIsMet
<1>5. CASE pc' = "down" /\ UNCHANGED <<require, reason>>
  BY <1>5 DEF InferenceIsMet
<1>6. CASE FetchList
  <2>1. CASE Refetched
    <3>1. ApplyLogicals(Rows, require, reason, tier, vpnType, latest)
      BY <2>1 DEF Refetched
    <3>2. require' => require /\ reason' = reason
      BY <3>1 DEF ApplyLogicals
    <3>3. Apart /\ require' /\ reason' = "VPN_PORT_FORWARDING" => DOMAIN candidates' # {}
      BY <1>2, <3>1, KeptWithCandidate
    <3> QED
      BY <1>1, <3>2, <3>3 DEF InferenceIsMet
  <2>2. CASE Unfetched
    BY <1>3, <1>6, <2>2 DEF FetchList, Unfetched, wants, sets
  <2> QED
    BY <1>6, <2>1, <2>2 DEF FetchList
<1>7. CASE RefreshLoads
  <2>1. Apart => DOMAIN candidates' = DOMAIN candidates
    BY <1>2, <1>7, InServiceKeeps DEF RefreshLoads
  <2> QED
    BY <1>1, <1>7, <2>1 DEF RefreshLoads, InferenceIsMet, wants
<1>8. CASE UpdateVPNType
  <2>1. UNCHANGED listFile /\ pc # "down"
    BY <1>8 DEF UpdateVPNType, files
  <2>2. CASE UNCHANGED <<require, reason, candidates>>
    BY <1>3, <2>1, <2>2
  <2>3. CASE Rebuild(require, reason, gl.protocol)
    <3>1. require => reason # ""
      BY DEF InferenceIsMet
    <3> QED
      BY <1>1, <1>2, <2>1, <2>3, <3>1, RebuiltWithCandidate DEF InferenceIsMet
  <2> QED
    BY <1>8, <2>2, <2>3 DEF UpdateVPNType, sets
<1>9. CASE UpdateRequirements
  <2> DEFINE why == IF gl.only THEN "PORT_FORWARD_ONLY"
                    ELSE IF Inferred /\ reason = "" THEN "VPN_PORT_FORWARDING" ELSE reason
  <2>1. UNCHANGED listFile /\ pc # "down"
    BY <1>9 DEF UpdateRequirements, files
  <2>2. require => reason # ""
    BY DEF InferenceIsMet
  <2>3. Required \in BOOLEAN
    BY <1>2 DEF Required, Inferred, Inv, Types
  <2>4. Required => why # ""
    BY <2>2 DEF Required
  <2>5. CASE reason' = why /\ UNCHANGED <<require, candidates>>
    BY <1>1, <2>1, <2>2, <2>5 DEF InferenceIsMet
  <2>6. CASE Rebuild(Required, why, vpnType)
    <3> HIDE DEF why
    <3> QED
      BY <1>1, <1>2, <2>1, <2>3, <2>4, <2>6, RebuiltWithCandidate DEF InferenceIsMet
  <2> QED
    BY <1>9, <2>5, <2>6 DEF UpdateRequirements, sets
<1>10. CASE Start
  BY <1>4, <1>10 DEF Start
<1>11. CASE Ends
  BY <1>5, <1>11 DEF Ends, wants
<1>12. CASE \/ RefreshAccountInfo \/ (\E s \in Servers : Pin(s)) \/ LoadChanges \/ Maintenance \/ PlanChanges
            \/ GluetunRestarts \/ UNCHANGED vars
  <2>1. UNCHANGED <<require, reason, listFile, candidates>> /\ (pc # "down" \/ pc' = "down")
    BY <1>12 DEF RefreshAccountInfo, Pin, LoadChanges, Maintenance, PlanChanges, GluetunRestarts, engine,
                 files, wants, sets, vars
  <2> QED
    BY <1>3, <1>5, <2>1
<1> QED
  BY <1>6, <1>7, <1>8, <1>9, <1>10, <1>11, <1>12 DEF Next

\* An inferred requirement never is the reason that there is no candidate, for
\* any servers, tiers and protocols, as long as none goes into maintenance.
THEOREM InferenceYields == Spec => []InferenceNeverStrands
<1>1. Init => AllInService /\ InferenceIsMet
  <2> SUFFICES ASSUME Init PROVE AllInService /\ InferenceIsMet
    OBVIOUS
  <2>1. listFile.rows = NoRows /\ loadsFile.rows = NoRows /\ latest = NoRows /\ ~require
    BY DEF Init, NoList
  <2>2. InService(world)
    BY DEF Init, InService
  <2> QED
    BY <2>1, <2>2, NoRowsType DEF AllInService, InferenceIsMet
<1>2. Spec => [](Inv /\ TypeOK /\ AllInService /\ InferenceIsMet)
  BY <1>1, NextInService, NextInference, Invariance, TypeCorrectness, PTL DEF Spec
<1>3. InferenceIsMet => InferenceNeverStrands
  <2> SUFFICES ASSUME InferenceIsMet, DOMAIN listFile.rows = {}
               PROVE  DOMAIN ApplyLoads(Build(listFile.rows, FALSE, tier, vpnType), latest) = {}
    BY DEF InferenceIsMet, InferenceNeverStrands
  <2>1. DOMAIN Build(listFile.rows, FALSE, tier, vpnType) \subseteq DOMAIN listFile.rows
    BY BuildIs
  <2>2. DOMAIN ApplyLoads(Build(listFile.rows, FALSE, tier, vpnType), latest)
           \subseteq DOMAIN Build(listFile.rows, FALSE, tier, vpnType)
    BY ApplyLoadsIs
  <2> QED
    BY <2>1, <2>2
<1> QED
  BY <1>2, <1>3, PTL

-----------------------------------------------------------------------------
(* No server is missing.                                                    *)

\* As long as the plan stays the same its tier is unknown or right.
TierIsPlan == Without({"plan"}) => {tier, tierFile} \subseteq {Unknown, plan}

\* A server of the list that the filters, the requirement, the tier and the
\* protocol all allow is a candidate, in every state of a program that runs.
NoneIsMissing ==
    Without({"maintenance", "plan", "disk"}) /\ pc # "down" =>
        \A s \in DOMAIN listFile.rows :
            Survives(s, listFile.rows, require, tier, vpnType) => s \in DOMAIN candidates

\* What survives the filters is what the catalogue is made of.
LEMMA SurvivorsAreBuilt ==
    ASSUME NEW rows, NEW required, NEW account, NEW protocol, NEW loads, InService(loads),
           NEW s \in DOMAIN rows, Survives(s, rows, required, account, protocol)
    PROVE  s \in DOMAIN ApplyLoads(Build(rows, required, account, protocol), loads)
<1>1. s \in DOMAIN Build(rows, required, account, protocol)
  BY DEF Build
<1> QED
  BY <1>1, InServiceKeeps

LEMMA RebuiltWithAll ==
    ASSUME NEW rows, NEW required, NEW why, NEW account, NEW protocol, NEW loads, InService(loads),
           ApplyLogicals(rows, required, why, account, protocol, loads),
           NEW s \in DOMAIN rows, Survives(s, rows, require', account, protocol)
    PROVE  s \in DOMAIN candidates'
<1> DEFINE still == required /\ ~GivesUp(rows, required, why, account, protocol)
<1>1. require' = still /\ candidates' = ApplyLoads(Build(rows, still, account, protocol), loads)
  BY DEF ApplyLogicals
<1> HIDE DEF still
<1> QED
  BY <1>1, SurvivorsAreBuilt

\* A tier that becomes known only takes servers away.
LEMMA TierTakesAway ==
    ASSUME NEW s, NEW rows, NEW required, NEW protocol, NEW account,
           Survives(s, rows, required, account, protocol)
    PROVE  Survives(s, rows, required, Unknown, protocol)
BY DEF Survives, Usable

LEMMA NextTierIsPlan == Inv /\ TierIsPlan /\ [Next]_vars => TierIsPlan'
<1> SUFFICES ASSUME Inv, TierIsPlan, [Next]_vars, Without({"plan"})'
             PROVE  {tier', tierFile'} \subseteq {Unknown, plan'}
  BY DEF TierIsPlan
<1>1. Without({"plan"}) /\ {tier, tierFile} \subseteq {Unknown, plan}
  BY NextKinds, SameKinds DEF TierIsPlan
<1>2. plan' = plan
  <2>1. ~PlanChanges
    BY <1>1, FaultKeeps DEF PlanChanges, Without, Inv
  <2> QED
    BY <2>1 DEF Next, Start, RefreshAccountInfo, FetchList, RefreshLoads, UpdateVPNType, UpdateRequirements,
                Pin, LoadChanges, Maintenance, GluetunRestarts, Ends, proton, vars
<1>3. {tier', tierFile'} \subseteq {tier, tierFile, plan}
  BY DEF Next, Start, RefreshAccountInfo, SavedOr, FetchList, RefreshLoads, UpdateVPNType,
         UpdateRequirements, Pin, LoadChanges, Maintenance, PlanChanges, GluetunRestarts, Ends, engine, files,
         vars
<1> QED
  BY <1>1, <1>2, <1>3

LEMMA NextMissing ==
    TypeOK /\ Inv /\ AllInService /\ TierIsPlan /\ NoneIsMissing /\ [Next]_vars => NoneIsMissing'
<1> SUFFICES ASSUME TypeOK, Inv, AllInService, TierIsPlan, NoneIsMissing, [Next]_vars,
                    Without({"maintenance", "plan", "disk"})', pc' # "down",
                    NEW s \in DOMAIN listFile'.rows,
                    Survives(s, listFile'.rows, require', tier', vpnType')
             PROVE  s \in DOMAIN candidates'
  BY DEF NoneIsMissing
<1>1. /\ Without({"maintenance"}) /\ Without({"plan"}) /\ Without({"disk"})
      /\ Without({"maintenance", "plan", "disk"})
  <2>1. Without({"maintenance", "plan", "disk"})
    BY NextKinds, SameKinds
  <2> QED
    BY <2>1 DEF Without
<1>2. /\ InService(latest) /\ InService(loadsFile.rows) /\ InService(Rows) /\ InService(NoRows)
      /\ tier \in {Unknown, plan}
  BY <1>1, RowsInService, NoRowsType DEF AllInService, TierIsPlan
<1>3. pc # "down" /\ s \in DOMAIN listFile.rows /\ Survives(s, listFile.rows, require, tier, vpnType)
         => s \in DOMAIN candidates
  BY <1>1 DEF NoneIsMissing
<1>4. CASE UNCHANGED <<listFile, require, tier, vpnType, candidates>> /\ pc # "down"
  BY <1>3, <1>4
<1>5. CASE Start
  <2>1. /\ tier' = tierFile /\ vpnType' = "" /\ require' = FALSE /\ listFile' = listFile
        /\ \E loads \in {loadsFile.rows, NoRows} :
              candidates' = ApplyLoads(Build(listFile.rows, FALSE, tierFile, ""), loads)
    BY <1>5 DEF Start, files
  <2> QED
    BY <1>2, <2>1, SurvivorsAreBuilt
<1>6. CASE RefreshAccountInfo
  <2>1. /\ UNCHANGED <<listFile, require, vpnType, candidates>> /\ pc # "down"
        /\ tier' = tier \/ tier' = plan
    BY <1>6 DEF RefreshAccountInfo, wants, sets
  <2>2. CASE tier = Unknown
    BY <1>3, <2>1, <2>2, TierTakesAway
  <2>3. CASE tier = plan
    BY <1>3, <2>1, <2>3
  <2> QED
    BY <1>2, <2>2, <2>3
<1>7. CASE FetchList
  <2>1. CASE Refetched
    <3>1. ApplyLogicals(Rows, require, reason, tier, vpnType, latest) /\ UNCHANGED <<tier, vpnType>>
      BY <1>7, <2>1 DEF FetchList, Refetched
    <3>2. ~Fault("disk")
      BY <1>1 DEF Fault, Without
    <3>3. listFile'.rows = Rows
      BY <2>1, <3>2 DEF Refetched, SavedOr
    <3> QED
      BY <1>2, <3>1, <3>3, RebuiltWithAll
  <2>2. CASE Unfetched
    BY <1>4, <1>7, <2>2 DEF FetchList, Unfetched, wants, sets
  <2> QED
    BY <1>7, <2>1, <2>2 DEF FetchList
<1>8. CASE RefreshLoads
  <2>1. DOMAIN candidates' = DOMAIN candidates
    BY <1>2, <1>8, InServiceKeeps DEF RefreshLoads
  <2> QED
    BY <1>3, <1>8, <2>1 DEF RefreshLoads, wants
<1>9. CASE UpdateVPNType \/ UpdateRequirements
  <2>1. UNCHANGED <<listFile, tier>> /\ pc # "down"
    BY <1>9 DEF UpdateVPNType, UpdateRequirements, files
  <2>2. CASE UNCHANGED <<require, vpnType, candidates>>
    BY <1>4, <2>1, <2>2
  <2>3. CASE \E required, why : Rebuild(required, why, vpnType')
    <3>1. PICK required, why : Rebuild(required, why, vpnType')
      BY <2>3
    <3>2. listFile # NoList
      BY <2>1, NoRowsAnswered DEF NoList
    <3>3. ApplyLogicals(listFile.rows, required, why, tier, vpnType', latest)
      BY <3>1, <3>2 DEF Rebuild
    <3> QED
      BY <1>2, <2>1, <3>3, RebuiltWithAll
  <2>4. \/ UNCHANGED <<require, vpnType, candidates>>
        \/ \E required, why : Rebuild(required, why, vpnType')
    <3>1. CASE UpdateVPNType
      <4>1. CASE vpnType = gl.protocol
        BY <3>1, <4>1 DEF UpdateVPNType, sets
      <4>2. CASE vpnType # gl.protocol
        BY <3>1, <4>2 DEF UpdateVPNType
      <4> QED
        BY <4>1, <4>2
    <3>2. CASE UpdateRequirements
      <4>1. CASE Required = require
        BY <3>2, <4>1 DEF UpdateRequirements, sets
      <4>2. CASE Required # require
        <5>1. vpnType' = vpnType /\ \E why : Rebuild(Required, why, vpnType)
          BY <3>2, <4>2 DEF UpdateRequirements
        <5> QED
          BY <5>1
      <4> QED
        BY <4>1, <4>2
    <3> QED
      BY <1>9, <3>1, <3>2
  <2> QED
    BY <2>2, <2>3, <2>4
<1>10. CASE \/ (\E t \in Servers : Pin(t)) \/ LoadChanges \/ Maintenance \/ PlanChanges \/ GluetunRestarts
            \/ UNCHANGED vars
  <2>1. UNCHANGED <<listFile, require, tier, vpnType, candidates, pc>>
    BY <1>10 DEF Pin, LoadChanges, Maintenance, PlanChanges, GluetunRestarts, engine, files, wants, sets, vars
  <2> QED
    BY <1>4, <2>1
<1>11. ~Ends
  BY DEF Ends
<1> QED
  BY <1>5, <1>6, <1>7, <1>8, <1>9, <1>10, <1>11 DEF Next

\* Behind "the candidates converge": with the candidates all usable and none
\* missing, whatever is refetched, restarted or learned late, fairness only has
\* to start the program again.
THEOREM CandidatesAreComplete == Spec => []NoneIsMissing
<1>1. Init => AllInService /\ TierIsPlan /\ NoneIsMissing
  <2> SUFFICES ASSUME Init PROVE AllInService /\ TierIsPlan /\ NoneIsMissing
    OBVIOUS
  <2>1. /\ listFile.rows = NoRows /\ loadsFile.rows = NoRows /\ latest = NoRows
        /\ tier = Unknown /\ tierFile = Unknown /\ pc = "down"
    BY DEF Init, NoList
  <2>2. InService(world)
    BY DEF Init, InService
  <2> QED
    BY <2>1, <2>2, NoRowsType DEF AllInService, TierIsPlan, NoneIsMissing
<1>2. Spec => [](Inv /\ TypeOK /\ AllInService /\ TierIsPlan /\ NoneIsMissing)
  BY <1>1, NextInService, NextTierIsPlan, NextMissing, Invariance, TypeCorrectness, PTL DEF Spec
<1> QED
  BY <1>2, PTL

=============================================================================
