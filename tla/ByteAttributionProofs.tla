------------------------ MODULE ByteAttributionProofs ------------------------
(***************************************************************************)
(* Theorems about ByteAttribution, for any servers, any traffic, any moves *)
(* and any number of faults.  The sums over the servers are folds, which   *)
(* are recursive functions: the section on sums shows that they exist and  *)
(* what one changed term does to them.                                     *)
(***************************************************************************)
EXTENDS ByteAttribution, FiniteSetTheorems, TLAPS

\* What moves the tunnel, or holds up a poll, without the program noticing.
Unseen == {"switchTo", "late", "moves", "unanswered", "busyLoop"}

\* The program knows where the tunnel is, and a baseline that can be used is one
\* of that server, with no more counted from it than is still uncredited.
BaselineIsOurs ==
    Without(Unseen) =>
        /\ pinned = tunnel /\ shown = tunnel
        /\ settled /\ base.host # None => base.host = tunnel
        /\ settled /\ base.host # None /\ counter >= base.bytes =>
              counter - base.bytes <= carried[tunnel] - credited[tunnel]

\* A server that is not the one measured last has a stay to be counted.
StayIsOpen ==
    Without({"dips"} \cup Unseen) => (measuring # tunnel => visits[tunnel] < stays[tunnel])

Inv == TypeOK /\ BaselineIsOurs /\ CreditedWhereCarried /\ StayIsOpen /\ VisitsAreStays

-----------------------------------------------------------------------------
LEMMA Assumed ==
    /\ None \notin Servers /\ Servers # {} /\ IsFiniteSet(Servers)
    /\ MaxBytes \in Nat /\ MaxMoves \in Nat /\ MaxFaults \in Nat
BY ByteAttributionAssumption

LEMMA Stricter == Without({"dips"} \cup Unseen) => Without(Unseen)
BY DEF Without, Unseen

\* A fault is one of the kinds of the behaviour, which stay the same.
LEMMA FaultKeeps ==
    ASSUME TypeOK, NEW kind, Fault(kind)
    PROVE  /\ faults' \in [kinds : FaultMixes, left : 0..MaxFaults]
           /\ faults'.kinds = faults.kinds /\ kind \in faults.kinds
BY Assumed DEF TypeOK, Fault

LEMMA InitInv == Init => Inv
<1> SUFFICES ASSUME Init PROVE Inv
  OBVIOUS
<1>1. TypeOK
  BY Assumed DEF Init, TypeOK, NoBase
<1>2. BaselineIsOurs /\ StayIsOpen
  BY Assumed DEF Init, BaselineIsOurs, StayIsOpen, NoBase
<1>3. CreditedWhereCarried /\ VisitsAreStays
  BY DEF Init, CreditedWhereCarried, VisitsAreStays
<1> QED
  BY <1>1, <1>2, <1>3 DEF Inv

-----------------------------------------------------------------------------
(* Sums                                                                     *)

\* A set that holds 0 and the successor of each number it holds, holds them all.
LEMMA SetInduction ==
    ASSUME NEW T, 0 \in T, \A n \in Nat : n \in T => n + 1 \in T
    PROVE  \A n \in Nat : n \in T
<1> DEFINE Less == OpToRel(<, Nat)
           Missing == Nat \ T
<1> SUFFICES ASSUME Missing # {} PROVE FALSE
  OBVIOUS
<1>1. IsWellFoundedOn(Less, Nat)
  BY NatLessThanWellFounded
<1>2. \A m, n \in Nat : m < n => <<m, n>> \in Less
  BY Zenon DEF OpToRel
<1> HIDE DEF Less
<1>3. PICK x \in Missing : \A y \in Missing : ~(<<y, x>> \in Less)
  <2>1. Missing \subseteq Nat
    OBVIOUS
  <2> HIDE DEF Missing
  <2> QED
    BY <2>1, <1>1, WFMin
<1>4. x \in Nat /\ x # 0 /\ x \notin T
  OBVIOUS
<1>5. x - 1 \in Nat /\ <<x - 1, x>> \in Less /\ x - 1 + 1 = x
  BY <1>2, <1>4
<1>6. x - 1 \in T
  BY <1>3, <1>5
<1> QED
  BY <1>4, <1>5, <1>6

\* The element a fold takes next.
Chosen(s) == CHOOSE x \in s : TRUE

\* g adds up f over every subset of S.
Sums(g, f, S) ==
    g = [s \in SUBSET S |-> IF s = {} THEN 0 ELSE f[Chosen(s)] + g[s \ {Chosen(s)}]]

\* A subset without its chosen element is one smaller.
LEMMA Smaller ==
    ASSUME NEW S, IsFiniteSet(S)
    PROVE  \A s \in SUBSET S :
               /\ Cardinality(s) \in Nat /\ (Cardinality(s) = 0 <=> s = {})
               /\ s # {} => /\ Chosen(s) \in s /\ s \ {Chosen(s)} \in SUBSET S
                            /\ Cardinality(s \ {Chosen(s)}) = Cardinality(s) - 1
<1> TAKE s \in SUBSET S
<1>1. IsFiniteSet(s)
  BY FS_Subset
<1>2. Cardinality(s) \in Nat /\ (Cardinality(s) = 0 <=> s = {})
  BY <1>1, FS_CardinalityType, FS_EmptySet
<1>3. s # {} => Chosen(s) \in s
  BY DEF Chosen
<1>4. s # {} => Cardinality(s \ {Chosen(s)}) = Cardinality(s) - 1
  BY <1>1, <1>3, FS_RemoveElement
<1> QED
  BY <1>2, <1>3, <1>4

\* The recursion of a sum has a solution: up to every size of the subsets, and
\* so up to the size of the whole set.
LEMMA SumsExist ==
    ASSUME NEW f, NEW S, IsFiniteSet(S)
    PROVE  \E g : Sums(g, f, S)
<1> DEFINE Upto(n) == {s \in SUBSET S : Cardinality(s) <= n}
           Step(g, s) == IF s = {} THEN 0 ELSE f[Chosen(s)] + g[s \ {Chosen(s)}]
           SumsUpto(g, n) == g = [s \in Upto(n) |-> Step(g, s)]
           T == {n \in Nat : \E g : SumsUpto(g, n)}
<1>0. \A s \in SUBSET S : /\ Cardinality(s) \in Nat /\ (Cardinality(s) = 0 <=> s = {})
                          /\ s # {} => /\ s \ {Chosen(s)} \in SUBSET S
                                       /\ Cardinality(s \ {Chosen(s)}) = Cardinality(s) - 1
  BY Smaller
<1>1. 0 \in T
  <2>1. ASSUME NEW s \in SUBSET S, Cardinality(s) <= 0 PROVE s = {}
    <3>1. Cardinality(s) \in Nat /\ (Cardinality(s) = 0 <=> s = {})
      BY <1>0
    <3> QED
      BY <2>1, <3>1
  <2>2. SumsUpto([s \in Upto(0) |-> 0], 0)
    BY <2>1
  <2> QED
    BY <2>2
<1>2. ASSUME NEW n \in Nat, n \in T PROVE n + 1 \in T
  <2>1. PICK g : SumsUpto(g, n)
    BY <1>2
  <2> DEFINE h == [s \in Upto(n + 1) |-> Step(g, s)]
  <2>2. Upto(n) \subseteq Upto(n + 1)
    <3> SUFFICES ASSUME NEW s \in SUBSET S, Cardinality(s) <= n PROVE Cardinality(s) <= n + 1
      OBVIOUS
    <3> QED
      <4>1. Cardinality(s) \in Nat
        BY <1>0
      <4> QED
        BY <4>1
  <2>3. \A s \in Upto(n) : h[s] = g[s]
    <3> HIDE DEF Upto, Step
    <3> QED
      BY <2>1, <2>2
  <2>4. \A s \in Upto(n + 1) : s # {} => s \ {Chosen(s)} \in Upto(n)
    BY <1>0
  <2>5. \A s \in Upto(n + 1) : Step(h, s) = Step(g, s)
    <3> HIDE DEF Upto, h
    <3> QED
      BY <2>3, <2>4
  <2>6. SumsUpto(h, n + 1)
    <3> HIDE DEF Upto, Step
    <3> QED
      BY <2>5
  <2> HIDE DEF SumsUpto, h
  <2> QED
    BY <2>6
<1>3. Cardinality(S) \in T
  BY <1>1, <1>2, SetInduction, FS_CardinalityType
<1>4. Upto(Cardinality(S)) = SUBSET S
  BY FS_Subset
<1> QED
  BY <1>3, <1>4 DEF Sums

LEMMA SumUnfolds ==
    ASSUME NEW f, NEW S, IsFiniteSet(S)
    PROVE  \E g : Sums(g, f, S) /\ SumFunctionOnSet(f, S) = g[S]
<1> DEFINE g == CHOOSE g : Sums(g, f, S)
<1>1. SumFunctionOnSet(f, S) = g[S]
  BY DEF SumFunctionOnSet, FoldFunctionOnSet, MapThenFoldSet, Sums, Chosen
<1>2. Sums(g, f, S)
  BY SumsExist
<1> QED
  BY <1>1, <1>2

\* A sum grows by what one of its terms grows by.
LEMMA SumOfChanged ==
    ASSUME NEW S, IsFiniteSet(S), NEW f \in [S -> Int], NEW h \in S, NEW d \in Int
    PROVE  /\ SumFunction(f) \in Int
           /\ SumFunction([f EXCEPT ![h] = @ + d]) = SumFunction(f) + d
<1> DEFINE e == [f EXCEPT ![h] = @ + d]
<1>0. \A s \in SUBSET S : /\ Cardinality(s) \in Nat /\ (Cardinality(s) = 0 <=> s = {})
                          /\ s # {} => /\ Chosen(s) \in s /\ s \ {Chosen(s)} \in SUBSET S
                                       /\ Cardinality(s \ {Chosen(s)}) = Cardinality(s) - 1
  BY Smaller
<1>1. PICK g : Sums(g, f, S) /\ SumFunctionOnSet(f, S) = g[S]
  BY SumUnfolds
<1>2. PICK k : Sums(k, e, S) /\ SumFunctionOnSet(e, S) = k[S]
  BY SumUnfolds
<1> DEFINE Right(s) == g[s] \in Int /\ k[s] = g[s] + IF h \in s THEN d ELSE 0
           T == {n \in Nat : \A s \in SUBSET S : Cardinality(s) = n => Right(s)}
<1>3. 0 \in T
  <2> SUFFICES Right({})
    BY <1>0
  <2> QED
    BY <1>1, <1>2 DEF Sums
<1>4. ASSUME NEW n \in Nat, n \in T PROVE n + 1 \in T
  <2> SUFFICES ASSUME NEW s \in SUBSET S, Cardinality(s) = n + 1 PROVE Right(s)
    OBVIOUS
  <2> DEFINE x == Chosen(s)
             r == s \ {x}
  <2>1. s # {} /\ x \in s /\ r \in SUBSET S /\ Cardinality(r) = n
    BY <1>0
  <2>2. Right(r)
    BY <1>4, <2>1
  <2>3. g[s] = f[x] + g[r] /\ k[s] = e[x] + k[r]
    BY <1>1, <1>2, <2>1 DEF Sums
  <2>4. x \in S /\ f[x] \in Int /\ e[x] = IF x = h THEN f[x] + d ELSE f[x]
    BY <2>1
  <2>5. h \in r <=> h \in s /\ x # h
    OBVIOUS
  <2> HIDE DEF x, r, e
  <2> QED
    BY <2>1, <2>2, <2>3, <2>4, <2>5
<1>5. Right(S)
  BY <1>3, <1>4, SetInduction, FS_CardinalityType
<1> QED
  BY <1>1, <1>2, <1>5 DEF SumFunction

-----------------------------------------------------------------------------
(* The world and the run loop                                               *)

LEMMA TrafficInv == Inv /\ Traffic => Inv'
<1> SUFFICES ASSUME Inv, Traffic PROVE Inv'
  OBVIOUS
<1>1. /\ counter' = counter + 1 /\ carried' = [carried EXCEPT ![tunnel] = @ + 1]
      /\ UNCHANGED <<tunnel, up, stays, moves, faults, view, records>>
  BY DEF Traffic
<1>2. TypeOK'
  BY <1>1 DEF Inv, TypeOK, view, records
<1>3. BaselineIsOurs' /\ StayIsOpen'
  BY <1>1 DEF Inv, TypeOK, BaselineIsOurs, StayIsOpen, CreditedWhereCarried, Without, Unseen, view, records
<1>4. CreditedWhereCarried' /\ VisitsAreStays'
  BY <1>1 DEF Inv, TypeOK, CreditedWhereCarried, VisitsAreStays, Without, view, records
<1> QED
  BY <1>2, <1>3, <1>4 DEF Inv

\* The tunnel comes to a server; the program knows, or the behaviour is one in
\* which it need not.
LEMMA ArrivesInv ==
    ASSUME Inv, NEW h \in Servers, Arrives(h),
           faults' \in [kinds : FaultMixes, left : 0..MaxFaults],
           faults'.kinds = faults.kinds,
           pinned' \in {pinned, h}, shown' \in {shown, h}, settled' \in BOOLEAN,
           UNCHANGED shownUp, UNCHANGED records,
           Without(Unseen) => pinned' = h /\ shown' = h /\ ~settled'
    PROVE  Inv'
<1>1. /\ h # tunnel /\ moves' = moves + 1 /\ moves < MaxMoves
      /\ tunnel' = h /\ up' = TRUE /\ stays' = [stays EXCEPT ![h] = @ + 1]
      /\ UNCHANGED <<counter, carried>>
  BY DEF Arrives
<1>2. TypeOK'
  BY <1>1, Assumed DEF Inv, TypeOK, records
<1>3. BaselineIsOurs'
  BY <1>1 DEF BaselineIsOurs, Without, Unseen
<1>4. CreditedWhereCarried'
  BY <1>1 DEF Inv, CreditedWhereCarried, Without, records
<1>5. StayIsOpen' /\ VisitsAreStays'
  BY <1>1 DEF Inv, TypeOK, StayIsOpen, VisitsAreStays, Without, Unseen, records
<1> QED
  BY <1>2, <1>3, <1>4, <1>5 DEF Inv

LEMMA MovesInv ==
    Inv /\ (GluetunMoves \/ Round \/ RoundTimesOut \/ SwitchTo) => Inv'
<1> SUFFICES ASSUME Inv, GluetunMoves \/ Round \/ RoundTimesOut \/ SwitchTo PROVE Inv'
  OBVIOUS
<1>0. TypeOK
  BY DEF Inv
<1>1. CASE GluetunMoves
  <2>1. PICK h \in Servers : Arrives(h)
    BY <1>1 DEF GluetunMoves
  <2>2. Fault("moves") /\ UNCHANGED <<view, records>>
    BY <1>1 DEF GluetunMoves
  <2>3. ~Without(Unseen)
    BY <1>0, <2>2, FaultKeeps DEF Without, Unseen
  <2> QED
    BY <1>0, <2>1, <2>2, <2>3, ArrivesInv, FaultKeeps DEF view, TypeOK
<1>2. CASE Round
  <2>1. PICK h \in Servers : Arrives(h) /\ pinned' = h /\ shown' = h
    BY <1>2 DEF Round
  <2> QED
    BY <1>0, <1>2, <2>1, ArrivesInv DEF Round, TypeOK
<1>3. CASE RoundTimesOut
  <2>1. PICK h \in Servers : Arrives(h) /\ pinned' = h
    BY <1>3 DEF RoundTimesOut
  <2>2. ~Without(Unseen)
    BY <1>0, <1>3, FaultKeeps DEF RoundTimesOut, Without, Unseen
  <2> QED
    BY <1>0, <1>3, <2>1, <2>2, ArrivesInv, FaultKeeps DEF RoundTimesOut, TypeOK
<1>4. CASE SwitchTo
  <2>1. PICK h \in Servers : Arrives(h) /\ pinned' = h
    BY <1>4 DEF SwitchTo
  <2>2. ~Without(Unseen)
    BY <1>0, <1>4, FaultKeeps DEF SwitchTo, Without, Unseen
  <2> QED
    BY <1>0, <1>4, <2>1, <2>2, ArrivesInv, FaultKeeps DEF SwitchTo, TypeOK
<1> QED
  BY <1>1, <1>2, <1>3, <1>4

\* A step that leaves the tunnel where it is and credits nobody.
LEMMA StaysInv ==
    ASSUME Inv, UNCHANGED <<tunnel, carried, stays, moves, credited, visits, measuring>>,
           faults' \in [kinds : FaultMixes, left : 0..MaxFaults],
           faults'.kinds = faults.kinds, up' \in BOOLEAN, shownUp' \in BOOLEAN,
           settled' \in BOOLEAN, counter' \in {0, counter},
           shown' \in {shown, tunnel, None, pinned}, pinned' \in {pinned, None},
           Without(Unseen) =>
               /\ pinned' = tunnel /\ shown' = tunnel
               /\ base' = NoBase \/ (base' = base /\ settled' = settled),
           base' \in {base, NoBase}
    PROVE  Inv'
<1>1. TypeOK'
  BY DEF Inv, TypeOK, NoBase
<1>2. CreditedWhereCarried' /\ VisitsAreStays' /\ StayIsOpen'
  BY DEF Inv, CreditedWhereCarried, VisitsAreStays, StayIsOpen, Without
<1>3. BaselineIsOurs'
  <2> SUFFICES ASSUME Without(Unseen)' PROVE BaselineIsOurs'
    BY DEF BaselineIsOurs
  <2>1. Without(Unseen)
    BY DEF Without, Unseen
  <2>2. credited[tunnel] <= carried[tunnel]
    BY <2>1 DEF Inv, TypeOK, CreditedWhereCarried, Unseen
  <2>3. CASE base' = NoBase
    BY <2>1, <2>3 DEF BaselineIsOurs, NoBase
  <2>4. CASE base' = base /\ settled' = settled
    BY <2>1, <2>2, <2>4 DEF Inv, TypeOK, BaselineIsOurs
  <2> QED
    BY <2>1, <2>3, <2>4
<1> QED
  BY <1>1, <1>2, <1>3 DEF Inv

LEMMA QuietInv ==
    Inv /\ (TunnelDrops \/ TunnelReturns \/ QbittorrentRestarts \/ HealthCheck
               \/ Restart \/ LoopBusy \/ Unanswered) => Inv'
<1> SUFFICES ASSUME Inv,
                    TunnelDrops \/ TunnelReturns \/ QbittorrentRestarts \/ HealthCheck
                       \/ Restart \/ LoopBusy \/ Unanswered
             PROVE  Inv'
  OBVIOUS
<1>0. TypeOK /\ (Without(Unseen) => pinned = tunnel /\ shown = tunnel)
  BY DEF Inv, BaselineIsOurs
<1>1. CASE TunnelDrops
  BY <1>0, <1>1, FaultKeeps, StaysInv DEF TunnelDrops, view, records, TypeOK
<1>2. CASE TunnelReturns
  BY <1>0, <1>2, StaysInv DEF TunnelReturns, view, records, TypeOK
<1>3. CASE QbittorrentRestarts
  BY <1>0, <1>3, FaultKeeps, StaysInv DEF QbittorrentRestarts, view, records, TypeOK
<1>4. CASE HealthCheck
  BY <1>0, <1>4, StaysInv DEF HealthCheck, world, records, TypeOK
<1>5. CASE Restart
  BY <1>0, <1>5, FaultKeeps, StaysInv DEF Restart, world, TypeOK
<1>6. CASE LoopBusy
  <2>1. ~Without(Unseen)
    BY <1>0, <1>6, FaultKeeps DEF LoopBusy, Without, Unseen
  <2> QED
    BY <1>0, <1>6, <2>1, FaultKeeps, StaysInv DEF LoopBusy, world, records, TypeOK
<1>7. CASE Unanswered
  <2>1. ~Without(Unseen)
    BY <1>0, <1>7, FaultKeeps DEF Unanswered, Without, Unseen
  <2> QED
    BY <1>0, <1>7, <2>1, FaultKeeps, StaysInv DEF Unanswered, world, records, TypeOK
<1> QED
  BY <1>1, <1>2, <1>3, <1>4, <1>5, <1>6, <1>7

-----------------------------------------------------------------------------
(* The polls                                                                *)

\* Readings without a rate but with bytes are the fault "dips".
LEMMA RateIs ==
    ASSUME TypeOK, NEW moving \in BOOLEAN, InstantRate(moving)
    PROVE  /\ faults' \in [kinds : FaultMixes, left : 0..MaxFaults]
           /\ faults'.kinds = faults.kinds
           /\ Since > 0 /\ ~moving => ~Without({"dips"} \cup Unseen)
<1>1. CASE moving \/ ~(Since > 0)
  BY <1>1 DEF InstantRate, TypeOK
<1>2. CASE ~moving /\ Since > 0
  BY <1>2, FaultKeeps DEF InstantRate, Without
<1> QED
  BY <1>1, <1>2

LEMMA PollInv ==
    ASSUME Inv, NEW moving \in BOOLEAN, InstantRate(moving), RecordTransfer(moving),
           UNCHANGED <<shown, shownUp, pinned>>, settled' \in {settled, TRUE}, UNCHANGED world
    PROVE  Inv'
<1>0. TypeOK
  BY DEF Inv
<1>1. /\ faults' \in [kinds : FaultMixes, left : 0..MaxFaults]
      /\ faults'.kinds = faults.kinds
      /\ Since > 0 /\ ~moving => ~Without({"dips"} \cup Unseen)
  BY <1>0, RateIs
<1>2. CASE ~Attributable
  <2>1. base' = NoBase /\ UNCHANGED <<credited, visits, measuring>>
    BY <1>2 DEF RecordTransfer, Declined
  <2>2. Without(Unseen) => pinned' = tunnel /\ shown' = tunnel
    BY DEF Inv, BaselineIsOurs
  <2> QED
    BY <1>0, <1>1, <2>1, <2>2, StaysInv DEF world, TypeOK
<1>3. CASE Attributable
  <2>1. /\ shown \in Servers /\ (shown = pinned => settled)
        /\ base' = [host |-> shown, bytes |-> counter]
    BY <1>0, <1>3 DEF RecordTransfer, Credit, Attributable, TypeOK
  <2>2. Since \in Nat
    BY <1>0 DEF Since, TypeOK
  <2>3. \/ /\ Since > 0 \/ moving
           /\ credited' = [credited EXCEPT ![shown] = @ + Since]
           /\ visits' = [visits EXCEPT ![shown] = @ + IF NewStay THEN 1 ELSE 0]
           /\ measuring' = IF moving THEN shown ELSE measuring
        \/ Since = 0 /\ UNCHANGED <<credited, visits, measuring>>
    BY <1>3, <2>2 DEF RecordTransfer, Credit
  <2>4. TypeOK'
    <3>1. credited' \in [Servers -> Nat] /\ visits' \in [Servers -> Nat]
      BY <1>0, <2>1, <2>2, <2>3 DEF TypeOK
    <3>2. measuring' \in Servers \cup {None}
      BY <1>0, <2>1, <2>3 DEF TypeOK
    <3> QED
      BY <1>0, <1>1, <2>1, <3>1, <3>2 DEF TypeOK, world
  <2>5. ASSUME Without(Unseen)
        PROVE  /\ shown = tunnel /\ pinned = tunnel
               /\ Since <= carried[tunnel] - credited[tunnel]
               /\ \A h \in Servers : credited[h] <= carried[h]
    <3>1. \A h \in Servers : credited[h] <= carried[h]
      BY <2>5 DEF Inv, CreditedWhereCarried, Unseen
    <3>2. shown = tunnel /\ pinned = tunnel /\ settled
      BY <2>1, <2>5 DEF Inv, BaselineIsOurs
    <3> QED
      BY <1>0, <2>5, <3>1, <3>2, Assumed DEF Inv, BaselineIsOurs, Since, TypeOK
  <2>6. BaselineIsOurs' /\ CreditedWhereCarried'
    <3>1. Without(Unseen)' => Without(Unseen)
      BY <1>1 DEF Without, Unseen
    <3>2. Without(Unseen)' => \A h \in Servers : (credited[h] <= carried[h])'
      BY <1>0, <2>1, <2>2, <2>3, <2>5, <3>1 DEF TypeOK, world
    <3>3. CreditedWhereCarried'
      BY <3>2 DEF CreditedWhereCarried, Unseen
    <3>4. BaselineIsOurs'
      BY <2>1, <2>4, <2>5, <3>1, <3>2 DEF BaselineIsOurs, TypeOK, world
    <3> QED
      BY <3>3, <3>4
  <2>7. StayIsOpen' /\ VisitsAreStays'
    <3> SUFFICES ASSUME Without({"dips"} \cup Unseen)'
                 PROVE  /\ (measuring # tunnel => visits[tunnel] < stays[tunnel])'
                        /\ \A h \in Servers : (visits[h] <= stays[h])'
      BY DEF StayIsOpen, VisitsAreStays, Unseen
    <3>1. Without({"dips"} \cup Unseen)
      BY <1>1 DEF Without, Unseen
    <3>2. \A h \in Servers : visits[h] <= stays[h]
      BY <3>1 DEF Inv, VisitsAreStays, Unseen
    <3>3. measuring # tunnel => visits[tunnel] < stays[tunnel]
      BY <3>1 DEF Inv, StayIsOpen
    <3>4. shown = tunnel
      BY <2>5, <3>1, Stricter
    <3>5. CASE UNCHANGED <<credited, visits, measuring>>
      BY <3>2, <3>3, <3>5 DEF world
    <3>6. CASE /\ Since > 0 \/ moving
               /\ visits' = [visits EXCEPT ![shown] = @ + IF NewStay THEN 1 ELSE 0]
               /\ measuring' = IF moving THEN shown ELSE measuring
      <4>1. moving
        BY <1>1, <3>1, <3>6
      <4> QED
        BY <1>0, <3>2, <3>3, <3>4, <3>6, <4>1 DEF NewStay, TypeOK, world
    <3> QED
      BY <2>3, <3>5, <3>6
  <2> QED
    BY <2>4, <2>6, <2>7 DEF Inv
<1> QED
  BY <1>2, <1>3

-----------------------------------------------------------------------------
(* No byte twice                                                            *)

\* What the next reading would credit at most: what the counter gained since the
\* baseline, if there is one.
Pending == IF base.host # None /\ counter >= base.bytes THEN counter - base.bytes ELSE 0

\* What was credited and what is still to be, were carried.
NoneOwed == SumFunction(credited) + Pending <= SumFunction(carried)

LEMMA SumsOf ==
    ASSUME NEW f \in [Servers -> Nat]
    PROVE  /\ SumFunction(f) \in Int
           /\ \A h \in Servers, d \in Nat :
                 SumFunction([f EXCEPT ![h] = @ + d]) = SumFunction(f) + d
<1>1. PICK h \in Servers : TRUE
  BY Assumed
<1>2. f \in [Servers -> Int]
  OBVIOUS
<1>3. SumFunction(f) \in Int
  BY <1>1, <1>2, Assumed, SumOfChanged
<1> QED
  BY <1>2, <1>3, Assumed, SumOfChanged

LEMMA InitOwed == Init => NoneOwed
<1> SUFFICES ASSUME Init PROVE NoneOwed
  OBVIOUS
<1>1. TypeOK
  BY InitInv DEF Inv
<1>2. SumFunction(credited) \in Int /\ credited = carried
  BY <1>1, SumsOf DEF Init, TypeOK
<1>3. Pending = 0
  BY DEF Init, NoBase, Pending
<1> QED
  BY <1>2, <1>3 DEF NoneOwed

LEMMA NextOwed == TypeOK /\ NoneOwed /\ [Next]_vars => NoneOwed'
<1> SUFFICES ASSUME TypeOK, NoneOwed, [Next]_vars PROVE NoneOwed'
  OBVIOUS
<1>0. SumFunction(credited) \in Int /\ SumFunction(carried) \in Int /\ Pending \in Nat
  BY SumsOf DEF TypeOK, Pending
<1>1. ASSUME UNCHANGED <<credited, carried>>, Pending' \in Int, Pending' <= Pending
      PROVE  NoneOwed'
  BY <1>0, <1>1 DEF NoneOwed
<1>2. CASE UNCHANGED <<credited, carried>> /\ base' \in {base, NoBase} /\ counter' \in {counter, 0}
  BY <1>1, <1>2 DEF Pending, TypeOK, NoBase
<1>3. CASE Traffic
  <2>1. /\ tunnel \in Servers /\ carried' = [carried EXCEPT ![tunnel] = @ + 1]
        /\ counter' = counter + 1 /\ UNCHANGED <<base, credited>>
    BY <1>3 DEF Traffic, records, TypeOK
  <2>2. SumFunction(carried') = SumFunction(carried) + 1
    <3>1. carried \in [Servers -> Nat] /\ 1 \in Nat
      BY DEF TypeOK
    <3>2. SumFunction([carried EXCEPT ![tunnel] = @ + 1]) = SumFunction(carried) + 1
      BY <2>1, <3>1, SumsOf
    <3> QED
      BY <2>1, <3>2
  <2>3. Pending' \in Nat /\ Pending' <= Pending + 1
    BY <2>1 DEF Pending, TypeOK
  <2> QED
    BY <1>0, <2>1, <2>2, <2>3 DEF NoneOwed
<1>4. ASSUME NEW moving \in BOOLEAN, RecordTransfer(moving), UNCHANGED world PROVE NoneOwed'
  <2>1. UNCHANGED <<counter, carried>>
    BY <1>4 DEF world
  <2>2. CASE ~Attributable
    BY <1>2, <1>4, <2>1, <2>2 DEF RecordTransfer, Declined
  <2>3. CASE Attributable
    <3>1. shown \in Servers /\ shown # None /\ base' = [host |-> shown, bytes |-> counter]
      BY <1>4, <2>3, Assumed DEF RecordTransfer, Credit, Attributable, TypeOK
    <3>2. Pending' = 0
      BY <2>1, <3>1 DEF Pending, TypeOK
    <3>3. Since \in Nat /\ Since <= Pending
      BY <3>1 DEF Since, Pending, TypeOK
    <3>4. CASE UNCHANGED credited
      BY <1>0, <1>1, <2>1, <3>2, <3>4
    <3>5. CASE credited' = [credited EXCEPT ![shown] = @ + Since]
      <4>1. SumFunction(credited') = SumFunction(credited) + Since
        <5>1. SumFunction([credited EXCEPT ![shown] = @ + Since]) = SumFunction(credited) + Since
          BY <3>1, <3>3, SumsOf DEF TypeOK
        <5> QED
          BY <3>5, <5>1
      <4> QED
        BY <1>0, <2>1, <3>2, <3>3, <4>1 DEF NoneOwed
    <3> QED
      BY <1>4, <2>3, <3>4, <3>5 DEF RecordTransfer, Credit
  <2> QED
    BY <2>2, <2>3
<1>5. CASE ScheduledPoll
  BY <1>4, <1>5 DEF ScheduledPoll
<1>6. CASE ManualPoll
  BY <1>4, <1>6 DEF ManualPoll
<1>7. CASE GluetunMoves \/ TunnelDrops \/ TunnelReturns \/ QbittorrentRestarts
  BY <1>2, <1>7 DEF GluetunMoves, TunnelDrops, TunnelReturns, QbittorrentRestarts, Arrives, records
<1>8. CASE Round \/ RoundTimesOut \/ SwitchTo \/ HealthCheck
  BY <1>2, <1>8 DEF Round, RoundTimesOut, SwitchTo, HealthCheck, Arrives, records, world
<1>9. CASE Restart \/ LoopBusy \/ Unanswered
  BY <1>2, <1>9 DEF Restart, LoopBusy, Unanswered, records, world
<1>10. CASE UNCHANGED vars
  BY <1>2, <1>10 DEF vars, records, world
<1> QED
  BY <1>3, <1>5, <1>6, <1>7, <1>8, <1>9, <1>10 DEF Next

-----------------------------------------------------------------------------
(* Theorems                                                                 *)

LEMMA NextInv == Inv /\ [Next]_vars => Inv'
<1> SUFFICES ASSUME Inv, [Next]_vars PROVE Inv'
  OBVIOUS
<1>1. CASE ScheduledPoll
  BY <1>1, PollInv DEF ScheduledPoll
<1>2. CASE ManualPoll
  BY <1>2, PollInv DEF ManualPoll, view
<1>3. CASE UNCHANGED vars
  BY <1>3 DEF vars, world, view, records, Inv, TypeOK, BaselineIsOurs, CreditedWhereCarried,
              StayIsOpen, VisitsAreStays, Without
<1> QED
  BY <1>1, <1>2, <1>3, TrafficInv, MovesInv, QuietInv DEF Next

\* What the records hold follows from an invariant of the whole program: in the
\* behaviours the properties are about, the server shown is the one the tunnel
\* is on, and a baseline survives only as long as the tunnel stays there.
THEOREM Invariance == Spec => []Inv
<1> QED
  BY InitInv, NextInv, PTL DEF Spec

\* Every variable has its type: a credit is never negative.
THEOREM TypeCorrectness == Spec => []TypeOK
<1>1. Inv => TypeOK
  BY DEF Inv
<1> QED
  BY <1>1, Invariance, PTL

\* No server is credited with what another one carried, for any number of
\* servers, moves, drops and restarts.
THEOREM CreditsAreEarned == Spec => []CreditedWhereCarried
<1>1. Inv => CreditedWhereCarried
  BY DEF Inv
<1> QED
  BY <1>1, Invariance, PTL

\* No server is counted as visited more often than the tunnel came to it, for
\* any number of stays and of restarts in the middle of one.
THEOREM VisitsAreEarned == Spec => []VisitsAreStays
<1>1. Inv => VisitsAreStays
  BY DEF Inv
<1> QED
  BY <1>1, Invariance, PTL

\* No byte is counted twice, in whatever order the tunnel moves, readings are
\* missed and the two programs restart, and for any number of servers.
THEOREM BytesAreCountedOnce == Spec => []NothingCountedTwice
<1>1. TypeOK /\ NoneOwed => NothingCountedTwice
  BY SumsOf DEF NoneOwed, NothingCountedTwice, Pending, TypeOK
<1> QED
  BY <1>1, InitOwed, NextOwed, TypeCorrectness, PTL DEF Spec
=============================================================================
