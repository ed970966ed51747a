------------------------- MODULE TransferGuardProofs -------------------------
(***************************************************************************)
(* Theorems about TransferGuard, for any windows and limits, any rates and *)
(* any number of readings: what releases a tunnel that is held, for how    *)
(* long it can be held, and that the readings of one window decide.  The   *)
(* average is a recursive function of the samples: the section on averages *)
(* shows that it exists and between which bounds it lies.                  *)
(***************************************************************************)
EXTENDS TransferGuard, SequenceTheorems, WellFoundedInduction, TLAPS

\* Every variable has its type; the samples have theirs in Windowed.
Types ==
    /\ conf \in Confs /\ now \in Nat /\ startedAt \in 0..now /\ freeAt \in startedAt..now
    /\ answered \in BOOLEAN /\ busySince \in (0..now) \cup {Never}
    /\ status \in Statuses /\ log \in Seq(Samples)

\* The tunnel is busy since some time exactly if it is busy, which takes a
\* reading.
BusyIsDated ==
    /\ (busySince # Never) <=> Busy(samples)
    /\ busySince # Never => answered
    /\ answered => log # <<>>

\* A tunnel that is not held could have moved now, and one that turned busy had
\* not been held for longer than the grace period before.
FreeIsDated ==
    /\ ~Blocks => freeAt = now
    /\ busySince # Never => busySince - freeAt <= Grace

Inv == Types /\ BusyIsDated /\ FreeIsDated

-----------------------------------------------------------------------------
(* Averages                                                                 *)

Ways == {"down", "up"}

\* A set that holds 0 and the successor of each number it holds, holds them all.
LEMMA SetInduction ==
    ASSUME NEW T, 0 \in T, \A n \in Nat : n \in T => n + 1 \in T
    PROVE  \A n \in Nat : n \in T
<1> DEFINE Less == OpToRel(<, Nat)
           Missing == Nat \ T
<1> SUFFICES ASSUME Missing # {} PROVE FALSE
  OBVIOUS
<1>1. IsWellFoundedOn(Less, Nat)
  BY NatLessThanWellFounded
<1>2. \A m, n \in Nat : m < n => <<m, n>> \in Less
  BY Zenon DEF OpToRel
<1> HIDE DEF Less
<1>3. PICK x \in Missing : \A y \in Missing : ~(<<y, x>> \in Less)
  <2>1. Missing \subseteq Nat
    OBVIOUS
  <2> HIDE DEF Missing
  <2> QED
    BY <2>1, <1>1, WFMin
<1>4. x \in Nat /\ x # 0 /\ x \notin T
  OBVIOUS
<1>5. x - 1 \in Nat /\ <<x - 1, x>> \in Less /\ x - 1 + 1 = x
  BY <1>2, <1>4
<1>6. x - 1 \in T
  BY <1>3, <1>5
<1> QED
  BY <1>4, <1>5, <1>6

\* g adds up the first n readings of s in one direction.
Adds(g, n, s, way) == g = [i \in 0..n |-> IF i = 0 THEN 0 ELSE g[i - 1] + s[i].rate[way]]

\* The loop of averageRates has a result, whatever it adds up.
LEMMA AddsExist ==
    ASSUME NEW s, NEW way
    PROVE  \A n \in Nat : \E g : Adds(g, n, s, way)
<1> DEFINE T == {n \in Nat : \E g : Adds(g, n, s, way)}
<1>1. 0 \in T
  <2>1. Adds([i \in 0..0 |-> 0], 0, s, way)
    BY DEF Adds
  <2> QED
    BY <2>1
<1>2. ASSUME NEW n \in Nat, n \in T PROVE n + 1 \in T
  <2>1. PICK g : Adds(g, n, s, way)
    BY <1>2
  <2> DEFINE h == [i \in 0..(n + 1) |-> IF i = 0 THEN 0 ELSE g[i - 1] + s[i].rate[way]]
  <2>2. ASSUME NEW i \in 0..n PROVE h[i] = g[i]
    <3>1. g[i] = IF i = 0 THEN 0 ELSE g[i - 1] + s[i].rate[way]
      BY <2>1 DEF Adds
    <3>2. i \in 0..(n + 1)
      OBVIOUS
    <3> QED
      BY <3>1, <3>2
  <2>3. ASSUME NEW i \in 0..(n + 1), i # 0 PROVE h[i - 1] = g[i - 1]
    <3>1. i - 1 \in 0..n
      BY <2>3
    <3> QED
      BY <3>1, <2>2
  <2>4. Adds(h, n + 1, s, way)
    <3>1. \A i \in 0..(n + 1) :
              (IF i = 0 THEN 0 ELSE g[i - 1] + s[i].rate[way])
                  = (IF i = 0 THEN 0 ELSE h[i - 1] + s[i].rate[way])
      BY <2>3
    <3> QED
      BY <3>1 DEF Adds
  <2> QED
    BY <2>4
<1> HIDE DEF T
<1>3. \A n \in Nat : n \in T
  BY <1>1, <1>2, SetInduction
<1> QED
  BY <1>3 DEF T

LEMMA ReadingTypes ==
    ASSUME NEW s \in Seq(Samples), NEW way \in Ways, NEW i \in 1..Len(s)
    PROVE  s[i].rate[way] \in Nat
<1>1. s[i] \in Samples
  OBVIOUS
<1>2. s[i].rate.down \in Nat /\ s[i].rate.up \in Nat
  BY <1>1 DEF Samples
<1> QED
  BY <1>2 DEF Ways

\* A sum of readings that are all at least c, or all below c.
LEMMA TotalBounds ==
    ASSUME NEW s \in Seq(Samples), NEW way \in Ways, NEW c \in Nat
    PROVE  /\ Total(s, way) \in Nat
           /\ (\A i \in 1..Len(s) : s[i].rate[way] >= c) => Total(s, way) >= c * Len(s)
           /\ (\A i \in 1..Len(s) : s[i].rate[way] < c) => Total(s, way) <= c * Len(s) - Len(s)
<1> DEFINE High == \A i \in 1..Len(s) : s[i].rate[way] >= c
           Low == \A i \in 1..Len(s) : s[i].rate[way] < c
           g == CHOOSE h : Adds(h, Len(s), s, way)
           T == {n \in Nat : n <= Len(s) =>
                    /\ g[n] \in Nat
                    /\ High => g[n] >= c * n
                    /\ Low => g[n] <= c * n - n}
<1>1. Len(s) \in Nat /\ Adds(g, Len(s), s, way)
  <2>1. Len(s) \in Nat
    OBVIOUS
  <2> QED
    BY <2>1, AddsExist
<1>2. Total(s, way) = g[Len(s)]
  BY <1>1 DEF Total, Adds
<1> HIDE DEF g
<1>3. 0 \in T
  <2>1. g[0] = 0
    BY <1>1 DEF Adds
  <2> QED
    BY <2>1
<1>4. ASSUME NEW n \in Nat, n \in T PROVE n + 1 \in T
  <2> SUFFICES ASSUME n + 1 <= Len(s)
               PROVE  /\ g[n + 1] \in Nat
                      /\ High => g[n + 1] >= c * (n + 1)
                      /\ Low => g[n + 1] <= c * (n + 1) - (n + 1)
    OBVIOUS
  <2>1. n + 1 \in 0..Len(s) /\ n + 1 # 0 /\ n + 1 - 1 = n /\ n + 1 \in 1..Len(s)
    BY <1>1
  <2>2. g[n + 1] = g[n] + s[n + 1].rate[way]
    BY <2>1, <1>1 DEF Adds
  <2>3. s[n + 1].rate[way] \in Nat
    BY <2>1, ReadingTypes
  <2>4. g[n] \in Nat /\ (High => g[n] >= c * n) /\ (Low => g[n] <= c * n - n)
    BY <1>1, <1>4
  <2>5. (High => s[n + 1].rate[way] >= c) /\ (Low => s[n + 1].rate[way] < c)
    BY <2>1
  <2>6. c * (n + 1) = c * n + c /\ c * n \in Nat
    OBVIOUS
  <2> HIDE DEF High, Low
  <2> QED
    BY <2>2, <2>3, <2>4, <2>5, <2>6
<1> HIDE DEF T
<1>5. Len(s) \in T
  BY <1>1, <1>3, <1>4, SetInduction
<1> QED
  BY <1>1, <1>2, <1>5 DEF T

LEMMA MeanAtLeast ==
    ASSUME NEW a \in Nat, NEW n \in Nat, n > 0, NEW c \in Nat, a >= c * n
    PROVE  a \div n >= c
BY SMTT(30)

LEMMA MeanBelow ==
    ASSUME NEW a \in Nat, NEW n \in Nat, n > 0, NEW c \in Nat, a <= c * n - n
    PROVE  a \div n < c
BY SMTT(30)

\* A direction that is at its limit in every sample reaches it in the mean; one
\* that is below it in every sample does not.
LEMMA MeanFollows ==
    ASSUME NEW s \in Seq(Samples), NEW way \in Ways, NEW limit \in Nat
    PROVE  /\ (limit > 0 /\ s # <<>> /\ \A i \in 1..Len(s) : s[i].rate[way] >= limit)
                 => Reaches(s, way, limit)
           /\ (limit = 0 \/ \A i \in 1..Len(s) : s[i].rate[way] < limit)
                 => ~Reaches(s, way, limit)
<1>1. Len(s) \in Nat /\ (s # <<>> => Len(s) > 0)
  BY EmptySeq
<1>2. Total(s, way) \in Nat
  BY TotalBounds
<1>3. ASSUME s # <<>>, \A i \in 1..Len(s) : s[i].rate[way] >= limit
      PROVE  Total(s, way) \div Len(s) >= limit
  <2>1. Total(s, way) >= limit * Len(s)
    BY <1>3, TotalBounds
  <2> QED
    BY <2>1, <1>1, <1>2, <1>3, MeanAtLeast
<1>4. ASSUME s # <<>>, \A i \in 1..Len(s) : s[i].rate[way] < limit
      PROVE  Total(s, way) \div Len(s) < limit
  <2>1. Total(s, way) <= limit * Len(s) - Len(s)
    BY <1>4, TotalBounds
  <2> QED
    BY <2>1, <1>1, <1>2, <1>4, MeanBelow
<1>5. s # <<>> => Total(s, way) \div Len(s) \in Int
  BY <1>1, <1>2
<1> QED
  BY <1>3, <1>4, <1>5 DEF Reaches

-----------------------------------------------------------------------------
LEMMA Assumed ==
    /\ Grace \in Nat /\ \A c \in Confs : c.maxDefer \in Nat
    /\ \A rate \in Rates : rate \in [down : Nat, up : Nat]
BY TransferGuardAssumption

\* Whether the tunnel is busy follows the samples alone.
LEMMA BusyStays == samples' = samples => (Busy(samples') <=> Busy(samples))
OBVIOUS

LEMMA InitInv == Init => Inv
<1> SUFFICES ASSUME Init PROVE Inv
  OBVIOUS
<1>1. now = 0 /\ startedAt = 0 /\ ~answered /\ samples = <<>> /\ busySince = Never /\ freeAt = 0
  BY DEF Init
<1>2. Types
  <2>1. log \in Seq(Samples)
    BY EmptySeq DEF Init
  <2> QED
    <3>1. answered \in BOOLEAN /\ conf \in Confs /\ status \in Statuses
      BY DEF Init, Statuses
    <3>2. now \in Nat /\ startedAt \in 0..now /\ freeAt \in startedAt..now
      BY <1>1
    <3>3. busySince \in (0..now) \cup {Never}
      BY <1>1
    <3> QED
      BY <2>1, <3>1, <3>2, <3>3 DEF Types
<1>3. ~Busy(samples)
  BY <1>1 DEF Busy, Reaches
<1> QED
  BY <1>1, <1>2, <1>3 DEF Inv, BusyIsDated, FreeIsDated

\* A step that takes note of whether the tunnel is held, and leaves the rest of
\* what is dated as it was.
LEMMA NotedInv ==
    ASSUME Inv, Noted, now' \in Nat, now' >= now, status' \in Statuses,
           UNCHANGED <<conf, startedAt, answered, samples, busySince, log>>
    PROVE  Inv'
<1>1. freeAt' = freeAt \/ freeAt' = now'
  BY DEF Noted
<1>2. Types'
  BY <1>1 DEF Inv, Types
<1>3. BusyIsDated'
  BY BusyStays DEF Inv, BusyIsDated
<1>4. FreeIsDated'
  <2>1. ~Blocks' => freeAt' = now'
    BY DEF Noted
  <2>2. busySince # Never => busySince - freeAt' <= Grace
    BY <1>1, Assumed DEF Inv, Types, FreeIsDated, Never
  <2> QED
    BY <2>1, <2>2 DEF FreeIsDated
<1> QED
  BY <1>2, <1>3, <1>4 DEF Inv

LEMMA AnswerInv ==
    ASSUME Inv, NEW rate \in Rates, Answer(rate)
    PROVE  Inv'
<1>1. /\ answered' = TRUE /\ busySince' = Since(samples') /\ Noted
      /\ log' = Append(log, [at |-> now, rate |-> rate])
      /\ UNCHANGED <<conf, now, startedAt, status>>
  BY DEF Answer
<1>2. freeAt' = freeAt \/ freeAt' = now
  BY <1>1 DEF Noted
<1>3. /\ busySince' \in {Never, now, busySince} /\ (busySince' # Never <=> Busy(samples'))
      /\ busySince' = now \/ busySince' = busySince \/ busySince' = Never
      /\ busySince # Never => busySince' \in {busySince, Never}
  BY <1>1 DEF Since, Inv, Types, Never
<1>4. log' \in Seq(Samples) /\ log' # <<>>
  <2>1. [at |-> now, rate |-> rate] \in Samples
    BY Assumed DEF Inv, Types, Samples
  <2>2. log \in Seq(Samples)
    BY DEF Inv, Types
  <2> QED
    BY <2>1, <2>2, <1>1, AppendProperties
<1>5. Types'
  BY <1>1, <1>2, <1>3, <1>4 DEF Inv, Types
<1>6. BusyIsDated'
  BY <1>1, <1>3, <1>4 DEF BusyIsDated
<1>7. busySince' # Never => busySince' - freeAt' <= Grace
  <2>1. CASE busySince # Never
    BY <2>1, <1>2, <1>3, Assumed DEF Inv, Types, FreeIsDated, Never
  <2>2. CASE busySince = Never
    <3>1. CASE Blocks
      <4>1. ~answered
        BY <2>2, <3>1 DEF Blocks, Inv, BusyIsDated
      <4>2. now - startedAt < Grace
        BY <3>1, <4>1 DEF Blocks, Waiting
      <4> QED
        BY <2>2, <4>2, <1>2, <1>3, Assumed DEF Inv, Types, Never
    <3>2. CASE ~Blocks
      BY <2>2, <3>2, <1>2, <1>3, Assumed DEF Inv, Types, FreeIsDated, Never
    <3> QED
      BY <3>1, <3>2
  <2> QED
    BY <2>1, <2>2
<1>8. FreeIsDated'
  BY <1>1, <1>7 DEF FreeIsDated, Noted
<1> QED
  BY <1>5, <1>6, <1>8 DEF Inv

LEMMA RestartInv == Inv /\ Restart => Inv'
<1> SUFFICES ASSUME Inv, Restart PROVE Inv'
  OBVIOUS
<1>1. /\ startedAt' = now /\ ~answered' /\ samples' = <<>> /\ busySince' = Never /\ freeAt' = now
      /\ answered' = FALSE /\ log' = <<>> /\ status' = "" /\ UNCHANGED <<conf, now>>
  BY DEF Restart
<1>2. Types'
  <2>1. log' \in Seq(Samples)
    BY <1>1, EmptySeq
  <2>2. now \in Nat /\ conf \in Confs
    BY DEF Inv, Types
  <2>3. answered' \in BOOLEAN /\ conf' \in Confs /\ status' \in Statuses
    BY <1>1, <2>2 DEF Statuses
  <2>4. now' \in Nat /\ startedAt' \in 0..now' /\ freeAt' \in startedAt'..now'
    <3>1. now' = now /\ startedAt' = now /\ freeAt' = now
      BY <1>1
    <3> QED
      BY <2>2, <3>1
  <2>5. busySince' \in (0..now') \cup {Never}
    BY <1>1
  <2> QED
    BY <2>1, <2>3, <2>4, <2>5 DEF Types
<1>3. ~Busy(samples')
  BY <1>1 DEF Busy, Reaches
<1> QED
  BY <1>1, <1>2, <1>3 DEF Inv, BusyIsDated, FreeIsDated

\* The invariant holds in every behaviour.
THEOREM Invariance == Spec => []Inv
<1>1. Inv /\ [Next]_vars => Inv'
  <2> SUFFICES ASSUME Inv, [Next]_vars PROVE Inv'
    OBVIOUS
  <2>1. CASE Tick
    <3>1. now \in Nat /\ now' = now + 1 /\ status \in Statuses /\ status' = status
      BY <2>1 DEF Tick, Inv, Types
    <3>2. Noted /\ UNCHANGED <<conf, startedAt, answered, samples, busySince, log>>
      BY <2>1 DEF Tick
    <3>3. now' \in Nat /\ now' >= now /\ status' \in Statuses
      BY <3>1
    <3> QED
      BY <3>2, <3>3, NotedInv
  <2>2. CASE Check
    <3>1. now \in Nat /\ now' = now /\ status' \in Statuses
      BY <2>2 DEF Check, Inv, Types
    <3>2. Noted /\ UNCHANGED <<conf, startedAt, answered, samples, busySince, log>>
      BY <2>2 DEF Check
    <3>3. now' \in Nat /\ now' >= now
      BY <3>1
    <3> QED
      BY <3>1, <3>2, <3>3, NotedInv
  <2>3. CASE \E rate \in Rates : Answer(rate)
    BY <2>3, AnswerInv
  <2>4. CASE NoAnswer
    <3>1. now \in Nat /\ now' = now /\ status \in Statuses /\ status' = status
      BY <2>4 DEF NoAnswer, Inv, Types
    <3>2. Noted /\ UNCHANGED <<conf, startedAt, answered, samples, busySince, log>>
      BY <2>4 DEF NoAnswer
    <3>3. now' \in Nat /\ now' >= now /\ status' \in Statuses
      BY <3>1
    <3> QED
      BY <3>2, <3>3, NotedInv
  <2>5. CASE Restart
    BY <2>5, RestartInv
  <2>6. CASE UNCHANGED vars
    BY <2>6, BusyStays DEF vars, Inv, Types, BusyIsDated, FreeIsDated, Blocks, Overdue, Waiting
  <2> QED
    BY <2>1, <2>2, <2>3, <2>4, <2>5, <2>6 DEF Next
<1> QED
  BY InitInv, <1>1, PTL DEF Spec

\* However long a transfer lasts and whenever the polls fail, a switch is held
\* back for a bounded time.
THEOREM BoundedDeferral == Spec => []DeferralIsBounded
<1>1. Inv => DeferralIsBounded
  <2> SUFFICES ASSUME Inv, conf.maxDefer > 0, Blocks
               PROVE  now - freeAt <= Grace + conf.maxDefer
    BY DEF DeferralIsBounded
  <2>1. conf.maxDefer \in Nat /\ Grace \in Nat
    BY Assumed DEF Inv, Types
  <2>2. CASE answered
    <3>1. busySince # Never /\ ~Overdue
      BY <2>2 DEF Blocks, Inv, BusyIsDated
    <3>2. now - busySince <= conf.maxDefer
      BY <2>1, <3>1 DEF Overdue, Inv, Types, Never
    <3> QED
      BY <2>1, <3>1, <3>2 DEF Inv, Types, FreeIsDated, Never
  <2>3. CASE ~answered
    <3>1. now - startedAt < Grace
      BY <2>3 DEF Blocks, Waiting
    <3> QED
      BY <2>1, <3>1 DEF Inv, Types
  <2> QED
    BY <2>2, <2>3
<1> QED
  BY Invariance, <1>1, PTL

\* Neither silence of qBittorrent nor the passing of time releases a transfer.
THEOREM ContactHolds == Spec => LossOfContactHolds
<1> DEFINE Released == \/ log' # log
                       \/ status' # status /\ status' # "running"
                       \/ answered /\ Overdue'
                       \/ ~answered /\ now' - startedAt >= Grace
<1>1. Inv /\ [Next]_vars => ((Blocks /\ ~Blocks') => Released)
  <2> SUFFICES ASSUME Inv, [Next]_vars, Blocks, ~Blocks' PROVE Released
    OBVIOUS
  <2>1. CASE Tick
    <3>1. UNCHANGED <<conf, startedAt, answered, samples, busySince, status, log>> /\ now' = now + 1
      BY <2>1 DEF Tick
    <3>2. Busy(samples') <=> Busy(samples)
      BY <3>1, BusyStays
    <3>3. CASE answered
      <4>1. Busy(samples) /\ status # "crashed"
        BY <3>3 DEF Blocks
      <4>2. answered'
        BY <3>1, <3>3
      <4> QED
        BY <4>1, <4>2, <3>1, <3>2, <3>3 DEF Blocks
    <3>4. CASE ~answered
      <4>1. ~Waiting' /\ Waiting
        BY <3>1, <3>4 DEF Blocks
      <4>2. ~(now' - startedAt < Grace)
        BY <4>1, <3>1 DEF Waiting
      <4> QED
        BY <4>2, <3>1, <3>4, Assumed DEF Inv, Types
    <3> QED
      BY <3>3, <3>4
  <2>2. CASE Check
    <3>1. /\ UNCHANGED <<conf, now, startedAt, answered, samples, busySince, log>> /\ status' # status
          /\ (Busy(samples') <=> Busy(samples)) /\ Overdue' = Overdue
      BY <2>2, BusyStays DEF Check, Overdue
    <3> QED
      BY <3>1 DEF Blocks, Waiting
  <2>3. CASE \E rate \in Rates : Answer(rate)
    <3>1. PICK rate \in Rates : log' = Append(log, [at |-> now, rate |-> rate])
      BY <2>3 DEF Answer
    <3>2. log \in Seq(Samples)
      BY DEF Inv, Types
    <3>3. Len(log') = Len(log) + 1 /\ Len(log) \in Nat
      BY <3>1, <3>2
    <3> QED
      BY <3>3
  <2>4. CASE NoAnswer
    <3>1. UNCHANGED <<conf, now, startedAt, answered, samples, busySince, status, log>>
      BY <2>4 DEF NoAnswer
    <3> QED
      BY <3>1, BusyStays DEF Blocks, Overdue, Waiting
  <2>5. CASE Restart
    <3>1. answered' = FALSE /\ status' = "" /\ startedAt' = now /\ now' = now /\ log' = <<>>
      BY <2>5 DEF Restart
    <3>2. ~answered' /\ now \in Nat /\ startedAt \in 0..now
      BY <3>1 DEF Inv, Types
    <3>3. ~Waiting'
      BY <3>2 DEF Blocks
    <3>4. ~(now' - startedAt' < Grace)
      BY <3>1, <3>3 DEF Waiting
    <3>5. Grace <= 0
      <4>1. now' = now /\ startedAt' = now /\ now \in Nat /\ Grace \in Nat
        BY <3>1, <3>2, Assumed
      <4>2. ~(now - now < Grace)
        BY <4>1, <3>4
      <4> QED
        BY <4>1, <4>2
    <3>6. answered
      <4> SUFFICES ASSUME ~answered PROVE FALSE
        OBVIOUS
      <4>1. now - startedAt < Grace
        BY DEF Blocks, Waiting
      <4> QED
        BY <4>1, <3>2, <3>5, Assumed
    <3> QED
      BY <3>1, <3>6 DEF Inv, BusyIsDated
  <2>6. CASE UNCHANGED vars
    BY <2>6, BusyStays DEF vars, Blocks, Overdue, Waiting
  <2> QED
    BY <2>1, <2>2, <2>3, <2>4, <2>5, <2>6 DEF Next
<1> HIDE DEF Released
<1>2. Spec => [][(Blocks /\ ~Blocks') => Released]_vars
  BY Invariance, <1>1, PTL DEF Spec
<1> QED
  BY <1>2 DEF Released, LossOfContactHolds
-----------------------------------------------------------------------------
(* The window                                                               *)

LEMMA Largest ==
    ASSUME NEW n \in Nat, NEW S \in SUBSET (1..n), S # {}
    PROVE  \E x \in S : \A y \in S : x >= y
<1> DEFINE T == {m \in Nat : \A R \in SUBSET (1..m) : R # {} => \E x \in R : \A y \in R : x >= y}
<1>1. 0 \in T
  <2>1. \A R \in SUBSET (1..0) : R = {}
    OBVIOUS
  <2> QED
    BY <2>1
<1>2. ASSUME NEW m \in Nat, m \in T PROVE m + 1 \in T
  <2> SUFFICES ASSUME NEW R \in SUBSET (1..(m + 1)), R # {}
               PROVE  \E x \in R : \A y \in R : x >= y
    OBVIOUS
  <2>1. CASE m + 1 \in R
    BY <2>1
  <2>2. CASE m + 1 \notin R
    <3>1. R \in SUBSET (1..m)
      BY <2>2
    <3> QED
      BY <3>1, <1>2
  <2> QED
    BY <2>1, <2>2
<1> HIDE DEF T
<1>3. n \in T
  BY <1>1, <1>2, SetInduction
<1> QED
  BY <1>3 DEF T

\* What is kept are samples of the window, and never none when the last one is.
LEMMA KeptIsRecent ==
    ASSUME conf.window \in Nat, NEW at \in Nat, NEW s \in Seq(Samples), s # <<>>,
           s[Len(s)].at >= at - conf.window
    PROVE  /\ Kept(s, at) \in Seq(Samples) /\ Kept(s, at) # <<>>
           /\ \A j \in 1..Len(Kept(s, at)) :
                  \E i \in 1..Len(s) : Kept(s, at)[j] = s[i] /\ s[i].at >= at - conf.window
<1> DEFINE Old == {i \in 1..Len(s) : s[i].at < at - conf.window}
           last == IF Old # {} THEN Max(Old) ELSE 0
<1>1. Len(s) \in Nat /\ Len(s) > 0 /\ \A i \in 1..Len(s) : s[i] \in Samples
  BY EmptySeq
<1>2. \A i \in 1..Len(s) : s[i].at \in Nat
  BY <1>1 DEF Samples
<1>3. Len(s) \in 1..Len(s) /\ Len(s) \notin Old
  <2>1. Len(s) \in 1..Len(s)
    BY <1>1
  <2>2. ~(s[Len(s)].at < at - conf.window)
    BY <2>1, <1>2
  <2> QED
    BY <2>1, <2>2
<1>4. Kept(s, at) = SubSeq(s, last + 1, Len(s))
  BY DEF Kept, SelectLastInSeq
<1>5. last \in 0..(Len(s) - 1) /\ \A i \in Old : i <= last
  <2>1. CASE Old = {}
    BY <2>1, <1>1
  <2>2. CASE Old # {}
    <3>1. Old \in SUBSET (1..Len(s))
      OBVIOUS
    <3> HIDE DEF Old
    <3>2. Max(Old) \in Old /\ \A i \in Old : Max(Old) >= i
      BY <3>1, <2>2, <1>1, Largest DEF Max
    <3>3. last = Max(Old)
      BY <2>2
    <3>4. last \in 1..Len(s) /\ last # Len(s)
      BY <3>1, <3>2, <3>3, <1>3
    <3>5. Old \subseteq Int
      BY <3>1
    <3> HIDE DEF last
    <3> QED
      BY <3>2, <3>3, <3>4, <3>5, <1>1
  <2> QED
    BY <2>1, <2>2
<1>6. \A i \in (last + 1)..Len(s) : i \in 1..Len(s) /\ s[i].at >= at - conf.window
  <2> TAKE i \in (last + 1)..Len(s)
  <2> HIDE DEF last
  <2>1. i \in 1..Len(s) /\ ~(i <= last)
    BY <1>1, <1>5
  <2>2. ~(s[i].at < at - conf.window)
    BY <2>1, <1>5
  <2> QED
    BY <2>1, <2>2, <1>2
<1> HIDE DEF last, Old
<1>7. /\ Kept(s, at) \in Seq(Samples) /\ Len(Kept(s, at)) = Len(s) - last
      /\ \A j \in 1..(Len(s) - last) : Kept(s, at)[j] = s[last + j]
  <2>1. last + 1 \in Int /\ Len(s) \in Int /\ last + 1 <= Len(s)
    BY <1>1, <1>5
  <2>2. \A i \in (last + 1)..Len(s) : s[i] \in Samples
    BY <1>1, <1>6
  <2>3. /\ Kept(s, at) \in Seq(Samples) /\ Len(Kept(s, at)) = Len(s) - (last + 1) + 1
        /\ \A j \in 1..(Len(s) - (last + 1) + 1) : Kept(s, at)[j] = s[last + 1 + j - 1]
    BY <2>1, <2>2, <1>4, SubSeqProperties
  <2>4. Len(s) - (last + 1) + 1 = Len(s) - last
    BY <1>1, <1>5
  <2>5. \A j \in 1..(Len(s) - last) : last + 1 + j - 1 = last + j
    BY <1>1, <1>5
  <2> QED
    BY <2>3, <2>4, <2>5
<1>8. Kept(s, at) # <<>>
  BY <1>1, <1>5, <1>7, EmptySeq
<1>9. \A j \in 1..(Len(s) - last) : last + j \in (last + 1)..Len(s)
  BY <1>1, <1>5
<1> QED
  BY <1>6, <1>7, <1>8, <1>9

\* The samples are readings of the window that ends with the last reading, and
\* there are some once qBittorrent has answered.
Windowed ==
    /\ samples \in Seq(Samples)
    /\ answered => log # <<>> /\ samples # <<>>
    /\ \A j \in 1..Len(samples) : \E i \in Recent : samples[j] = log[i]

\* One more reading: it is of the window, and so is what is kept of the rest.
LEMMA AnswerWindow ==
    ASSUME Inv, Windowed, NEW rate \in Rates, Answer(rate)
    PROVE  Windowed'
<1> DEFINE sample == [at |-> now, rate |-> rate]
<1>1. /\ log' = Append(log, sample) /\ samples' = Recorded(samples, sample)
      /\ UNCHANGED <<conf, now>>
  BY DEF Answer
<1>2. sample \in Samples /\ log \in Seq(Samples) /\ samples \in Seq(Samples) /\ now \in Nat
  BY Assumed DEF Inv, Types, Samples, Windowed
<1>3. sample.at = now
  OBVIOUS
<1>4. conf.window \in Nat
  BY TransferGuardAssumption DEF Inv, Types
<1> HIDE DEF sample
<1>5. /\ Len(log') = Len(log) + 1 /\ Len(log) \in Nat /\ log' \in Seq(Samples)
      /\ \A i \in 1..Len(log) : log'[i] = log[i]
      /\ log'[Len(log) + 1] = sample
  BY <1>1, <1>2, AppendProperties
<1>6. Last(log') = sample /\ log' # <<>>
  BY <1>5, EmptySeq DEF Last
<1>7. \A i \in 1..Len(log') : log'[i].at >= now - conf.window => i \in Recent'
  <2>1. DOMAIN log' = 1..Len(log')
    BY <1>5
  <2> QED
    BY <2>1, <1>1, <1>3, <1>6 DEF Recent
<1>8. Len(log') \in Recent' /\ log'[Len(log')] = sample
  <2>1. Len(log') \in 1..Len(log') /\ log'[Len(log')] = sample
    BY <1>5
  <2>2. sample.at >= now - conf.window
    BY <1>2, <1>3, <1>4
  <2> QED
    BY <2>1, <2>2, <1>7
<1>9. CASE conf.window = 0
  <2>1. samples' = <<sample>>
    BY <1>1, <1>9 DEF Recorded
  <2>2. samples' \in Seq(Samples) /\ Len(samples') = 1 /\ samples'[1] = sample
    BY <2>1, <1>2
  <2>3. samples' # <<>>
    BY <2>2
  <2>4. \A j \in 1..Len(samples') : samples'[j] = sample
    BY <2>2
  <2> QED
    BY <2>2, <2>3, <2>4, <1>6, <1>8 DEF Windowed
<1>10. CASE conf.window # 0
  <2> DEFINE s == Append(samples, sample)
  <2>1. samples' = Kept(s, now)
    BY <1>1, <1>3, <1>10 DEF Recorded
  <2>2. /\ s \in Seq(Samples) /\ Len(s) = Len(samples) + 1 /\ Len(samples) \in Nat
        /\ \A i \in 1..Len(samples) : s[i] = samples[i]
        /\ s[Len(samples) + 1] = sample
    BY <1>2, AppendProperties
  <2> HIDE DEF s
  <2>3. s # <<>> /\ s[Len(s)].at >= now - conf.window
    BY <2>2, <1>2, <1>3, <1>4, EmptySeq
  <2>4. /\ samples' \in Seq(Samples) /\ samples' # <<>>
        /\ \A j \in 1..Len(samples') :
               \E i \in 1..Len(s) : samples'[j] = s[i] /\ s[i].at >= now - conf.window
    BY <2>1, <2>2, <2>3, <1>2, <1>4, KeptIsRecent
  <2>5. ASSUME NEW i \in 1..Len(s), s[i].at >= now - conf.window
        PROVE  \E k \in Recent' : s[i] = log'[k]
    <3>1. CASE i = Len(samples) + 1
      BY <3>1, <2>2, <1>8
    <3>2. CASE i # Len(samples) + 1
      <4>1. i \in 1..Len(samples) /\ s[i] = samples[i]
        BY <3>2, <2>2
      <4>2. PICK k \in Recent : samples[i] = log[k]
        BY <4>1 DEF Windowed
      <4>3. k \in 1..Len(log)
        BY <1>2 DEF Recent
      <4>4. k \in 1..Len(log') /\ log'[k] = log[k]
        BY <4>3, <1>5
      <4> QED
        BY <4>1, <4>2, <4>4, <2>5, <1>7
    <3> QED
      BY <3>1, <3>2
  <2> QED
    BY <2>4, <2>5, <1>6 DEF Windowed
<1> QED
  BY <1>9, <1>10

\* The average is taken over readings of the window alone, in every behaviour.
THEOREM SamplesAreRecent == Spec => []Windowed
<1>1. Init => Windowed
  <2> SUFFICES ASSUME Init PROVE Windowed
    OBVIOUS
  <2>1. samples = <<>> /\ answered = FALSE
    BY DEF Init
  <2>2. samples \in Seq(Samples) /\ Len(samples) = 0
    BY <2>1, EmptySeq
  <2> QED
    BY <2>1, <2>2 DEF Windowed
<1>2. Inv /\ Windowed /\ [Next]_vars => Windowed'
  <2> SUFFICES ASSUME Inv, Windowed, [Next]_vars PROVE Windowed'
    OBVIOUS
  <2>1. CASE UNCHANGED <<conf, answered, samples, log>>
    <3>1. Recent' = Recent
      BY <2>1 DEF Recent
    <3> QED
      BY <2>1, <3>1 DEF Windowed
  <2>2. CASE Tick \/ Check \/ NoAnswer \/ UNCHANGED vars
    BY <2>1, <2>2 DEF Tick, Check, NoAnswer, vars
  <2>3. CASE \E rate \in Rates : Answer(rate)
    BY <2>3, AnswerWindow
  <2>4. CASE Restart
    <3>1. samples' = <<>> /\ answered' = FALSE
      BY <2>4 DEF Restart
    <3>2. samples' \in Seq(Samples) /\ Len(samples') = 0
      BY <3>1, EmptySeq
    <3> QED
      BY <3>1, <3>2 DEF Windowed
  <2> QED
    BY <2>2, <2>3, <2>4 DEF Next
<1> QED
  BY Invariance, <1>1, <1>2, PTL DEF Spec

\* A transfer that stays at a limit for a whole window is not interrupted before
\* the safety valve opens, and traffic below both limits holds nothing: through
\* any window, any limits and any mean.
THEOREM WindowIsDecisive == Spec => []WindowDecides
<1>1. Inv /\ Windowed => WindowDecides
  <2> SUFFICES ASSUME Inv, Windowed, answered PROVE WindowDecides
    BY DEF WindowDecides
  <2> DEFINE High(way, limit) == limit > 0 /\ \A i \in Recent : log[i].rate[way] >= limit
             Low(way, limit) == (\A i \in Recent : log[i].rate[way] < limit) \/ limit = 0
  <2>1. samples \in Seq(Samples) /\ samples # <<>> /\ DownLimit \in Nat /\ UpLimit \in Nat
    BY TransferGuardAssumption DEF Windowed
  <2>2. ASSUME NEW way \in Ways, NEW limit \in Nat, High(way, limit)
        PROVE  Reaches(samples, way, limit)
    <3>1. limit > 0 /\ \A j \in 1..Len(samples) : samples[j].rate[way] >= limit
      BY <2>2 DEF Windowed
    <3> QED
      BY <3>1, <2>1, MeanFollows
  <2>3. ASSUME NEW way \in Ways, NEW limit \in Nat, Low(way, limit)
        PROVE  ~Reaches(samples, way, limit)
    <3>1. limit = 0 \/ \A j \in 1..Len(samples) : samples[j].rate[way] < limit
      BY <2>3 DEF Windowed
    <3> QED
      BY <3>1, <2>1, MeanFollows
  <2>4. "down" \in Ways /\ "up" \in Ways
    BY DEF Ways
  <2>5. High("down", DownLimit) \/ High("up", UpLimit) => Busy(samples)
    BY <2>1, <2>2, <2>4 DEF Busy
  <2>6. Low("down", DownLimit) /\ Low("up", UpLimit) => ~Busy(samples)
    BY <2>1, <2>3, <2>4 DEF Busy
  <2>7. status \in {"", "running"} => status # "crashed"
    OBVIOUS
  <2> QED
    BY <2>5, <2>6, <2>7 DEF WindowDecides, Blocks
<1> QED
  BY Invariance, SamplesAreRecent, <1>1, PTL
=============================================================================
