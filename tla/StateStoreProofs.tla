-------------------------- MODULE StateStoreProofs --------------------------
(***************************************************************************)
(* Theorems about StateStore, for every cap, every number of changes and   *)
(* every sequence of faults: the file is never torn, what is not pending   *)
(* is on disk, nothing is recorded twice or out of order, a write ends,    *)
(* and the write protocol implements DurableStore.                         *)
(***************************************************************************)
EXTENDS StateStore, SequenceTheorems, TLAPS

\* A state as the program holds it: trimmed to the cap.
Kept == {s \in Seq(Nat) : Len(s) <= Cap}

\* What the file holds, and may hold after a power failure, is a whole state.
FilesWhole == \A f \in {file} \cup durable : f.state \in Kept /\ f = Whole(f.state)

\* By the time of the rename the temporary file is whole and on the medium.
TempReady ==
    /\ pc \in {"sync", "close", "rename"} => temp.whole
    /\ pc \in {"close", "rename"} => temp.synced

Inv == TypeOK /\ FilesWhole /\ TempReady /\ Settled

-----------------------------------------------------------------------------
\* trim leaves a state that respects the cap.
LEMMA TrimmedIsKept ==
    ASSUME NEW s \in Seq(Nat)
    PROVE  Trimmed(s) \in Kept
<1>1. Len(s) \in Nat /\ \A i \in 1..Len(s) : s[i] \in Nat
  BY LenProperties, ElementOfSeq
<1>2. Cap \in Nat \ {0}
  BY StateStoreAssumption
<1>3. CASE Len(s) > Cap
  <2>1. \A i \in (Len(s) - Cap + 1)..Len(s) : s[i] \in Nat
    BY <1>1, <1>2, <1>3
  <2>2. SubSeq(s, Len(s) - Cap + 1, Len(s)) \in Seq(Nat)
    BY <1>1, <1>2, <2>1, SubSeqProperties
  <2>3. Len(SubSeq(s, Len(s) - Cap + 1, Len(s))) = Cap
    BY <1>1, <1>2, <1>3, <2>1, SubSeqProperties
  <2> QED
    BY <1>2, <1>3, <2>2, <2>3 DEF Trimmed, Kept
<1>4. CASE ~(Len(s) > Cap)
  BY <1>1, <1>2, <1>4 DEF Trimmed, Kept
<1> QED
  BY <1>3, <1>4

LEMMA NothingIsKept == <<>> \in Kept /\ Read(Whole(<<>>)) = <<>>
BY EmptySeq, StateStoreAssumption DEF Kept, Read, Whole

\* A whole file of a state that was kept is a value of the state file.
LEMMA WholeType ==
    ASSUME NEW f, f.state \in Kept, f = Whole(f.state)
    PROVE  f \in [whole : BOOLEAN, state : Seq(Nat)] /\ Len(f.state) <= Cap
<1>1. f.state \in Seq(Nat) /\ Len(f.state) <= Cap
  BY DEF Kept
<1>2. Whole(f.state) \in [whole : BOOLEAN, state : Seq(Nat)]
  BY <1>1 DEF Whole
<1> QED
  BY <1>1, <1>2

\* A change leaves a state that respects the cap.
LEMMA ChangedIsKept ==
    ASSUME mem \in Kept, made \in 0..MaxChanges, Changed
    PROVE  mem' \in Kept /\ made' \in 0..MaxChanges
<1>1. made + 1 \in Nat /\ made' \in 0..MaxChanges
  BY StateStoreAssumption DEF Changed
<1>2. Append(mem, made + 1) \in Seq(Nat)
  BY <1>1, AppendProperties DEF Kept
<1> QED
  BY <1>1, <1>2, TrimmedIsKept DEF Changed

\* A fault uses up one of those that are allowed.
LEMMA FaultType ==
    ASSUME NEW kind, faults \in 0..MaxFaults, Fault(kind)
    PROVE  faults' \in 0..MaxFaults
BY StateStoreAssumption DEF Fault

LEMMA InitInv == Init => Inv
<1> SUFFICES ASSUME Init PROVE Inv
  OBVIOUS
<1>1. mem \in Kept /\ file.state \in Kept /\ file = Whole(<<>>) /\ durable = {file}
  BY NothingIsKept DEF Init, Whole
<1>2. TypeOK
  <2>1. file = Whole(file.state)
    BY <1>1 DEF Whole
  <2>2. file \in [whole : BOOLEAN, state : Seq(Nat)] /\ Len(file.state) <= Cap
    BY <1>1, <2>1, WholeType
  <2>3. mem \in Seq(Nat) /\ Len(mem) <= Cap
    BY <1>1 DEF Kept
  <2>4. temp \in [exists : BOOLEAN, whole : BOOLEAN, synced : BOOLEAN]
    BY DEF Init, NoTemp
  <2>5. made \in 0..MaxChanges /\ faults \in 0..MaxFaults
    BY StateStoreAssumption DEF Init
  <2>6. /\ dirty \in BOOLEAN /\ job \in {"none", "update", "flush", "shutdown"}
        /\ pc \in {"down", "idle", "create", "write", "sync", "close", "rename"}
    BY DEF Init
  <2> QED
    BY <2>2, <2>3, <2>4, <2>5, <2>6 DEF TypeOK
<1>3. FilesWhole
  BY <1>1 DEF FilesWhole, Whole
<1> QED
  BY <1>2, <1>3 DEF Inv, Init, TempReady, Settled

-----------------------------------------------------------------------------
\* Every step of the store and of the machine preserves the invariant.
LEMMA NextInv == Inv /\ [Next]_vars => Inv'
<1> SUFFICES ASSUME Inv, [Next]_vars PROVE Inv'
  OBVIOUS
<1>1. /\ mem \in Kept /\ file.state \in Kept /\ file = Whole(file.state)
      /\ \A f \in durable : f.state \in Kept /\ f = Whole(f.state)
      /\ dirty \in BOOLEAN /\ made \in 0..MaxChanges /\ faults \in 0..MaxFaults
      /\ job \in {"none", "update", "flush", "shutdown"}
      /\ temp \in [exists : BOOLEAN, whole : BOOLEAN, synced : BOOLEAN]
      /\ pc \in {"down", "idle", "create", "write", "sync", "close", "rename"}
      /\ TempReady /\ Settled
  BY DEF Inv, TypeOK, FilesWhole, Kept
<1>2. SUFFICES
      /\ mem' \in Kept /\ file'.state \in Kept /\ file' = Whole(file'.state)
      /\ \A f \in durable' : f.state \in Kept /\ f = Whole(f.state)
      /\ dirty' \in BOOLEAN /\ made' \in 0..MaxChanges /\ faults' \in 0..MaxFaults
      /\ job' \in {"none", "update", "flush", "shutdown"}
      /\ temp' \in [exists : BOOLEAN, whole : BOOLEAN, synced : BOOLEAN]
      /\ pc' \in {"down", "idle", "create", "write", "sync", "close", "rename"}
      /\ TempReady' /\ Settled'
  <2>1. file' \in [whole : BOOLEAN, state : Seq(Nat)] /\ Len(file'.state) <= Cap
    BY <1>2, WholeType
  <2> QED
    BY <1>2, <2>1 DEF Inv, TypeOK, FilesWhole, Kept
<1>3. CASE Load
  <2>1. Read(file) = file.state
    BY <1>1 DEF Read, Whole
  <2>2. faults' \in 0..MaxFaults
    BY <1>1, <1>3, FaultType DEF Load
  <2>3. mem' = <<>> \/ file' = Whole(mem')
    BY <1>1, <1>3, <2>1 DEF Load, diskVars
  <2> QED
    BY <1>1, <1>3, <2>1, <2>2, <2>3, NothingIsKept DEF Load, diskVars, TempReady, Settled
<1>4. CASE Update \/ ClearHistory \/ Mutate
  <2>1. CASE Update \/ Mutate
    BY <1>1, <2>1, ChangedIsKept
       DEF Update, Mutate, BeginWrite, diskVars, TempReady, Settled
  <2>2. CASE ClearHistory
    BY <1>1, <2>2, NothingIsKept
       DEF ClearHistory, BeginWrite, diskVars, TempReady, Settled
  <2> QED
    BY <1>4, <2>1, <2>2
<1>5. CASE Flush \/ Shutdown
  BY <1>1, <1>5, NothingIsKept
     DEF Flush, Shutdown, BeginWrite, Ended, diskVars, TempReady, Settled
<1>6. CASE CreateTemp \/ WriteTemp \/ Sync \/ CloseAndChmod
  <2>1. temp' \in [exists : BOOLEAN, whole : BOOLEAN, synced : BOOLEAN]
    BY <1>1, <1>6 DEF CreateTemp, WriteTemp, Sync, CloseAndChmod, diskVars, NoTemp
  <2>2. TempReady'
    BY <1>1, <1>6
       DEF CreateTemp, WriteTemp, Sync, CloseAndChmod, Step, diskVars, NoTemp, TempReady
  <2> QED
    BY <1>1, <1>6, <2>1, <2>2
       DEF CreateTemp, WriteTemp, Sync, CloseAndChmod, Step, diskVars, Settled
<1>7. CASE Rename
  <2>1. file' = Whole(mem) /\ durable' = durable \cup {Whole(mem)}
    BY <1>1, <1>7 DEF Rename, TempReady
  <2>2. Whole(mem).state = mem /\ temp' = NoTemp
    BY <1>7 DEF Rename, Whole
  <2>3. /\ file'.state \in Kept /\ file' = Whole(file'.state)
        /\ \A f \in durable' : f.state \in Kept /\ f = Whole(f.state)
    BY <1>1, <2>1, <2>2
  <2>4. /\ mem' \in Kept /\ dirty' = FALSE /\ job' = "none" /\ pc' \in {"down", "idle"}
        /\ mem' \in {mem, <<>>} /\ UNCHANGED <<made, faults>>
    BY <1>1, <1>7, NothingIsKept DEF Rename, Returned, Ended
  <2>5. temp' \in [exists : BOOLEAN, whole : BOOLEAN, synced : BOOLEAN]
    BY <2>2 DEF NoTemp
  <2>6. Settled'
    BY <2>1, <2>4 DEF Settled
  <2> QED
    BY <1>1, <2>3, <2>4, <2>5, <2>6 DEF TempReady
<1>8. CASE Failed
  BY <1>1, <1>8, NothingIsKept, FaultType
     DEF Failed, Returned, Ended, NoTemp, TempReady, Settled
<1>9. CASE Kill \/ PowerFailure
  <2>1. /\ mem' = <<>> /\ dirty' = FALSE /\ pc' = "down" /\ job' = "none" /\ temp' = NoTemp
        /\ faults' \in 0..MaxFaults
    BY <1>1, <1>9, FaultType DEF Kill, PowerFailure, Died, Ended
  <2>2. /\ file'.state \in Kept /\ file' = Whole(file'.state)
        /\ \A f \in durable' : f.state \in Kept /\ f = Whole(f.state)
        /\ made' = made
    BY <1>1, <1>9 DEF Kill, PowerFailure
  <2> QED
    BY <1>1, <2>1, <2>2, NothingIsKept DEF NoTemp, TempReady, Settled
<1>10. CASE Commit
  BY <1>1, <1>10 DEF Commit, TempReady, Settled
<1>11. CASE UNCHANGED vars
  BY <1>1, <1>11 DEF vars, TempReady, Settled
<1> QED
  BY <1>3, <1>4, <1>5, <1>6, <1>7, <1>8, <1>9, <1>10, <1>11 DEF Next, Write

\* The invariant holds in every behaviour: no sequence of failing calls, kills
\* and power failures leads out of it.
THEOREM Invariance == Spec => []Inv
BY InitInv, NextInv, PTL DEF Spec

\* Neither memory nor the file ever outgrows the caps, whatever is pending.
THEOREM TypeCorrectness == Spec => []TypeOK
<1>1. Inv => TypeOK
  BY DEF Inv
<1> QED
  BY Invariance, <1>1, PTL

\* No failing call, killed process or power failure leaves a torn file.
THEOREM FileIsWhole == Spec => []NeverTorn
<1>1. Inv => NeverTorn
  BY DEF Inv, FilesWhole, NeverTorn, Whole
<1> QED
  BY Invariance, <1>1, PTL

\* What is not pending is on disk.
THEOREM CleanIsOnDisk == Spec => []Settled
<1>1. Inv => Settled
  BY DEF Inv
<1> QED
  BY Invariance, <1>1, PTL

\* A shutdown on which nothing fails leaves everything on disk: the program ends
\* with nothing pending, or with a rename that publishes what it holds.
THEOREM ShutdownIsComplete == Spec => ShutdownKeepsAll
<1>1. ASSUME Inv, [Next]_vars, pc # "down", pc' = "down", faults' = faults
      PROVE  mem = <<>> \/ file' = Whole(mem)
  <2>1. faults \in Nat /\ ~\E kind \in {"io", "kill", "power", "unreadable"} : Fault(kind)
    BY <1>1, StateStoreAssumption DEF Inv, TypeOK, Fault
  <2>2. ~Load /\ ~Failed /\ ~Kill /\ ~PowerFailure
    BY <1>1, <2>1 DEF Load, Failed, Kill, PowerFailure
  <2>3. CASE Shutdown
    BY <1>1, <2>3 DEF Shutdown, BeginWrite, Inv, Settled, diskVars
  <2>4. CASE Rename
    BY <1>1, <2>4 DEF Rename, Inv, TempReady
  <2>5. CASE Update \/ ClearHistory \/ Mutate \/ Flush
    BY <1>1, <2>5 DEF Update, ClearHistory, Mutate, Flush, BeginWrite
  <2>6. CASE CreateTemp \/ WriteTemp \/ Sync \/ CloseAndChmod
    BY <1>1, <2>6 DEF CreateTemp, WriteTemp, Sync, CloseAndChmod, Step
  <2>7. CASE Commit \/ UNCHANGED vars
    BY <1>1, <2>7 DEF Commit, vars
  <2> QED
    BY <1>1, <2>2, <2>3, <2>4, <2>5, <2>6, <2>7 DEF Next, Write
<1> QED
  BY Invariance, <1>1, PTL DEF ShutdownKeepsAll, Spec

-----------------------------------------------------------------------------
(* What is recorded, and in which order                                     *)

\* A state is a part of what was recorded so far, in the order it was recorded
\* in, with nothing in it twice.
InOrder(s) ==
    /\ \A i \in DOMAIN s : 1 <= s[i] /\ s[i] <= made
    /\ \A i, j \in DOMAIN s : i < j => s[i] < s[j]

\* That is so of what the program holds, of the file, and of whatever a power
\* failure may make of the file.
HistoriesInOrder == InOrder(mem) /\ \A f \in {file} \cup durable : InOrder(f.state)

\* trim drops the oldest, and none before there are too many; the newest stays.
DropsTheOldest ==
    [][made' # made =>
          /\ Len(mem') = IF Len(mem) < Cap THEN Len(mem) + 1 ELSE Cap
          /\ mem'[Len(mem')] = made'
          /\ \A i \in DOMAIN mem : (\A j \in DOMAIN mem' : mem'[j] # mem[i]) =>
                \A j \in DOMAIN mem' : mem[i] < mem'[j]]_vars

\* trim takes a suffix.
LEMMA TrimmedIsSuffix ==
    ASSUME NEW s \in Seq(Nat)
    PROVE  /\ Len(Trimmed(s)) = IF Len(s) > Cap THEN Cap ELSE Len(s)
           /\ \A j \in 1..Len(Trimmed(s)) :
                 /\ j + (Len(s) - Len(Trimmed(s))) \in 1..Len(s)
                 /\ Trimmed(s)[j] = s[j + (Len(s) - Len(Trimmed(s)))]
<1>1. Len(s) \in Nat /\ Cap \in Nat \ {0} /\ \A i \in 1..Len(s) : s[i] \in Nat
  BY StateStoreAssumption, LenProperties, ElementOfSeq
<1>2. CASE Len(s) > Cap
  <2> DEFINE m == Len(s) - Cap + 1
  <2>1. Trimmed(s) = SubSeq(s, m, Len(s)) /\ m \in 1..Len(s) /\ \A i \in m..Len(s) : s[i] \in Nat
    BY <1>1, <1>2 DEF Trimmed
  <2>2. /\ Len(SubSeq(s, m, Len(s))) = Cap
        /\ \A j \in 1..Cap : SubSeq(s, m, Len(s))[j] = s[m + j - 1]
    BY <1>1, <1>2, <2>1, SubSeqProperties
  <2>3. \A j \in 1..Cap : m + j - 1 = j + (Len(s) - Cap) /\ j + (Len(s) - Cap) \in 1..Len(s)
    BY <1>1, <1>2
  <2> QED
    BY <1>2, <2>1, <2>2, <2>3
<1>3. CASE ~(Len(s) > Cap)
  BY <1>1, <1>3 DEF Trimmed
<1> QED
  BY <1>2, <1>3

\* Recording adds the newest at the end.
LEMMA ChangedInOrder ==
    ASSUME Inv, InOrder(mem), Changed
    PROVE  /\ InOrder(mem)'
           /\ Len(mem') = IF Len(mem) < Cap THEN Len(mem) + 1 ELSE Cap
           /\ mem'[Len(mem')] = made'
           /\ \A i \in DOMAIN mem : (\A j \in DOMAIN mem' : mem'[j] # mem[i]) =>
                 \A j \in DOMAIN mem' : mem[i] < mem'[j]
<1> DEFINE s == Append(mem, made + 1)
<1>1. /\ mem \in Seq(Nat) /\ Len(mem) \in Nat /\ Len(mem) <= Cap /\ Cap \in Nat \ {0}
      /\ made \in Nat /\ made' = made + 1 /\ mem' = Trimmed(s)
  BY StateStoreAssumption, LenProperties DEF Inv, TypeOK, Changed
<1>2. /\ s \in Seq(Nat) /\ Len(s) = Len(mem) + 1 /\ s[Len(mem) + 1] = made + 1
      /\ \A i \in 1..Len(mem) : s[i] = mem[i]
  BY <1>1
<1>3. /\ \A i \in 1..Len(mem) : mem[i] \in Nat /\ 1 <= mem[i] /\ mem[i] <= made
      /\ \A i, j \in 1..Len(mem) : i < j => mem[i] < mem[j]
  BY <1>1 DEF InOrder
<1> HIDE DEF s
<1>4. /\ \A i \in 1..Len(s) : s[i] \in Nat /\ 1 <= s[i] /\ s[i] <= made + 1
      /\ \A i, j \in 1..Len(s) : i < j => s[i] < s[j]
  <2>1. ASSUME NEW i \in 1..Len(s) PROVE s[i] \in Nat /\ 1 <= s[i] /\ s[i] <= made + 1
    <3>1. CASE i = Len(mem) + 1
      BY <1>1, <1>2, <3>1
    <3>2. CASE i \in 1..Len(mem)
      BY <1>1, <1>2, <1>3, <3>2
    <3> QED
      BY <1>1, <1>2, <3>1, <3>2
  <2>2. ASSUME NEW i \in 1..Len(s), NEW j \in 1..Len(s), i < j PROVE s[i] < s[j]
    <3>1. i \in 1..Len(mem) /\ s[i] = mem[i]
      BY <1>1, <1>2, <2>2
    <3>2. CASE j = Len(mem) + 1
      BY <1>1, <1>2, <1>3, <3>1, <3>2
    <3>3. CASE j \in 1..Len(mem)
      BY <1>1, <1>2, <1>3, <2>2, <3>1, <3>3
    <3> QED
      BY <1>1, <1>2, <3>2, <3>3
  <2> QED
    BY <2>1, <2>2
<1> DEFINE k == Len(s) - Len(mem')
<1>5. /\ Len(mem') = IF Len(mem) < Cap THEN Len(mem) + 1 ELSE Cap
      /\ \A j \in 1..Len(mem') : j + k \in 1..Len(s) /\ mem'[j] = s[j + k]
  <2>1. Len(mem') = IF Len(s) > Cap THEN Cap ELSE Len(s)
    BY <1>1, <1>2, TrimmedIsSuffix
  <2>2. \A j \in 1..Len(mem') : j + k \in 1..Len(s) /\ mem'[j] = s[j + k]
    BY <1>1, <1>2, TrimmedIsSuffix
  <2>3. Len(s) > Cap <=> ~(Len(mem) < Cap)
    BY <1>1, <1>2
  <2>4. ~(Len(s) > Cap) => Len(s) = Len(mem) + 1
    BY <1>2
  <2> QED
    BY <2>1, <2>2, <2>3, <2>4
<1>6. Len(mem') \in Nat \ {0} /\ k \in Nat /\ mem' \in Seq(Nat) /\ Len(mem') + k = Len(s)
  BY <1>1, <1>2, <1>5, TrimmedIsKept DEF Kept
<1> HIDE DEF k
<1>7. DOMAIN mem' = 1..Len(mem') /\ DOMAIN mem = 1..Len(mem)
  BY <1>1, <1>6
<1>8. InOrder(mem)'
  <2>1. ASSUME NEW i \in 1..Len(mem') PROVE 1 <= mem'[i] /\ mem'[i] <= made'
    <3>1. i + k \in 1..Len(s) /\ mem'[i] = s[i + k]
      BY <1>5
    <3> QED
      BY <1>1, <1>4, <3>1
  <2>2. ASSUME NEW i \in 1..Len(mem'), NEW j \in 1..Len(mem'), i < j PROVE mem'[i] < mem'[j]
    <3>1. i + k \in 1..Len(s) /\ mem'[i] = s[i + k] /\ j + k \in 1..Len(s) /\ mem'[j] = s[j + k]
      BY <1>5
    <3>2. i + k < j + k
      BY <1>6, <2>2
    <3> QED
      BY <1>4, <3>1, <3>2
  <2> QED
    BY <1>7, <2>1, <2>2 DEF InOrder
<1>9. mem'[Len(mem')] = made'
  <2>1. Len(mem') \in 1..Len(mem')
    BY <1>6
  <2>2. mem'[Len(mem')] = s[Len(mem') + k]
    BY <1>5, <2>1
  <2>3. mem'[Len(mem')] = s[Len(s)]
    BY <1>6, <2>2
  <2> QED
    BY <1>1, <1>2, <2>3
<1>10. ASSUME NEW i \in DOMAIN mem, \A j \in DOMAIN mem' : mem'[j] # mem[i], NEW j \in DOMAIN mem'
       PROVE  mem[i] < mem'[j]
  <2>1. i \in 1..Len(s) /\ s[i] = mem[i] /\ j \in 1..Len(mem') /\ j + k \in 1..Len(s) /\ mem'[j] = s[j + k]
    BY <1>1, <1>2, <1>5, <1>7, <1>10
  <2>2. i <= k
    <3> SUFFICES ASSUME i > k PROVE FALSE
      BY <1>6, <1>7
    <3>1. i - k \in 1..Len(mem') /\ (i - k) + k = i
      BY <1>6, <2>1
    <3>2. mem'[i - k] = s[i]
      BY <1>5, <3>1
    <3> QED
      BY <1>7, <1>10, <2>1, <3>1, <3>2
  <2>3. i < j + k
    BY <1>6, <2>1, <2>2
  <2> QED
    BY <1>4, <2>1, <2>3
<1> QED
  BY <1>5, <1>8, <1>9, <1>10

LEMMA NothingInOrder == InOrder(<<>>)
BY DEF InOrder

\* Nothing reorders a state: it is recorded into, copied to and from the file,
\* or lost.
LEMMA NextInOrder == Inv /\ HistoriesInOrder /\ [Next]_vars => HistoriesInOrder'
<1> SUFFICES ASSUME Inv, HistoriesInOrder, [Next]_vars PROVE HistoriesInOrder'
  OBVIOUS
<1> DEFINE In(s) == InOrder(s)
<1>1. In(mem) /\ In(file.state) /\ (\A f \in durable : In(f.state)) /\ In(<<>>)
  BY NothingInOrder DEF HistoriesInOrder
<1>2. CASE Changed /\ UNCHANGED diskVars
  <2>1. InOrder(mem)'
    BY <1>1, <1>2, ChangedInOrder
  <2>2. made \in Nat /\ made' = made + 1
    BY <1>2, StateStoreAssumption DEF Inv, TypeOK, Changed
  <2>3. ASSUME NEW f \in {file} \cup durable PROVE InOrder(f.state)'
    <3>1. InOrder(f.state) /\ \A i \in DOMAIN f.state : f.state[i] \in Nat
      BY <1>1, <2>3, ElementOfSeq DEF Inv, FilesWhole, Kept
    <3> QED
      BY <2>2, <3>1 DEF InOrder
  <2> QED
    BY <1>2, <2>1, <2>3 DEF HistoriesInOrder, diskVars
<1>3. CASE ~(Changed /\ UNCHANGED diskVars)
  <2>1. made' = made
    BY <1>3 DEF Next, Write, Load, Update, ClearHistory, Mutate, Flush, Shutdown, CreateTemp, WriteTemp, Sync,
                CloseAndChmod, Step, Rename, Failed, Kill, PowerFailure, Commit, vars
  <2>2. \A s : InOrder(s)' <=> InOrder(s)
    BY <2>1 DEF InOrder
  <2>3. mem' \in {mem, Read(file), <<>>}
    BY <1>3 DEF Next, Write, Load, Update, ClearHistory, Mutate, Flush, Shutdown, BeginWrite, CreateTemp,
                WriteTemp, Sync, CloseAndChmod, Step, Rename, Failed, Returned, Kill, PowerFailure, Died,
                Ended, Commit, vars
  <2>4. Read(file) \in {file.state, <<>>}
    BY DEF Read
  <2>5. {file'} \cup durable' \subseteq {file} \cup durable \cup {Whole(mem), Torn}
    BY DEF Next, Write, Load, Update, ClearHistory, Mutate, Flush, Shutdown, CreateTemp, WriteTemp, Sync,
           CloseAndChmod, Step, Rename, Failed, Kill, PowerFailure, Commit, diskVars, vars
  <2>6. Whole(mem).state = mem /\ Torn.state = <<>>
    BY DEF Whole, Torn
  <2>7. In(mem') /\ \A f \in {file'} \cup durable' : In(f.state)
    BY <1>1, <2>3, <2>4, <2>5, <2>6
  <2> QED
    BY <2>1, <2>7 DEF HistoriesInOrder, InOrder
<1> QED
  BY <1>2, <1>3

LEMMA InitInOrder == Init => HistoriesInOrder
BY NothingInOrder DEF Init, HistoriesInOrder, Whole

\* Whatever fails, dies or loses power, and however often the program starts
\* again from what it finds: no change is recorded twice or out of order.
THEOREM NothingRecordedTwice == Spec => []HistoriesInOrder
BY InitInOrder, NextInOrder, Invariance, PTL DEF Spec

\* What the caps cost is always what is oldest.
THEOREM NewestAreKept == Spec => DropsTheOldest
<1> DEFINE Dropped ==
        made' # made =>
          /\ Len(mem') = IF Len(mem) < Cap THEN Len(mem) + 1 ELSE Cap
          /\ mem'[Len(mem')] = made'
          /\ \A i \in DOMAIN mem : (\A j \in DOMAIN mem' : mem'[j] # mem[i]) =>
                \A j \in DOMAIN mem' : mem[i] < mem'[j]
<1>1. Inv /\ HistoriesInOrder /\ [Next]_vars => Dropped
  <2> SUFFICES ASSUME Inv, HistoriesInOrder, [Next]_vars, made' # made PROVE Dropped
    OBVIOUS
  <2>1. Changed
    BY DEF Next, Write, Load, Update, ClearHistory, Mutate, Flush, Shutdown, CreateTemp, WriteTemp, Sync,
           CloseAndChmod, Step, Rename, Failed, Kill, PowerFailure, Commit, vars
  <2> QED
    BY <2>1, ChangedInOrder DEF HistoriesInOrder
<1> HIDE DEF Dropped
<1>2. Spec => [][Dropped]_vars
  BY <1>1, NothingRecordedTwice, Invariance, PTL DEF Spec
<1> QED
  BY <1>2 DEF Dropped, DropsTheOldest

-----------------------------------------------------------------------------
(* How long a change can wait                                               *)

\* The system calls until a write is over.
Due ==
    CASE pc = "create" -> 5
      [] pc = "write"  -> 4
      [] pc = "sync"   -> 3
      [] pc = "close"  -> 2
      [] pc = "rename" -> 1
      [] pc \in {"idle", "down"} -> 0

\* Every call of a write brings its end nearer, failing or not, and what else
\* happens leaves it where it is or ends the program.
WritesAreShort ==
    [][/\ Write => Due' < Due
       /\ Due > 0 /\ ~Write => Due' = Due \/ pc' = "down"]_vars

\* Behind "what was recorded reaches the file": what is not there yet is due
\* to be written (CleanIsOnDisk), and a write ends; what fairness adds is that
\* its calls return and that the flush timer fires.
THEOREM WritesShrink == Spec => WritesAreShort
<1>1. Inv /\ [Next]_vars => [/\ Write => Due' < Due
                             /\ Due > 0 /\ ~Write => Due' = Due \/ pc' = "down"]_vars
  <2> SUFFICES ASSUME Inv, [Next]_vars
               PROVE  /\ Write => Due' < Due
                      /\ Due > 0 /\ ~Write => Due' = Due \/ pc' = "down"
    OBVIOUS
  <2>1. Write => Due' < Due
    <3>1. CASE CreateTemp \/ WriteTemp \/ Sync \/ CloseAndChmod
      BY <3>1 DEF CreateTemp, WriteTemp, Sync, CloseAndChmod, Step, Due
    <3>2. CASE Rename \/ Failed
      <4>1. pc \in {"create", "write", "sync", "close", "rename"} /\ pc' \in {"idle", "down"}
        BY <3>2 DEF Rename, Failed, Returned, Ended
      <4> QED
        BY <4>1 DEF Due
    <3> QED
      BY <3>1, <3>2 DEF Write
  <2>2. ASSUME Due > 0, ~Write PROVE Due' = Due \/ pc' = "down"
    <3>1. pc \notin {"idle", "down"}
      BY <2>2 DEF Due
    <3>2. pc' = pc \/ pc' = "down"
      BY <2>2, <3>1 DEF Next, Load, Update, ClearHistory, Mutate, Flush, Shutdown, Kill, PowerFailure, Died,
                        Ended, Commit, vars
    <3> QED
      BY <3>2 DEF Due
  <2> QED
    BY <2>1, <2>2
<1> QED
  BY <1>1, Invariance, PTL DEF Spec, WritesAreShort

-----------------------------------------------------------------------------
\* The write protocol, with its faults, implements the store that saves in one
\* step: every step is one of the abstract store or changes nothing it shows.
THEOREM Implementation == Spec => SavesAreAtomic
<1>1. Init => Durable!Init
  BY DEF Init, Durable!Init, Reading, Whole
<1>2. Inv /\ [Next]_vars => [Durable!Next]_(Durable!vars)
  <2> SUFFICES ASSUME Inv, [Next]_vars PROVE [Durable!Next]_(Durable!vars)
    OBVIOUS
  <2>1. /\ mem \in Kept /\ file.whole /\ \A f \in durable : f.whole
        /\ Reading(file) = Read(file)
    BY DEF Inv, TypeOK, FilesWhole, Whole, Kept, Reading, Read
  <2>2. CASE Load
    <3>1. ~(pc # "down") /\ pc' # "down" /\ mem' \in {Reading(file), <<>>}
      BY <2>1, <2>2 DEF Load
    <3> QED
      BY <2>2, <3>1 DEF Load, diskVars, Durable!Next, Durable!Start
  <2>3. CASE Update \/ ClearHistory \/ Mutate
    <3>1. mem' \in Kept /\ pc # "down" /\ pc' # "down" /\ UNCHANGED diskVars
      BY <2>1, <2>3, ChangedIsKept, NothingIsKept
         DEF Update, ClearHistory, Mutate, BeginWrite, Inv, TypeOK
    <3> QED
      BY <3>1 DEF Kept, diskVars, Durable!Next, Durable!Change
  <2>4. CASE Flush \/ Shutdown
    <3>1. pc # "down" /\ UNCHANGED diskVars
      BY <2>4 DEF Flush, Shutdown
    <3>2. (pc' # "down" /\ UNCHANGED mem) \/ (pc' = "down" /\ mem' = <<>>)
      BY <2>4 DEF Flush, Shutdown, BeginWrite, Ended
    <3> QED
      BY <3>1, <3>2 DEF diskVars, Durable!Next, Durable!End, Durable!Gone, Durable!vars
  <2>5. CASE CreateTemp \/ WriteTemp \/ Sync \/ CloseAndChmod
    <3>1. pc # "down" /\ pc' # "down" /\ UNCHANGED <<mem, file, durable>>
      BY <2>5 DEF CreateTemp, WriteTemp, Sync, CloseAndChmod, Step, diskVars
    <3> QED
      BY <3>1 DEF Durable!vars
  <2>6. CASE Rename
    <3>1. pc # "down" /\ file' = Whole(mem) /\ durable' = durable \cup {Whole(mem)}
      BY <2>6 DEF Rename, Inv, TempReady
    <3>2. Reading(file') = mem
      BY <3>1 DEF Reading, Whole
    <3>3. {Reading(f) : f \in durable'} = {Reading(f) : f \in durable} \cup {mem}
      BY <3>1, <3>2
    <3>4. (pc' # "down" /\ UNCHANGED mem) \/ (pc' = "down" /\ mem' = <<>>)
      BY <2>6 DEF Rename, Returned, Ended
    <3> QED
      BY <3>1, <3>2, <3>3, <3>4 DEF Durable!Next, Durable!Save, Durable!Gone
  <2>7. CASE Failed \/ Kill
    <3>1. pc # "down" /\ UNCHANGED <<file, durable>>
      BY <2>7 DEF Failed, Kill
    <3>2. (pc' # "down" /\ UNCHANGED mem) \/ (pc' = "down" /\ mem' = <<>>)
      BY <2>7 DEF Failed, Kill, Returned, Died, Ended
    <3> QED
      BY <3>1, <3>2 DEF Durable!Next, Durable!End, Durable!Gone, Durable!vars
  <2>8. CASE PowerFailure
    <3>1. pc' = "down" /\ mem' = <<>> /\ file' \in durable /\ durable' = {file'}
      BY <2>8 DEF PowerFailure, Died, Ended
    <3> QED
      BY <3>1 DEF Durable!Next, Durable!Fail, Durable!Gone
  <2>9. CASE Commit
    BY <2>9 DEF Commit, Durable!Next, Durable!Settle
  <2>10. CASE UNCHANGED vars
    BY <2>10 DEF vars, Durable!vars
  <2> QED
    BY <2>2, <2>3, <2>4, <2>5, <2>6, <2>7, <2>8, <2>9, <2>10 DEF Next, Write
<1> QED
  BY <1>1, <1>2, Invariance, PTL DEF Spec, SavesAreAtomic, Durable!Spec

=============================================================================
