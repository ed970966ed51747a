------------------------- MODULE ProtonSessionProofs -------------------------
(***************************************************************************)
(* Theorems about ProtonSession, for any second factors, any number of     *)
(* attempts and any mix and number of faults: the session file keeps up    *)
(* with the client, the password is used only when the refresh token of    *)
(* that file is dead, and every request is over after a bounded number of  *)
(* steps, whatever Proton answers.                                         *)
(***************************************************************************)
EXTENDS ProtonSession, TLAPS

\* Nothing fails: Proton answers, every answer arrives, the disk works.
Healthy == Without({"outage", "lost", "disk"})

\* A call that needs a session has one.
CallsHaveSession == pc \in {"send", "resend", "refresh"} => held # 0

\* A refreshed pair waits for its answer: Proton has issued it.
RefreshIssued == pc = "refreshed" => issued # 0

\* Between attempts there is another one to come.
AttemptLeft == pc = "wait" => attempt < MaxAttempts

\* A client without a session has no session file that could still help.
NoneIsDead == Healthy => mode = "up" /\ (held = 0 => StoredIsDead)

Inv == TypeOK /\ CallsHaveSession /\ RefreshIssued /\ AttemptLeft /\ StoredIsHeld /\ NoneIsDead

-----------------------------------------------------------------------------
\* A step changes the number of faults that are left, never their kinds.
KindsStay == faults' \in [kinds : FaultMixes, left : 0..MaxFaults] /\ faults'.kinds = faults.kinds

LEMMA UnchangedFaults == TypeOK /\ UNCHANGED faults => KindsStay
BY DEF TypeOK, KindsStay

LEMMA FaultKeeps == ASSUME TypeOK, NEW kind, Fault(kind) PROVE KindsStay /\ kind \in faults.kinds
BY ProtonSessionAssumption DEF TypeOK, Fault, KindsStay

LEMMA StoreKeeps ==
    ASSUME TypeOK, NEW session, Store(session)
    PROVE  KindsStay /\ (stored' = session \/ (stored' = stored /\ "disk" \in faults.kinds))
BY UnchangedFaults, FaultKeeps DEF Store

Pcs == {"idle", "send", "resend", "refresh", "refreshed", "authinfo", "proofs",
        "code", "2fa", "wait", "publish"}

\* What a step may leave as the call that is due, the client holding session.
Due(session) ==
    /\ pc' \in {"idle", "wait", "publish", "authinfo", "send"}
    /\ pc' = "send" => session # 0
    /\ pc' = "authinfo" => session = 0
    /\ pc' = "wait" => attempt' < MaxAttempts

JobOK == req' \in {"account", "logicals", "loads"} /\ attempt' \in 1..MaxAttempts
         /\ after' \in {"send", "resend"} /\ asks' \in BOOLEAN

LEMMA EnsureDue == ASSUME NEW session, Ensure(session) PROVE Due(session) /\ after' \in {"send", "resend"}
BY DEF Ensure, Due

LEMMA BeginDue ==
    ASSUME TypeOK, NEW session, NEW request \in {"account", "logicals", "loads"}, Begin(request, session)
    PROVE  /\ Due(session) /\ after' \in {"send", "resend"}
           /\ req' \in {"account", "logicals", "loads"} /\ attempt' \in 1..MaxAttempts
BY EnsureDue, ProtonSessionAssumption DEF Begin

LEMMA FinishedDue ==
    ASSUME TypeOK, NEW why, NEW session, Finished(why, session)
    PROVE  Due(session) /\ JobOK
<1>1. CASE req = "account"
  BY <1>1, BeginDue DEF Finished, JobOK, TypeOK
<1>2. CASE req # "account"
  BY <1>2 DEF Finished, JobOK, Due, TypeOK, job
<1> QED
  BY <1>1, <1>2

LEMMA FailedDue ==
    ASSUME TypeOK, NEW retryable, NEW session, FailedRequest(retryable, session)
    PROVE  Due(session) /\ JobOK
<1>1. CASE retryable /\ attempt < MaxAttempts
  BY <1>1 DEF FailedRequest, JobOK, Due, TypeOK, job
<1>2. CASE ~(retryable /\ attempt < MaxAttempts)
  BY <1>2, FinishedDue DEF FailedRequest
<1> QED
  BY <1>1, <1>2

-----------------------------------------------------------------------------
\* Steps that leave Proton and the sessions as they are.
Quiet == UNCHANGED <<access, renewal, issued, right, factor, held, stored>>

LEMMA QuietInv ==
    ASSUME Inv, Quiet, KindsStay, JobOK, mode' \in {"up", "busy", "down"}, Healthy => mode' = mode,
           pc' \in Pcs, pc' \in {"send", "resend", "refresh"} => held # 0, pc' = "refreshed" => pc = "refreshed",
           pc' = "wait" => attempt' < MaxAttempts,
           code' \in {"none", "fresh", "stale"}, codes' \in {"none", "fresh", "stale"}
    PROVE  Inv'
<1>1. TypeOK'
  BY DEF Inv, TypeOK, Quiet, KindsStay, JobOK, Pcs
<1>2. Healthy' <=> Healthy
  BY DEF KindsStay, Healthy, Without
<1>3. CallsHaveSession' /\ RefreshIssued' /\ AttemptLeft'
  BY DEF Inv, CallsHaveSession, RefreshIssued, AttemptLeft, Quiet
<1>4. StoredIsHeld'
  BY DEF Inv, StoredIsHeld, Quiet, KindsStay, Without
<1>5. NoneIsDead'
  BY <1>2 DEF Inv, NoneIsDead, StoredIsDead, Quiet
<1> QED
  BY <1>1, <1>3, <1>4, <1>5 DEF Inv

LEMMA InitInv == Init => Inv
<1> SUFFICES ASSUME Init PROVE Inv
  OBVIOUS
<1>1. TypeOK
  <2>1. faults \in [kinds : FaultMixes, left : 0..MaxFaults]
    <3>1. PICK mix \in FaultMixes : faults = [kinds |-> mix, left |-> MaxFaults]
      BY DEF Init
    <3>2. MaxFaults \in 0..MaxFaults
      BY ProtonSessionAssumption
    <3> QED
      BY <3>1, <3>2
  <2>2. issued \in Nat /\ {access, renewal, held, stored} \subseteq 0..issued
    BY DEF Init
  <2>3. attempt \in 1..MaxAttempts
    BY ProtonSessionAssumption DEF Init
  <2>4. right \in BOOLEAN /\ asks \in BOOLEAN /\ factor \in Factors /\ mode = "up"
    BY DEF Init
  <2>5. /\ pc = "idle" /\ req = "loads" /\ after = "send" /\ code = "none" /\ codes = "none"
    BY DEF Init
  <2> QED
    BY <2>1, <2>2, <2>3, <2>4, <2>5 DEF TypeOK
<1> QED
  BY <1>1 DEF Init, Inv, CallsHaveSession, RefreshIssued, AttemptLeft, StoredIsHeld, NoneIsDead, StoredIsDead

\* A new pair is issued and the client has it.
LEMMA LoggedInInv ==
    ASSUME Inv, LoggedIn, code' \in {"none", "fresh", "stale"}, UNCHANGED codes
    PROVE  Inv'
<1>1. /\ issued' = issued + 1 /\ access' = issued' /\ renewal' = issued' /\ held' = issued'
      /\ pc' = after /\ UNCHANGED <<mode, right, factor, job, after, asks>>
      /\ KindsStay /\ (stored' = issued' \/ (stored' = stored /\ "disk" \in faults.kinds))
  BY StoreKeeps DEF LoggedIn, Inv
<1>2. issued \in Nat /\ stored \in 0..issued /\ after \in {"send", "resend"}
  BY DEF Inv, TypeOK
<1>3. issued' \in Nat /\ held' # 0 /\ stored' \in 0..issued' /\ 0..issued \subseteq 0..issued'
  BY <1>1, <1>2
<1>4. TypeOK'
  BY <1>1, <1>3 DEF Inv, TypeOK, job, KindsStay
<1>5. CallsHaveSession' /\ RefreshIssued' /\ AttemptLeft'
  BY <1>1, <1>2, <1>3 DEF CallsHaveSession, RefreshIssued, AttemptLeft
<1>6. StoredIsHeld'
  BY <1>1 DEF StoredIsHeld, Without, KindsStay
<1>7. NoneIsDead'
  BY <1>1, <1>3 DEF Inv, NoneIsDead, Healthy, Without, KindsStay
<1> QED
  BY <1>4, <1>5, <1>6, <1>7 DEF Inv

\* A login that fails leaves everything but the call that is due.
LEMMA LoginFailedInv ==
    ASSUME Inv, NEW retryable, LoginFailed(retryable),
           code' \in {"none", "fresh", "stale"}, codes' \in {"none", "fresh", "stale"}
    PROVE  Inv'
<1>1. Due(held) /\ JobOK
  BY FailedDue DEF LoginFailed, Inv
<1>2. Quiet /\ KindsStay /\ mode' = mode
  BY UnchangedFaults DEF LoginFailed, Quiet, proton, Inv
<1> QED
  BY <1>1, <1>2, QuietInv DEF Due, Pcs, Inv, TypeOK

\* The session is dropped and a login begins: the session file was of no use.
LEMMA RefreshFailedInv ==
    ASSUME Inv, RefreshFailed, UNCHANGED <<mode, right, factor, access, code, codes>>, KindsStay,
           issued' \in Nat, issued' >= issued, renewal' \in 0..issued',
           Healthy => StoredIsDead /\ UNCHANGED renewal
    PROVE  Inv'
<1>1. /\ held' = 0 /\ pc' = "authinfo" /\ after' = "resend" /\ UNCHANGED <<stored, req, attempt, asks>>
  BY DEF RefreshFailed, job
<1>2. {access', renewal', held', stored'} \subseteq 0..issued'
  BY <1>1 DEF Inv, TypeOK
<1>3. TypeOK'
  BY <1>1, <1>2 DEF Inv, TypeOK, KindsStay
<1>4. CallsHaveSession' /\ RefreshIssued' /\ AttemptLeft' /\ StoredIsHeld'
  BY <1>1 DEF CallsHaveSession, RefreshIssued, AttemptLeft, StoredIsHeld
<1>5. NoneIsDead'
  BY <1>1 DEF Inv, NoneIsDead, StoredIsDead, Healthy, Without, KindsStay
<1> QED
  BY <1>3, <1>4, <1>5 DEF Inv

LEMMA TaskInv == Inv /\ Task => Inv'
<1> SUFFICES ASSUME Inv, Task PROVE Inv'
  OBVIOUS
<1>1. PICK request \in {"account", "loads"} : Begin(request, held)
  BY DEF Task
<1>2. Quiet /\ KindsStay /\ UNCHANGED <<mode, code, codes, asks>>
  BY UnchangedFaults DEF Task, Quiet, proton, Inv
<1>3. Due(held) /\ JobOK
  BY <1>1, <1>2, BeginDue DEF Inv, TypeOK, JobOK
<1> QED
  BY <1>2, <1>3, QuietInv DEF Due, Pcs, Inv, TypeOK

LEMMA PublishInv == Inv /\ Publish => Inv'
<1> SUFFICES ASSUME Inv, Publish PROVE Inv'
  OBVIOUS
<1>1. /\ pc' = "idle" /\ asks' \in BOOLEAN /\ UNCHANGED <<req, attempt, after, mode, code, codes>>
      /\ Quiet /\ KindsStay
  BY UnchangedFaults DEF Publish, Quiet, proton, Inv, job, Waiting
<1>2. JobOK
  BY <1>1 DEF JobOK, Inv, TypeOK
<1> QED
  BY <1>1, <1>2, QuietInv DEF Pcs, Inv, TypeOK

LEMMA RetryInv == Inv /\ Retry => Inv'
<1> SUFFICES ASSUME Inv, Retry PROVE Inv'
  OBVIOUS
<1>1. /\ Ensure(held) /\ UNCHANGED <<req, mode, code, codes, asks>> /\ attempt' = attempt + 1
      /\ Quiet /\ KindsStay /\ pc = "wait"
  BY UnchangedFaults DEF Retry, Quiet, proton, Inv
<1>2. pc' \in {"send", "authinfo"} /\ (pc' = "send" => held # 0) /\ after' \in {"send", "resend"}
  BY <1>1 DEF Ensure
<1>3. attempt' \in 1..MaxAttempts
  BY <1>1, ProtonSessionAssumption DEF Inv, TypeOK, AttemptLeft
<1>4. JobOK
  BY <1>1, <1>2, <1>3 DEF JobOK, Inv, TypeOK
<1> QED
  BY <1>1, <1>2, <1>4, QuietInv DEF Pcs, Inv, TypeOK

LEMMA SendInv == Inv /\ Send => Inv'
<1> SUFFICES ASSUME Inv, Send PROVE Inv'
  OBVIOUS
<1>1. Quiet /\ KindsStay /\ UNCHANGED <<mode, code, codes>>
  BY UnchangedFaults DEF Send, Quiet, proton, Inv
<1>2. \/ Due(held) /\ JobOK
      \/ pc = "send" /\ pc' = "refresh" /\ UNCHANGED <<req, attempt, after, asks>>
  BY FinishedDue, FailedDue DEF Send, Inv, job
<1>3. CASE Due(held) /\ JobOK
  BY <1>1, <1>3, QuietInv DEF Due, Pcs, Inv, TypeOK
<1>4. CASE pc = "send" /\ pc' = "refresh" /\ UNCHANGED <<req, attempt, after, asks>>
  <2>1. JobOK /\ held # 0
    BY <1>4 DEF JobOK, Inv, TypeOK, CallsHaveSession
  <2> QED
    BY <1>1, <1>4, <2>1, QuietInv DEF Pcs, Inv, TypeOK
<1> QED
  BY <1>2, <1>3, <1>4

LEMMA RefreshInv == Inv /\ Refresh => Inv'
<1> SUFFICES ASSUME Inv, Refresh PROVE Inv'
  OBVIOUS
<1>0. pc = "refresh" /\ held # 0 /\ UNCHANGED <<code, codes, faults>> /\ KindsStay
  BY UnchangedFaults DEF Refresh, Inv, CallsHaveSession
<1>1. CASE /\ mode = "up" /\ renewal = held
           /\ issued' = issued + 1 /\ access' = issued' /\ renewal' = issued'
           /\ pc' = "refreshed"
           /\ UNCHANGED <<mode, right, factor, held, stored, after, asks>> /\ UNCHANGED job
  <2>1. issued' \in Nat /\ issued' # 0 /\ {access', renewal', held', stored'} \subseteq 0..issued'
    BY <1>1 DEF Inv, TypeOK
  <2>2. TypeOK'
    BY <1>0, <1>1, <2>1 DEF Inv, TypeOK, KindsStay, job
  <2>3. CallsHaveSession' /\ RefreshIssued' /\ AttemptLeft'
    BY <1>1, <2>1 DEF CallsHaveSession, RefreshIssued, AttemptLeft
  <2>4. StoredIsHeld' /\ NoneIsDead'
    BY <1>0, <1>1 DEF Inv, StoredIsHeld, NoneIsDead, Healthy, Without
  <2> QED
    BY <2>2, <2>3, <2>4 DEF Inv
<1>2. CASE (mode # "up" \/ renewal # held) /\ RefreshFailed /\ UNCHANGED proton
  <2>1. UNCHANGED <<mode, access, renewal, issued, right, factor>>
    BY <1>2 DEF proton
  <2>2. Healthy => StoredIsDead
    BY <1>0, <1>2 DEF Inv, NoneIsDead, StoredIsHeld, StoredIsDead, Healthy, Without
  <2>3. issued' \in Nat /\ issued' >= issued /\ renewal' \in 0..issued'
    BY <2>1 DEF Inv, TypeOK
  <2> QED
    BY <1>0, <1>2, <2>1, <2>2, <2>3, RefreshFailedInv
<1> QED
  BY <1>1, <1>2 DEF Refresh

LEMMA RefreshedInv == Inv /\ Refreshed => Inv'
<1> SUFFICES ASSUME Inv, Refreshed PROVE Inv'
  OBVIOUS
<1>0. pc = "refreshed" /\ issued # 0 /\ UNCHANGED <<mode, access, renewal, issued, right, factor, code, codes>>
  BY DEF Refreshed, proton, Inv, RefreshIssued
<1>1. CASE held' = issued /\ Store(issued) /\ pc' = "resend" /\ UNCHANGED <<job, after, asks>>
  <2>1. KindsStay /\ (stored' = issued \/ (stored' = stored /\ "disk" \in faults.kinds))
    BY <1>1, StoreKeeps DEF Inv
  <2>2. {access', renewal', held', stored'} \subseteq 0..issued'
    BY <1>0, <1>1, <2>1 DEF Inv, TypeOK
  <2>3. TypeOK'
    BY <1>0, <1>1, <2>1, <2>2 DEF Inv, TypeOK, KindsStay, job
  <2>4. CallsHaveSession' /\ RefreshIssued' /\ AttemptLeft'
    BY <1>0, <1>1 DEF CallsHaveSession, RefreshIssued, AttemptLeft
  <2>5. StoredIsHeld' /\ NoneIsDead'
    BY <1>0, <1>1, <2>1 DEF Inv, StoredIsHeld, NoneIsDead, Healthy, Without, KindsStay
  <2> QED
    BY <2>3, <2>4, <2>5 DEF Inv
<1>2. CASE Fault("lost") /\ RefreshFailed
  <2>1. KindsStay /\ "lost" \in faults.kinds
    BY <1>2, FaultKeeps DEF Inv
  <2>2. ~Healthy
    BY <2>1 DEF Healthy, Without
  <2>3. issued' \in Nat /\ issued' >= issued /\ renewal' \in 0..issued'
    BY <1>0 DEF Inv, TypeOK
  <2> QED
    BY <1>0, <1>2, <2>1, <2>2, <2>3, RefreshFailedInv
<1> QED
  BY <1>1, <1>2 DEF Refreshed

LEMMA NoReplyInv ==
    ASSUME Inv, NoReply, code' \in {"none", "fresh", "stale"}, UNCHANGED codes
    PROVE  Inv'
BY LoginFailedInv DEF NoReply, Inv, TypeOK

LEMMA AuthInfoInv == Inv /\ AuthInfo => Inv'
<1> SUFFICES ASSUME Inv, AuthInfo PROVE Inv'
  OBVIOUS
<1>1. CASE NoReply
  BY <1>1, NoReplyInv DEF AuthInfo, Inv, TypeOK
<1>2. CASE ~NoReply
  <2>1. pc' = "proofs" /\ UNCHANGED <<req, attempt, after, asks, mode, code, codes>> /\ Quiet /\ KindsStay
    BY <1>2, UnchangedFaults DEF AuthInfo, Quiet, proton, job, Inv
  <2>2. JobOK
    BY <2>1 DEF JobOK, Inv, TypeOK
  <2> QED
    BY <2>1, <2>2, QuietInv DEF Pcs, Inv, TypeOK
<1> QED
  BY <1>1, <1>2

LEMMA ProofsInv == Inv /\ Proofs => Inv'
<1> SUFFICES ASSUME Inv, Proofs PROVE Inv'
  OBVIOUS
<1>0. UNCHANGED codes /\ code \in {"none", "fresh", "stale"}
  BY DEF Proofs, Inv, TypeOK
<1>1. CASE (NoReply \/ LoginFailed(FALSE)) /\ UNCHANGED code
  BY <1>0, <1>1, NoReplyInv, LoginFailedInv DEF Inv, TypeOK
<1>2. CASE LoggedIn /\ UNCHANGED code
  BY <1>0, <1>2, LoggedInInv
<1>3. CASE /\ pc' = (IF factor = "manual" THEN "code" ELSE "2fa")
           /\ code' = (IF factor = "manual" THEN "none" ELSE "fresh")
           /\ UNCHANGED proton /\ UNCHANGED job
           /\ UNCHANGED <<held, stored, after, asks, faults>>
  <2>1. pc' \in {"code", "2fa"} /\ UNCHANGED <<req, attempt, after, asks, mode>> /\ Quiet /\ KindsStay
    BY <1>3, UnchangedFaults DEF Quiet, proton, job, Inv
  <2>2. JobOK /\ code' \in {"none", "fresh", "stale"}
    BY <1>3, <2>1 DEF JobOK, Inv, TypeOK
  <2> QED
    BY <1>0, <2>1, <2>2, QuietInv DEF Pcs, Inv, TypeOK
<1> QED
  BY <1>1, <1>2, <1>3 DEF Proofs

LEMMA CodeInv == Inv /\ (TakeCode \/ CodeTimeout) => Inv'
<1> SUFFICES ASSUME Inv, TakeCode \/ CodeTimeout PROVE Inv'
  OBVIOUS
<1>1. CASE TakeCode
  <2>1. /\ pc' = "2fa" /\ UNCHANGED <<req, attempt, after, asks, mode>> /\ Quiet /\ KindsStay
        /\ code' = codes /\ codes' = "none"
    BY <1>1, UnchangedFaults DEF TakeCode, Quiet, proton, job, Inv
  <2>2. JobOK
    BY <2>1 DEF JobOK, Inv, TypeOK
  <2> QED
    BY <2>1, <2>2, QuietInv DEF Pcs, Inv, TypeOK
<1>2. CASE CodeTimeout
  <2>1. Due(held) /\ JobOK
    BY <1>2, FinishedDue DEF CodeTimeout, Inv
  <2>2. Quiet /\ KindsStay /\ UNCHANGED <<mode, code, codes>>
    BY <1>2, UnchangedFaults DEF CodeTimeout, Quiet, proton, Inv
  <2> QED
    BY <2>1, <2>2, QuietInv DEF Due, Pcs, Inv, TypeOK
<1> QED
  BY <1>1, <1>2

LEMMA SubmitCodeInv == Inv /\ SubmitCode => Inv'
<1> SUFFICES ASSUME Inv, SubmitCode PROVE Inv'
  OBVIOUS
<1>1. code' = "none" /\ UNCHANGED codes /\ (LoggedIn \/ LoginFailed(FALSE) \/ NoReply)
  BY DEF SubmitCode
<1> QED
  BY <1>1, LoggedInInv, LoginFailedInv, NoReplyInv DEF Inv, TypeOK

-----------------------------------------------------------------------------
LEMMA AsideInv == Inv /\ (Turns \/ Submit \/ CodeAges) => Inv'
<1> SUFFICES ASSUME Inv, Turns \/ Submit \/ CodeAges PROVE Inv'
  OBVIOUS
<1>1. Quiet /\ UNCHANGED <<pc, req, attempt, after, asks>>
  BY DEF Turns, Submit, CodeAges, Quiet, proton, job
<1>2. JobOK /\ pc \in Pcs
  BY <1>1 DEF JobOK, Inv, TypeOK, Pcs
<1>3. /\ code' \in {"none", "fresh", "stale"} /\ codes' \in {"none", "fresh", "stale"}
      /\ mode' \in {"up", "busy", "down"}
  BY DEF Turns, Submit, CodeAges, proton, Inv, TypeOK
<1>4. KindsStay /\ (Healthy => mode' = mode)
  <2>1. CASE Turns
    <3>1. CASE Fault("outage")
      BY <3>1, FaultKeeps DEF Inv, Healthy, Without
    <3>2. CASE mode # "up" /\ mode' = "up" /\ UNCHANGED faults
      BY <3>2, UnchangedFaults DEF Inv, NoneIsDead
    <3> QED
      BY <2>1, <3>1, <3>2 DEF Turns
  <2>2. CASE Submit \/ CodeAges
    BY <2>2, UnchangedFaults DEF Submit, CodeAges, proton, Inv
  <2> QED
    BY <2>1, <2>2
<1>5. /\ pc' \in {"send", "resend", "refresh"} => held # 0
      /\ pc' = "wait" => attempt' < MaxAttempts
  BY <1>1 DEF Inv, CallsHaveSession, AttemptLeft
<1> QED
  BY <1>1, <1>2, <1>3, <1>4, <1>5, QuietInv

\* A token that dies does not make the session file any more useful.
LEMMA AgesInv == Inv /\ Ages => Inv'
<1> SUFFICES ASSUME Inv, Ages PROVE Inv'
  OBVIOUS
<1>1. /\ access' = 0 /\ renewal' \in {0, renewal} /\ right' \in BOOLEAN /\ KindsStay
      /\ UNCHANGED <<mode, issued, factor, held, stored, pc, req, attempt, after, code, codes, asks>>
  BY FaultKeeps DEF Ages, job, Inv, TypeOK
<1>2. issued' \in Nat /\ {access', renewal', held', stored'} \subseteq 0..issued'
  BY <1>1 DEF Inv, TypeOK
<1>3. TypeOK'
  BY <1>1, <1>2 DEF Inv, TypeOK, KindsStay
<1>4. CallsHaveSession' /\ RefreshIssued' /\ AttemptLeft'
  BY <1>1 DEF Inv, CallsHaveSession, RefreshIssued, AttemptLeft
<1>5. StoredIsHeld' /\ NoneIsDead'
  BY <1>1 DEF Inv, StoredIsHeld, NoneIsDead, StoredIsDead, Healthy, Without, KindsStay
<1> QED
  BY <1>3, <1>4, <1>5 DEF Inv

LEMMA RestartInv == Inv /\ Restart => Inv'
<1> SUFFICES ASSUME Inv, Restart PROVE Inv'
  OBVIOUS
<1>1. /\ held' = stored /\ pc' = "idle" /\ code' = "none" /\ codes' = "none" /\ asks' = FALSE
      /\ UNCHANGED <<mode, access, renewal, issued, right, factor, req, attempt, stored, after>>
      /\ KindsStay
  BY FaultKeeps DEF Restart, proton, job, Inv
<1>2. TypeOK'
  BY <1>1 DEF Inv, TypeOK, KindsStay
<1>3. CallsHaveSession' /\ RefreshIssued' /\ AttemptLeft'
  BY <1>1 DEF CallsHaveSession, RefreshIssued, AttemptLeft
<1>4. StoredIsHeld' /\ NoneIsDead'
  BY <1>1 DEF Inv, StoredIsHeld, NoneIsDead, StoredIsDead, Healthy, Without, KindsStay
<1> QED
  BY <1>2, <1>3, <1>4 DEF Inv

\* The invariant holds in every behaviour.
THEOREM Invariance == Spec => []Inv
<1>1. Inv /\ [Next]_vars => Inv'
  <2>1. Inv /\ UNCHANGED vars => Inv'
    BY DEF vars, proton, Inv, TypeOK, CallsHaveSession, RefreshIssued, AttemptLeft, StoredIsHeld,
           NoneIsDead, StoredIsDead, Healthy, Without
  <2> QED
    BY <2>1, TaskInv, PublishInv, RetryInv, SendInv, RefreshInv, RefreshedInv, AuthInfoInv,
       ProofsInv, CodeInv, SubmitCodeInv, AsideInv, AgesInv, RestartInv DEF Next, Loop
<1> QED
  BY InitInv, <1>1, PTL DEF Spec

\* Every variable has its type; in particular no request is tried more often
\* than the limit (authenticatedRequest).
THEOREM TypeCorrectness == Spec => []TypeOK
<1>1. Inv => TypeOK
  BY DEF Inv
<1> QED
  BY Invariance, <1>1, PTL

\* With a disk that works, what a restart restores is what the client holds.
THEOREM SessionIsStored == Spec => []StoredIsHeld
<1>1. Inv => StoredIsHeld
  BY DEF Inv
<1> QED
  BY Invariance, <1>1, PTL

-----------------------------------------------------------------------------
\* A login begins for want of a session, or after a refresh that failed.
LEMMA LoginFollows ==
    ASSUME Inv, Next, LoginIsDue
    PROVE  held = 0 \/ (pc = "refresh" /\ (mode # "up" \/ renewal # held)) \/ Fault("lost")
<1>0. pc' = "authinfo" /\ pc # "authinfo" /\ TypeOK
  BY DEF LoginIsDue, Inv
<1>1. CASE Task
  <2>1. PICK request \in {"account", "loads"} : Begin(request, held)
    BY <1>1 DEF Task
  <2> QED
    BY <1>0, <2>1, BeginDue DEF Due
<1>2. CASE Retry
  BY <1>0, <1>2, EnsureDue DEF Retry, Due
<1>3. CASE Send
  <2>1. Due(held) \/ pc' = "refresh"
    BY <1>0, <1>3, FinishedDue, FailedDue DEF Send
  <2> QED
    BY <1>0, <2>1 DEF Due
<1>4. CASE Refresh
  BY <1>0, <1>4 DEF Refresh
<1>5. CASE Refreshed
  BY <1>0, <1>5 DEF Refreshed
<1>6. CASE LoggedIn
  BY <1>0, <1>6 DEF LoggedIn, TypeOK
<1>7. CASE \E retryable \in BOOLEAN : LoginFailed(retryable)
  BY <1>0, <1>7, FailedDue DEF LoginFailed, Due
<1>8. CASE AuthInfo
  <2>1. (\E retryable \in BOOLEAN : LoginFailed(retryable)) \/ pc' = "proofs"
    BY <1>8 DEF AuthInfo, NoReply
  <2> QED
    BY <1>0, <1>7, <2>1
<1>9. CASE Proofs
  <2>1. LoggedIn \/ (\E retryable \in BOOLEAN : LoginFailed(retryable)) \/ pc' \in {"code", "2fa"}
    BY <1>9 DEF Proofs, NoReply
  <2> QED
    BY <1>0, <1>6, <1>7, <2>1
<1>10. CASE TakeCode \/ Publish \/ Turns \/ Ages \/ Submit \/ CodeAges \/ Restart
  <2>1. pc' \in {"2fa", "idle", pc}
    BY <1>10 DEF TakeCode, Publish, Turns, Ages, Submit, CodeAges, Restart
  <2> QED
    BY <1>0, <2>1
<1>11. CASE CodeTimeout
  BY <1>0, <1>11, FinishedDue DEF CodeTimeout, Due
<1>12. CASE SubmitCode
  <2>1. LoggedIn \/ (\E retryable \in BOOLEAN : LoginFailed(retryable))
    BY <1>12 DEF SubmitCode, NoReply
  <2> QED
    BY <1>6, <1>7, <2>1
<1> QED
  BY <1>1, <1>2, <1>3, <1>4, <1>5, <1>8, <1>9, <1>10, <1>11, <1>12 DEF Next, Loop

\* With a Proton that answers and a disk that works, no login begins while the
\* refresh token of the session file is honoured, restarts and expired, revoked
\* or changed credentials included.
THEOREM PasswordIsLastResort == Spec => LoginNeedsDeadToken
<1>1. Inv /\ [Next]_vars => (Healthy /\ LoginIsDue => StoredIsDead)
  <2> SUFFICES ASSUME Inv, [Next]_vars, Healthy, LoginIsDue PROVE StoredIsDead
    OBVIOUS
  <2>1. Next
    BY DEF LoginIsDue, vars
  <2>2. CASE held = 0
    BY <2>2 DEF Inv, NoneIsDead
  <2>3. CASE pc = "refresh" /\ (mode # "up" \/ renewal # held)
    BY <2>3 DEF Inv, NoneIsDead, CallsHaveSession, StoredIsHeld, StoredIsDead, Healthy, Without
  <2>4. CASE Fault("lost")
    BY <2>4, FaultKeeps DEF Inv, Healthy, Without
  <2> QED
    BY <2>1, <2>2, <2>3, <2>4, LoginFollows
<1> HIDE DEF Inv
<1>2. Spec => [][Healthy /\ LoginIsDue => StoredIsDead]_vars
  BY Invariance, <1>1, PTL DEF Spec
<1> QED
  BY <1>2 DEF Healthy, LoginNeedsDeadToken

-----------------------------------------------------------------------------
(* How long a request can take                                              *)

\* What an attempt may still come to, in steps: a login, the request, its refresh,
\* a login in place of the refresh, and the request once more.
Phase ==
    CASE pc = "wait"      -> 0
      [] pc = "resend"    -> 1
      [] pc = "refreshed" -> 6
      [] pc = "refresh"   -> 7
      [] pc = "send"      -> 8
      [] pc = "2fa"       -> IF after = "resend" THEN 2 ELSE 9
      [] pc = "code"      -> IF after = "resend" THEN 3 ELSE 10
      [] pc = "proofs"    -> IF after = "resend" THEN 4 ELSE 11
      [] pc = "authinfo"  -> IF after = "resend" THEN 5 ELSE 12

\* The list is asked for after the account, and has all its attempts yet.
List == IF req = "account" THEN 13 * MaxAttempts ELSE 0

Later == 13 * (MaxAttempts - attempt) + List

\* A bound on the steps until the loop is idle: the rest of this attempt, the
\* attempts after it, and those of the list that follows the account.
Left ==
    CASE pc = "idle"    -> 0
      [] pc = "publish" -> 1
      [] pc \notin {"idle", "publish"} ->
            Phase + 1 + Later

\* Every step of a request brings its end nearer, in whatever state Proton is,
\* and nothing else keeps it from ending.
RequestsAreFinite ==
    [][/\ Loop => Left' < Left
       /\ pc # "idle" /\ ~Loop => Left' = Left \/ pc' = "idle"]_vars

\* The arithmetic of a step.
LEMMA Nearer ==
    ASSUME NEW before \in Nat, NEW phase \in Nat, phase < before, NEW later \in Int
    PROVE  phase + 1 + later < before + 1 + later
OBVIOUS

LEMMA Budget ==
    ASSUME NEW max \in Nat, NEW n \in Nat, 1 <= n, n <= max, NEW phase \in 0..12,
           NEW list, list = 0 \/ list = 13 * max
    PROVE  /\ phase + 1 + (13 * (max - n) + list) \in 0..(26 * max)
           /\ n < max \/ phase > 0 => phase + 1 + (13 * (max - n) + list) > 1
           /\ list = 13 * max /\ (n < max \/ phase > 0) =>
                 phase + 1 + (13 * (max - n) + list) > 13 * max + 1
           /\ n < max => phase + 1 + (13 * (max - (n + 1)) + list) < 0 + 1 + (13 * (max - n) + list)
<1>1. CASE list = 0
  BY <1>1
<1>2. CASE list = 13 * max
  BY <1>2
<1> QED
  BY <1>1, <1>2

LEMMA LeftRange ==
    ASSUME TypeOK, AttemptLeft
    PROVE  /\ MaxAttempts \in Nat /\ attempt \in Nat /\ 1 <= attempt /\ attempt <= MaxAttempts
           /\ Left \in 0..(26 * MaxAttempts) /\ Later \in Int
           /\ pc \notin {"idle", "publish"} => Phase \in 0..12 /\ Left > 1
           /\ pc \notin {"idle", "publish"} /\ req = "account" => Left > 13 * MaxAttempts + 1
           /\ pc \notin {"idle", "publish", "wait"} => Phase > 0
<1>1. /\ MaxAttempts \in Nat /\ MaxAttempts > 0
      /\ attempt \in Nat /\ 1 <= attempt /\ attempt <= MaxAttempts
  <2>1. MaxAttempts \in Nat \ {0} /\ attempt \in 1..MaxAttempts
    BY ProtonSessionAssumption DEF TypeOK
  <2> QED
    BY <2>1
<1>2. (List = 0 \/ List = 13 * MaxAttempts) /\ (req = "account" => List = 13 * MaxAttempts)
  BY DEF List
<1>3. CASE pc \in {"idle", "publish"}
  <2>1. Left \in {0, 1}
    BY <1>3 DEF Left
  <2>2. Later \in Int
    BY <1>1, <1>2 DEF Later
  <2> QED
    BY <2>1, <2>2, <1>1, <1>3
<1>4. CASE pc \notin {"idle", "publish"}
  <2>1. Left = Phase + 1 + (13 * (MaxAttempts - attempt) + List)
    BY <1>4 DEF Left, Later
  <2>2. Phase \in 0..12 /\ (pc # "wait" => Phase > 0) /\ (attempt < MaxAttempts \/ Phase > 0)
    <3>1. pc = "wait" => Phase = 0
      BY DEF Phase
    <3>2. pc \in {"resend", "refreshed", "refresh", "send"} => Phase \in 1..8
      BY DEF Phase
    <3>3. pc \in {"2fa", "code", "proofs", "authinfo"} => Phase \in 2..12
      BY DEF Phase
    <3>4. pc = "wait" => attempt < MaxAttempts
      BY DEF AttemptLeft
    <3>5. \/ pc = "wait" \/ pc \in {"resend", "refreshed", "refresh", "send"}
          \/ pc \in {"2fa", "code", "proofs", "authinfo"}
      BY <1>4 DEF TypeOK
    <3> QED
      BY <3>1, <3>2, <3>3, <3>4, <3>5
  <2>3. Later \in Int
    BY <1>1, <1>2 DEF Later
  <2>4. /\ Phase + 1 + (13 * (MaxAttempts - attempt) + List) \in 0..(26 * MaxAttempts)
        /\ Phase + 1 + (13 * (MaxAttempts - attempt) + List) > 1
        /\ List = 13 * MaxAttempts =>
               Phase + 1 + (13 * (MaxAttempts - attempt) + List) > 13 * MaxAttempts + 1
    BY <2>2, <1>1, <1>2, Budget
  <2> QED
    BY <2>1, <2>2, <2>3, <2>4, <1>1, <1>2, <1>4
<1> QED
  BY <1>3, <1>4

Calling == pc \notin {"idle", "publish"}

\* A step within an attempt.
LEMMA NearerInAttempt ==
    ASSUME TypeOK, AttemptLeft, Calling, Calling', UNCHANGED job, Phase' \in Nat, Phase' < Phase
    PROVE  Left' < Left
<1>1. Phase \in Nat /\ Later \in Int
  BY LeftRange DEF Calling
<1>2. Later' = Later
  BY DEF Later, List, job
<1>3. Left = Phase + 1 + Later /\ Left' = Phase' + 1 + Later
  BY <1>2 DEF Calling, Left
<1> QED
  BY <1>1, <1>3, Nearer

\* A request that is over leaves no more than the list that follows the account.
LEMMA NearerWhenFinished ==
    ASSUME TypeOK, AttemptLeft, Calling, NEW why, NEW session, Finished(why, session)
    PROVE  Left' < Left
<1>1. /\ MaxAttempts \in Nat /\ attempt \in Nat /\ 1 <= attempt /\ attempt <= MaxAttempts
      /\ Left > 1 /\ Left \in Int
      /\ req = "account" => Left > 13 * MaxAttempts + 1
  BY LeftRange DEF Calling
<1>2. CASE req = "account"
  <2>1. /\ req' = "logicals" /\ attempt' = 1 /\ pc' \in {"authinfo", "send"} /\ after' = "send"
    BY <1>2 DEF Finished, Begin, Ensure
  <2>2. Phase' \in {8, 12} /\ List' = 0
    BY <2>1 DEF Phase, List
  <2>3. Left' = Phase' + 1 + (13 * (MaxAttempts - 1) + 0)
    BY <2>1, <2>2 DEF Left, Later
  <2>4. Left' <= 13 * MaxAttempts /\ Left' \in Int
    <3>1. CASE Phase' = 8
      BY <3>1, <2>3, <1>1
    <3>2. CASE Phase' = 12
      BY <3>2, <2>3, <1>1
    <3> QED
      BY <3>1, <3>2, <2>2
  <2> QED
    BY <2>4, <1>1, <1>2
<1>3. CASE req # "account"
  <2>1. pc' \in {"idle", "publish"}
    BY <1>3 DEF Finished
  <2>2. Left' \in {0, 1}
    BY <2>1 DEF Left
  <2> QED
    BY <2>2, <1>1
<1> QED
  BY <1>2, <1>3

LEMMA NearerWhenFailed ==
    ASSUME TypeOK, AttemptLeft, Calling, pc # "wait",
           NEW retryable, NEW session, FailedRequest(retryable, session)
    PROVE  Left' < Left
<1>1. CASE retryable /\ attempt < MaxAttempts
  <2>1. pc' = "wait" /\ UNCHANGED job
    BY <1>1 DEF FailedRequest
  <2>2. Phase' = 0 /\ Phase > 0 /\ Calling'
    BY <2>1, LeftRange DEF Phase, Calling
  <2> QED
    BY <2>1, <2>2, NearerInAttempt
<1>2. CASE ~(retryable /\ attempt < MaxAttempts)
  BY <1>2, NearerWhenFinished DEF FailedRequest
<1> QED
  BY <1>1, <1>2

LEMMA NearerWhenDropped ==
    ASSUME TypeOK, AttemptLeft, pc \in {"refresh", "refreshed"}, RefreshFailed
    PROVE  Left' < Left
<1>1. pc' = "authinfo" /\ after' = "resend" /\ UNCHANGED job
  BY DEF RefreshFailed
<1>2. Calling /\ Calling' /\ Phase' \in Nat /\ Phase' < Phase
  BY <1>1 DEF Calling, Phase
<1> QED
  BY <1>1, <1>2, NearerInAttempt

LEMMA NearerWhenLoggedIn ==
    ASSUME TypeOK, AttemptLeft, pc \in {"proofs", "2fa"}, LoggedIn
    PROVE  Left' < Left
<1>1. pc' = after /\ after' = after /\ UNCHANGED job /\ after \in {"send", "resend"}
  BY DEF LoggedIn, TypeOK
<1>2. Calling /\ Calling' /\ Phase' \in Nat /\ Phase' < Phase
  BY <1>1 DEF Calling, Phase
<1> QED
  BY <1>1, <1>2, NearerInAttempt

\* One step after the other, in the order of a request.
LEMMA LoopNears ==
    ASSUME Inv, Loop
    PROVE  Left' < Left
<1>0. TypeOK /\ AttemptLeft
  BY DEF Inv
<1>1. CASE Retry
  <2>1. /\ pc = "wait" /\ attempt' = attempt + 1 /\ req' = req /\ after' = "send"
        /\ pc' \in {"authinfo", "send"}
    BY <1>1 DEF Retry, Ensure
  <2>2. Phase = 0 /\ Phase' \in {8, 12} /\ attempt < MaxAttempts
    BY <2>1, <1>0 DEF Phase, AttemptLeft
  <2>3. (List = 0 \/ List = 13 * MaxAttempts) /\ List' = List
    BY <2>1 DEF List
  <2>4. /\ Left = 0 + 1 + (13 * (MaxAttempts - attempt) + List)
        /\ Left' = Phase' + 1 + (13 * (MaxAttempts - (attempt + 1)) + List)
    BY <2>1, <2>2, <2>3 DEF Left, Later
  <2>5. Phase' \in 0..12
    BY <2>2
  <2> QED
    BY <2>2, <2>3, <2>4, <2>5, <1>0, LeftRange, Budget
<1>2. CASE Send
  <2>1. pc \in {"send", "resend"} /\ Calling
    BY <1>2 DEF Send, Calling
  <2>2. \/ Finished("none", held)
        \/ \E retryable \in BOOLEAN : FailedRequest(retryable, held)
        \/ pc = "send" /\ pc' = "refresh" /\ UNCHANGED job
    BY <1>2 DEF Send
  <2>3. CASE pc = "send" /\ pc' = "refresh" /\ UNCHANGED job
    BY <2>3, <1>0, NearerInAttempt DEF Calling, Phase
  <2> QED
    BY <2>1, <2>2, <2>3, <1>0, NearerWhenFinished, NearerWhenFailed
<1>3. CASE Refresh \/ Refreshed
  <2>1. /\ pc \in {"refresh", "refreshed"}
        /\ \/ RefreshFailed
           \/ pc = "refresh" /\ pc' = "refreshed" /\ UNCHANGED job
           \/ pc = "refreshed" /\ pc' = "resend" /\ UNCHANGED job
    BY <1>3 DEF Refresh, Refreshed
  <2>2. CASE \/ pc = "refresh" /\ pc' = "refreshed" /\ UNCHANGED job
             \/ pc = "refreshed" /\ pc' = "resend" /\ UNCHANGED job
    BY <2>2, <1>0, NearerInAttempt DEF Calling, Phase
  <2> QED
    BY <2>1, <2>2, <1>0, NearerWhenDropped
<1>4. CASE AuthInfo
  <2>1. /\ pc = "authinfo" /\ Calling
        /\ \/ \E retryable \in BOOLEAN : FailedRequest(retryable, held)
           \/ pc' = "proofs" /\ UNCHANGED <<job, after>>
    BY <1>4 DEF AuthInfo, NoReply, LoginFailed, Calling
  <2>2. CASE pc' = "proofs" /\ UNCHANGED <<job, after>>
    BY <2>1, <2>2, <1>0, NearerInAttempt DEF Calling, Phase
  <2> QED
    BY <2>1, <2>2, <1>0, NearerWhenFailed
<1>5. CASE Proofs
  <2>1. /\ pc = "proofs" /\ Calling
        /\ \/ \E retryable \in BOOLEAN : FailedRequest(retryable, held)
           \/ LoggedIn
           \/ pc' \in {"code", "2fa"} /\ UNCHANGED <<job, after>>
    BY <1>5 DEF Proofs, NoReply, LoginFailed, Calling
  <2>2. CASE pc' \in {"code", "2fa"} /\ UNCHANGED <<job, after>>
    BY <2>1, <2>2, <1>0, NearerInAttempt DEF Calling, Phase
  <2> QED
    BY <2>1, <2>2, <1>0, NearerWhenFailed, NearerWhenLoggedIn
<1>6. CASE TakeCode
  <2>1. pc = "code" /\ pc' = "2fa" /\ UNCHANGED <<job, after>>
    BY <1>6 DEF TakeCode, Waiting
  <2> QED
    BY <2>1, <1>0, NearerInAttempt DEF Calling, Phase
<1>7. CASE CodeTimeout
  BY <1>7, <1>0, NearerWhenFinished DEF CodeTimeout, Waiting, Calling
<1>8. CASE SubmitCode
  <2>1. /\ pc = "2fa" /\ Calling
        /\ LoggedIn \/ \E retryable \in BOOLEAN : FailedRequest(retryable, held)
    BY <1>8 DEF SubmitCode, NoReply, LoginFailed, Calling
  <2> QED
    BY <2>1, <1>0, NearerWhenFailed, NearerWhenLoggedIn
<1>9. CASE Publish
  <2>1. Left = 1 /\ Left' = 0
    BY <1>9 DEF Publish, Left
  <2> QED
    BY <2>1
<1> QED
  BY <1>1, <1>2, <1>3, <1>4, <1>5, <1>6, <1>7, <1>8, <1>9 DEF Loop

\* Outages, lost tokens, codes that come or do not: none of them makes a request
\* that is under way any longer, and the end of the program ends it.
LEMMA OthersWait ==
    ASSUME Next, ~Loop, pc # "idle"
    PROVE  Left' = Left \/ pc' = "idle"
<1>1. CASE Turns \/ Ages \/ Submit \/ CodeAges
  <2>1. UNCHANGED <<pc, req, attempt, after>>
    BY <1>1 DEF Turns, Ages, Submit, CodeAges, job
  <2> QED
    BY <2>1 DEF Left, Phase
<1>2. CASE Task \/ Restart
  BY <1>2 DEF Task, Restart
<1> QED
  BY <1>1, <1>2 DEF Next

\* Behind "every request ends": whatever Proton answers, each step of a request
\* takes it nearer to its end; what fairness adds is that the steps come.
THEOREM RequestsShrink == Spec => RequestsAreFinite
<1>1. Inv /\ [Next]_vars =>
          [/\ Loop => Left' < Left
           /\ pc # "idle" /\ ~Loop => Left' = Left \/ pc' = "idle"]_vars
  BY LoopNears, OthersWait
<1> QED
  BY Invariance, <1>1, PTL DEF Spec, RequestsAreFinite

\* The bound in figures: twenty-six steps for every attempt that is allowed, in
\* which a login of two factors, a refresh and a second login find room.
THEOREM RequestsAreShort == Spec => [](Left \in 0..(26 * MaxAttempts))
<1>1. Inv => Left \in 0..(26 * MaxAttempts)
  BY LeftRange DEF Inv
<1> QED
  BY Invariance, <1>1, PTL
====
