---------------------------- MODULE ProtonSession ----------------------------
(***************************************************************************)
(* The Proton session: authenticatedRequest and attempt, the refresh of an *)
(* expired token, the login with its two-factor step, the session file,    *)
(* and the codes an operator submits on the dashboard.  Only the run loop  *)
(* makes requests, one after the other, so there is one program counter;   *)
(* every call to Proton is a step of its own.                              *)
(*                                                                         *)
(* A session is the number of the token pair Proton issued, 0 for none.    *)
(***************************************************************************)
EXTENDS Integers

CONSTANTS
    Factors,     \* the second factors an account may have: "none", "secret"
                 \* (PROTON_TOTP_SECRET) or "manual" (a code from the dashboard)
    MaxAttempts, \* maxTransientAttempts
    FaultMixes,  \* which of "outage", "expire", "revoke", "password", "crash", "lost" and
                 \* "disk" happen together in a behaviour
    MaxFaults    \* BOUND on how many of these happen

ASSUME ProtonSessionAssumption ==
    /\ Factors # {} /\ Factors \subseteq {"none", "secret", "manual"}
    /\ MaxAttempts \in Nat \ {0} /\ MaxFaults \in Nat

VARIABLES
    mode,     \* how Proton answers: "up", "busy" (429, 5xx) or "down"
    access,   \* the session whose access token Proton honours
    renewal,  \* the session whose refresh token Proton honours
    issued,   \* the sessions Proton has issued
    right,    \* PROTON_PASSWORD is the account's password
    factor,   \* the account's second factor
    held,     \* the session the client holds
    stored,   \* the session file
    pc,       \* the call that is due, "wait" between attempts, "publish"
    req,      \* the request: "account", "logicals" or "loads"
    attempt,  \* which attempt of authenticatedRequest this is
    after,    \* what follows a login: "send", or "resend" within an attempt
    code,     \* the two-factor code in hand: "none", "fresh" or "stale"
    codes,    \* the buffered channel of ManualCodeProvider
    asks,     \* snapshot.Proton.NeedsTOTP, which makes the dashboard show its form
    faults    \* the kinds of fault that happen, and how many are left

proton == <<mode, access, renewal, issued, right, factor>>
job    == <<req, attempt>>
vars   == <<proton, held, stored, pc, req, attempt, after,
            code, codes, asks, faults>>

Fault(kind) ==
    kind \in faults.kinds /\ faults.left > 0 /\ faults' = [faults EXCEPT !.left = @ - 1]

Waiting == pc = "code"   \* ManualCodeProvider.Waiting

Init ==
    /\ mode = "up" /\ access = 0 /\ renewal = 0 /\ issued = 0 /\ right = TRUE
    /\ factor \in Factors
    /\ held = 0 /\ stored = 0
    /\ pc = "idle" /\ req = "loads" /\ attempt = 1 /\ after = "send"
    /\ code = "none" /\ codes = "none" /\ asks = FALSE
    /\ \E mix \in FaultMixes : faults = [kinds |-> mix, left |-> MaxFaults]

-----------------------------------------------------------------------------
(* Requests                                                                 *)

\* ensureSession: a session that is held is used, otherwise a login is due.
Ensure(session) == pc' = (IF session = 0 THEN "authinfo" ELSE "send") /\ after' = "send"

Begin(request, session) == req' = request /\ attempt' = 1 /\ Ensure(session)

\* refreshServerList, refreshLoads
Task ==
    /\ pc = "idle"
    /\ \E request \in {"account", "loads"} : Begin(request, held)
    /\ UNCHANGED proton
    /\ UNCHANGED <<held, stored, code, codes, asks, faults>>

\* The request is over.  refreshAccountInfo only warns of an error, and the
\* list is asked for next; a list that failed for want of a code sets the flag
\* of the dashboard before the deferred publish takes it back.
Finished(why, session) ==
    IF req = "account"
    THEN Begin("logicals", session) /\ UNCHANGED asks
    ELSE /\ pc' = (IF why = "totp" /\ req = "logicals" THEN "publish" ELSE "idle")
         /\ asks' = (why = "totp" /\ req = "logicals")
         /\ UNCHANGED job /\ UNCHANGED after

\* publish: NeedsTOTP is whether a login waits, and none does by now.
Publish ==
    /\ pc = "publish" /\ pc' = "idle" /\ asks' = Waiting
    /\ UNCHANGED proton /\ UNCHANGED job
    /\ UNCHANGED <<held, stored, after, code, codes, faults>>

\* authenticatedRequest: what may clear up is tried again, up to the limit.
FailedRequest(retryable, session) ==
    IF retryable /\ attempt < MaxAttempts
    THEN pc' = "wait" /\ UNCHANGED <<job, after, asks>>
    ELSE Finished("error", session)

Retry ==
    /\ pc = "wait" /\ attempt' = attempt + 1 /\ Ensure(held)
    /\ UNCHANGED proton
    /\ UNCHANGED <<held, stored, req, code, codes, asks, faults>>

\* persist: a session file that cannot be written is only warned of.
Store(session) ==
    \/ stored' = session /\ UNCHANGED faults
    \/ Fault("disk") /\ UNCHANGED stored

\* attempt: the request itself, a second time after a refresh or a login.
Send ==
    /\ pc \in {"send", "resend"}
    /\ \/ mode = "up" /\ access = held /\ Finished("none", held)
       \/ /\ mode = "up" /\ access # held
          /\ IF pc = "send"
             THEN pc' = "refresh" /\ UNCHANGED <<job, after, asks>>
             ELSE FailedRequest(FALSE, held)
       \/ mode = "busy" /\ FailedRequest(TRUE, held)
       \/ mode = "down" /\ FailedRequest(FALSE, held)
    /\ UNCHANGED proton
    /\ UNCHANGED <<held, stored, code, codes, faults>>

-----------------------------------------------------------------------------
(* refresh                                                                  *)

\* Whatever the reason, the session is dropped and a login follows.
RefreshFailed ==
    /\ held' = 0 /\ pc' = "authinfo" /\ after' = "resend"
    /\ UNCHANGED <<stored, job, asks>>

\* Proton answers a refresh: it honours the token once and issues a new pair.
Refresh ==
    /\ pc = "refresh"
    /\ \/ /\ mode = "up" /\ renewal = held
          /\ issued' = issued + 1 /\ access' = issued' /\ renewal' = issued'
          /\ pc' = "refreshed"
          /\ UNCHANGED <<mode, right, factor, held, stored, after, asks>> /\ UNCHANGED job
       \/ (mode # "up" \/ renewal # held) /\ RefreshFailed /\ UNCHANGED proton
    /\ UNCHANGED <<code, codes, faults>>

\* Faulty variant: the refreshed session is not persisted.
RefreshedUnstored ==
    /\ pc = "refreshed"
    /\ held' = issued /\ pc' = "resend" /\ UNCHANGED <<stored, faults, after, asks>>
    /\ UNCHANGED job
    /\ UNCHANGED proton /\ UNCHANGED <<code, codes>>

\* The answer arrives, or is lost on the way.
Refreshed ==
    /\ pc = "refreshed"
    /\ \/ held' = issued /\ Store(issued) /\ pc' = "resend" /\ UNCHANGED <<job, after, asks>>
       \/ Fault("lost") /\ RefreshFailed
    /\ UNCHANGED proton /\ UNCHANGED <<code, codes>>

-----------------------------------------------------------------------------
(* login                                                                    *)

\* A session is held and persisted.
LoggedIn ==
    /\ issued' = issued + 1 /\ access' = issued' /\ renewal' = issued' /\ held' = issued'
    /\ Store(issued') /\ pc' = after
    /\ UNCHANGED <<mode, right, factor, job, after, asks>>

LoginFailed(retryable) ==
    /\ FailedRequest(retryable, held)
    /\ UNCHANGED proton /\ UNCHANGED <<held, stored, faults>>

NoReply ==
    \/ mode = "busy" /\ LoginFailed(TRUE)
    \/ mode = "down" /\ LoginFailed(FALSE)

AuthInfo ==
    /\ pc = "authinfo"
    /\ \/ /\ mode = "up" /\ pc' = "proofs"
          /\ UNCHANGED proton /\ UNCHANGED job /\ UNCHANGED <<held, stored, after, asks, faults>>
       \/ NoReply
    /\ UNCHANGED <<code, codes>>

\* submitProofs: a wrong password is final, a second factor may be due.
Proofs ==
    /\ pc = "proofs"
    /\ \/ mode = "up" /\ ~right /\ LoginFailed(FALSE) /\ UNCHANGED code
       \/ /\ mode = "up" /\ right /\ factor # "none"
          /\ pc' = (IF factor = "manual" THEN "code" ELSE "2fa")
          /\ code' = (IF factor = "manual" THEN "none" ELSE "fresh")
          /\ UNCHANGED proton /\ UNCHANGED job
          /\ UNCHANGED <<held, stored, after, asks, faults>>
       \/ mode = "up" /\ right /\ factor = "none" /\ LoggedIn /\ UNCHANGED code
       \/ NoReply /\ UNCHANGED code
    /\ UNCHANGED codes

\* ManualCodeProvider.Code: a submitted code, or the end of the wait.
TakeCode ==
    /\ Waiting /\ codes # "none"
    /\ code' = codes /\ codes' = "none" /\ pc' = "2fa"
    /\ UNCHANGED proton /\ UNCHANGED job
    /\ UNCHANGED <<held, stored, after, asks, faults>>

\* Faulty variant: a login waits for its code without a limit.
NoTimeout == FALSE

CodeTimeout ==
    /\ Waiting /\ Finished("totp", held)
    /\ UNCHANGED proton /\ UNCHANGED <<held, stored, code, codes, faults>>

\* completeTwoFactor
SubmitCode ==
    /\ pc = "2fa" /\ code' = "none"
    /\ \/ mode = "up" /\ code = "fresh" /\ LoggedIn
       \/ mode = "up" /\ code # "fresh" /\ LoginFailed(FALSE)
       \/ NoReply
    /\ UNCHANGED <<codes>>

-----------------------------------------------------------------------------
(* Proton, the operator, and the program's end                              *)

Turns ==
    /\ \/ mode = "up" /\ mode' \in {"busy", "down"} /\ Fault("outage")
       \/ mode # "up" /\ mode' = "up" /\ UNCHANGED faults
    /\ UNCHANGED <<access, renewal, issued, right, factor, held, stored, pc, after, code, codes, asks>>
    /\ UNCHANGED job

\* Tokens expire, sessions are revoked, and with them goes a changed password.
Ages ==
    /\ \/ Fault("expire") /\ access # 0 /\ access' = 0 /\ UNCHANGED <<renewal, right>>
       \/ Fault("revoke") /\ renewal # 0 /\ access' = 0 /\ renewal' = 0 /\ UNCHANGED right
       \/ Fault("password") /\ right' = FALSE /\ access' = 0 /\ renewal' = 0
    /\ UNCHANGED <<mode, issued, factor, held, stored, pc, after, code, codes, asks>>
    /\ UNCHANGED job

\* ManualCodeProvider.Submit: refused only when a code is buffered already.
Submit ==
    /\ factor = "manual" /\ codes = "none" /\ codes' = "fresh"
    /\ UNCHANGED proton /\ UNCHANGED job
    /\ UNCHANGED <<held, stored, pc, after, code, asks, faults>>

\* A code is good for half a minute.
CodeAges ==
    /\ \/ codes = "fresh" /\ codes' = "stale" /\ UNCHANGED code
       \/ code = "fresh" /\ code' = "stale" /\ UNCHANGED codes
    /\ UNCHANGED proton /\ UNCHANGED job
    /\ UNCHANGED <<held, stored, pc, after, asks, faults>>

\* Faulty variant: New does not look at the session file.
RestartAfresh ==
    /\ Fault("crash")
    /\ held' = 0 /\ pc' = "idle" /\ code' = "none" /\ codes' = "none" /\ asks' = FALSE
    /\ UNCHANGED proton /\ UNCHANGED job /\ UNCHANGED <<stored, after>>

\* The program ends at any moment, and New restores what is on disk.
Restart ==
    /\ Fault("crash")
    /\ held' = stored /\ pc' = "idle" /\ code' = "none" /\ codes' = "none" /\ asks' = FALSE
    /\ UNCHANGED proton /\ UNCHANGED job /\ UNCHANGED <<stored, after>>

Loop ==
    \/ Retry \/ Send \/ Refresh \/ Refreshed \/ AuthInfo \/ Proofs
    \/ TakeCode \/ CodeTimeout \/ SubmitCode \/ Publish

Next == Task \/ Loop \/ Turns \/ Ages \/ Submit \/ CodeAges \/ Restart

Spec == Init /\ [][Next]_vars

\* Every call to Proton and every wait of the loop ends: the HTTP client and
\* ManualCodeProvider have their own timeouts.  Proton need not recover and
\* nobody has to submit a code.
LiveSpec == Spec /\ WF_vars(Loop)

-----------------------------------------------------------------------------
(* Correctness                                                              *)

\* Every variable has its type.
TypeOK ==
    /\ mode \in {"up", "busy", "down"}
    /\ issued \in Nat
    /\ {access, renewal, held, stored} \subseteq 0..issued
    /\ pc \in {"idle", "send", "resend", "refresh", "refreshed", "authinfo", "proofs",
               "code", "2fa", "wait", "publish"}
    /\ req \in {"account", "logicals", "loads"} /\ attempt \in 1..MaxAttempts
    /\ after \in {"send", "resend"}
    /\ code \in {"none", "fresh", "stale"} /\ codes \in {"none", "fresh", "stale"}
    /\ right \in BOOLEAN /\ factor \in Factors /\ asks \in BOOLEAN
    /\ faults \in [kinds : FaultMixes, left : 0..MaxFaults]

\* None of these faults belongs to the behaviour.
Without(kinds) == faults.kinds \cap kinds = {}

\* As long as the disk takes it, the session the client holds is the one a
\* restart restores: no refresh and no login leaves an older one behind.
StoredIsHeld == Without({"disk"}) /\ held # 0 => stored = held

LoginIsDue == pc' = "authinfo" /\ pc # "authinfo"
StoredIsDead == stored = 0 \/ renewal # stored

\* The password goes over the wire only when nothing else can help: as long as
\* Proton honours the stored refresh token, no step begins a login ("reusing the
\* refresh token avoids that entirely", FileSessionStore).  That takes a Proton
\* that answers and a disk that works.
LoginNeedsDeadToken ==
    [][Without({"outage", "lost", "disk"}) /\ LoginIsDue => StoredIsDead]_vars

\* Every request ends, whatever state Proton is in and whether or not anybody
\* submits a code (authenticatedRequest, Code).
RequestsEnd == pc # "idle" ~> pc = "idle"
=============================================================================
