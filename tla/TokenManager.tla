---------------------------- MODULE TokenManager ----------------------------
(***************************************************************************)
(* The refresh of OAuth tokens in backend/internal/gateway/token_manager.go *)
(* as forwardOAuth (forward.go) drives it.  Every Request is a goroutine    *)
(* that runs Forward on a private copy of an account's credentials.  A copy *)
(* that is about to expire sends it to the account's accountRefreshState,   *)
(* found in the bounded table `locks`; under the mutex of that object it    *)
(* reuses what the object remembers, gives up inside the cooldown window,   *)
(* or calls the token endpoint up to Attempts times.  What it learned       *)
(* reaches Core only in the outcome of the request.                         *)
(*                                                                          *)
(* Core's credential store, the token endpoint and the Messages upstream    *)
(* are not part of the repository.  They are modelled from how it uses      *)
(* them: an endpoint that replaces a refresh token when it answers with a   *)
(* new one, and a Core that merges ForwardOutcome.UpdatedCredentials.       *)
(*                                                                          *)
(* Tokens are numbered per account in the order of issue; 0 is the missing  *)
(* ("") value of a credential.  The clock counts units in which Skew,       *)
(* Cooldown, IdleTTL and CleanupInterval are given.                         *)
(***************************************************************************)
EXTENDS Integers, FiniteSets

CONSTANTS
    Account,          \* accounts Core schedules
    SessionAccount,   \* those of type session_key, the others are oauth
    Request,          \* goroutines that run Forward
    StateId,          \* addresses of accountRefreshState objects
    NoState,          \* nil pointer
    NoRequest,        \* an unlocked mutex
    Skew,             \* tokenRefreshSkew
    Cooldown,         \* refreshCooldown
    Attempts,         \* maxRefreshRetries + 1
    MaxEntries,       \* tokenStateMaxEntries
    IdleTTL,          \* tokenStateIdleTTL
    CleanupInterval,  \* tokenStateCleanupInterval
    Lifetimes,        \* the expires_in values the endpoint answers with
    Faults,           \* what may go wrong around the plugin, see FaultKinds
    RequestSpan,      \* Core's deadline: how long one Forward may take
    MaxTime,          \* bound: the clock stops here
    MaxGrants         \* bound: grants the endpoint issues per account

\* lost: the reply to a granted refresh does not arrive; crash: the plugin
\* process restarts; revoke: the grants of an account are withdrawn and an
\* administrator may log in again; neterr: the Messages call fails on the wire;
\* admin: an administrator refreshes a token behind the manager's back.
FaultKinds == {"lost", "crash", "revoke", "neterr", "admin"}

ASSUME ConstantsAssumption ==
    /\ Account # {}
    /\ SessionAccount \subseteq Account
    /\ NoState \notin StateId
    /\ NoRequest \notin Request
    /\ Cooldown \in Nat \ {0}
    /\ {Skew, IdleTTL, CleanupInterval, RequestSpan, MaxTime, MaxGrants} \subseteq Nat
    /\ Attempts \in Nat \ {0}
    /\ MaxEntries \in Nat \ {0}
    /\ Lifetimes \subseteq Nat
    /\ Faults \subseteq FaultKinds

VARIABLES
    now,          \* the wall clock
    locks,        \* tokenManager.locks, NoState where the map has no entry
    lastCleanup,  \* tokenManager.lastCleanupTime
    states,       \* the accountRefreshState objects
    holder,       \* who has locked accountRefreshState.mu
    pc,           \* where a request is
    acct,         \* req.Account.ID
    creds,        \* req.Account.Credentials, the request's own copy
    updated,      \* the credentials ensureValidToken returns for Core
    st,           \* the state object getState returned
    attempt,      \* calls made by doRefresh
    reply,        \* the endpoint's answer to the call in flight
    since,        \* when Core dispatched the request
    core,         \* the credentials Core stores
    live,         \* refresh tokens the endpoint honours
    issued,       \* number of grants issued, the last access token
    grants,       \* history: <<access, refresh>> tokens issued together
    lastGrant,    \* history: newest grant this process received, and its expiry
    deniedAt      \* history: when a request last received a denial, or 0

managerVars  == <<locks, lastCleanup, states, holder>>
requestVars  == <<pc, acct, creds, updated, st, attempt, reply, since>>
endpointVars == <<live, issued, grants>>
historyVars  == <<lastGrant, deniedAt>>
vars == <<now, managerVars, requestVars, core, endpointVars, historyVars>>

-----------------------------------------------------------------------------
(* Data.                                                                    *)

Credentials == [at : Nat, rt : Nat, exp : Nat, sk : BOOLEAN]
Update      == [at : Nat, rt : Nat, exp : Nat]
NoUpdate    == [at |-> 0, rt |-> 0, exp |-> 0]

RefreshState == [at : Nat, rt : Nat, exp : Nat,
                 err : {"none", "denied", "failed"}, errAt : Nat, seenAt : Nat]

Reply   == [kind : {"none", "granted", "denied", "failed"}, at : Nat, rt : Nat, life : Nat]
Failure(kind) == [kind |-> kind, at |-> 0, rt |-> 0, life |-> 0]
NoReply == Failure("none")

\* Mutant: an update does not replace the refresh token.
MergeWithoutRefreshToken(c, u) == [c EXCEPT !.at  = IF u.at  = 0 THEN @ ELSE u.at,
                                            !.exp = IF u.exp = 0 THEN @ ELSE u.exp]

\* applyCredentialUpdate: empty values of an update leave the key alone.
Merge(c, u) == [c EXCEPT !.at  = IF u.at  = 0 THEN @ ELSE u.at,
                         !.rt  = IF u.rt  = 0 THEN @ ELSE u.rt,
                         !.exp = IF u.exp = 0 THEN @ ELSE u.exp]

\* The token outlives the refresh window that opens Skew before its expiry.
Outlives(exp) == exp - now > Skew

\* Mutant: the double-check is missing.
NeverFresh(s) == FALSE

\* freshCredentials: what a state object still has to offer.
Fresh(s) == states[s].at # 0 /\ Outlives(states[s].exp)
Remembered(s) == [at |-> states[s].at, rt |-> states[s].rt, exp |-> states[s].exp]

-----------------------------------------------------------------------------
(* Initial states: Core holds credentials an import or a login has stored.  *)

SomeAccount   == CHOOSE a \in Account : TRUE
NoCredentials == [at |-> 0, rt |-> 0, exp |-> 0, sk |-> FALSE]

StoredCredentials(a) ==
    IF a \in SessionAccount
    THEN {[at |-> 0, rt |-> 0, exp |-> 0, sk |-> given] : given \in BOOLEAN}
    ELSE {[at |-> 1, rt |-> 1, exp |-> 1, sk |-> FALSE],    \* already expired
          [at |-> 1, rt |-> 0, exp |-> 0, sk |-> FALSE],    \* a bare access token
          [at |-> 0, rt |-> 1, exp |-> 0, sk |-> FALSE]}    \* a bare refresh token

Init ==
    /\ now = 1
    /\ locks = [a \in Account |-> NoState]
    /\ lastCleanup = 1
    /\ states = [s \in StateId |->
                   [at |-> 0, rt |-> 0, exp |-> 0, err |-> "none", errAt |-> 0, seenAt |-> 0]]
    /\ holder = [s \in StateId |-> NoRequest]
    /\ pc = [r \in Request |-> "idle"]
    /\ acct = [r \in Request |-> SomeAccount]
    /\ creds = [r \in Request |-> NoCredentials]
    /\ updated = [r \in Request |-> NoUpdate]
    /\ st = [r \in Request |-> NoState]
    /\ attempt = [r \in Request |-> 0]
    /\ reply = [r \in Request |-> NoReply]
    /\ since = [r \in Request |-> 0]
    /\ core \in [Account -> UNION {StoredCredentials(a) : a \in Account}]
    /\ \A a \in Account : core[a] \in StoredCredentials(a)
    /\ live = [a \in Account |-> IF core[a].rt = 0 THEN {} ELSE {core[a].rt}]
    /\ issued = [a \in Account |-> IF a \in SessionAccount THEN 0 ELSE 1]
    /\ grants = [a \in Account |-> {<<core[a].at, core[a].rt>>}]
    /\ lastGrant = [a \in Account |-> [at |-> 0, exp |-> 0]]
    /\ deniedAt = [a \in Account |-> 0]

-----------------------------------------------------------------------------
(* ensureValidToken, up to the request for the state object.                *)

\* A session_key account without an access token has to exchange its key.
NeedsExchange(r) == acct[r] \in SessionAccount /\ creds[r].at = 0

\* Nothing to refresh with, no known expiry, or an expiry far enough away.
NeedsNoRefresh(r) ==
    ~NeedsExchange(r) /\ (creds[r].rt = 0 \/ creds[r].exp = 0 \/ Outlives(creds[r].exp))

Finish(r, verdict) == pc' = [pc EXCEPT ![r] = verdict]

\* Core hands an account with a copy of its stored credentials to Forward.
Dispatch(r) ==
    /\ pc[r] = "idle"
    /\ \E a \in Account :
         /\ acct' = [acct EXCEPT ![r] = a]
         /\ creds' = [creds EXCEPT ![r] = core[a]]
    /\ since' = [since EXCEPT ![r] = now]
    /\ Finish(r, "ensure")
    /\ UNCHANGED <<now, managerVars, updated, st, attempt, reply, core, endpointVars,
                   historyVars>>

EnsureValid(r) ==
    /\ pc[r] = "ensure"
    /\ NeedsNoRefresh(r)
    /\ Finish(r, "forward")
    /\ UNCHANGED <<now, managerVars, acct, creds, updated, st, attempt, reply,
                   since, core, endpointVars, historyVars>>

EnsureMissingKey(r) ==
    /\ pc[r] = "ensure"
    /\ NeedsExchange(r)
    /\ ~creds[r].sk
    /\ Finish(r, "dead")
    /\ UNCHANGED <<now, managerVars, acct, creds, updated, st, attempt, reply,
                   since, core, endpointVars, historyVars>>

-----------------------------------------------------------------------------
(* getState under tokenManager.mu: cleanupLocked first, then a hit, or an   *)
(* insertion that may have to make room.                                    *)

Tracked == {a \in Account : locks[a] # NoState}

CleanupDue ==
    now - lastCleanup >= CleanupInterval \/ Cardinality(Tracked) >= MaxEntries

\* The entries cleanupLocked leaves in the table.
Kept == {a \in Tracked : CleanupDue => now - states[locks[a]].seenAt <= IdleTTL}

\* Mutant: room is made one entry too late.
FullBeyondCap == Cardinality(Kept) > MaxEntries

TableFull == Cardinality(Kept) >= MaxEntries

\* The entries deleteOldestLocked may pick: map order decides between equals.
Oldest == {a \in Kept : \A b \in Kept : states[locks[a]].seenAt <= states[locks[b]].seenAt}

Critical  == {"calling", "replied", "backoff"}   \* inside state.mu
InRefresh == {"lock"} \union Critical            \* holding a state pointer

\* Memory that neither the table nor a running request refers to.
Unreferenced(s) ==
    /\ \A a \in Account : locks[a] # s
    /\ \A r \in Request : pc[r] \in InRefresh => st[r] # s

LocksWith(kept, a, s) ==
    [b \in Account |-> IF b = a THEN s ELSE IF b \in kept THEN locks[b] ELSE NoState]

NewRefreshState ==
    [at |-> 0, rt |-> 0, exp |-> 0, err |-> "none", errAt |-> 0, seenAt |-> now]

StateRequested(r) ==
    /\ pc[r] = "ensure"
    /\ ~NeedsNoRefresh(r)
    /\ NeedsExchange(r) => creds[r].sk
    /\ lastCleanup' = IF CleanupDue THEN now ELSE lastCleanup
    /\ Finish(r, "lock")
    /\ UNCHANGED <<now, holder, acct, creds, updated, attempt, reply, since,
                   core, endpointVars, historyVars>>

GetStateHit(r) ==
    LET a == acct[r] IN
    /\ a \in Kept
    /\ StateRequested(r)
    /\ locks' = LocksWith(Kept, a, locks[a])
    /\ states' = [states EXCEPT ![locks[a]].seenAt = now]
    /\ st' = [st EXCEPT ![r] = locks[a]]

GetStateMiss(r) ==
    LET a == acct[r] IN
    /\ a \notin Kept
    /\ StateRequested(r)
    /\ \E s \in StateId :
         /\ Unreferenced(s)
         /\ s = CHOOSE t \in StateId : Unreferenced(t)
         /\ states' = [states EXCEPT ![s] = NewRefreshState]
         /\ st' = [st EXCEPT ![r] = s]
         /\ IF TableFull
            THEN \E victim \in Oldest : locks' = LocksWith(Kept \ {victim}, a, s)
            ELSE locks' = LocksWith(Kept, a, s)

-----------------------------------------------------------------------------
(* doRefresh and ensureSessionKeyExchange under accountRefreshState.mu.     *)

\* Mutant: no mutex.
LocksAnyway(r) == pc[r] = "lock"

\* state.mu.Lock() has no context: a cancelled waiter keeps waiting.
Locks(r) == pc[r] = "lock" /\ holder[st[r]] = NoRequest

\* Mutant: any recorded error starts the cooldown.
CoolsDownOnAnyError(r) ==
    /\ ~NeedsExchange(r)
    /\ states[st[r]].err # "none"
    /\ now - states[st[r]].errAt < Cooldown

\* The last error forbids another attempt; a session-key exchange ignores it.
CoolingDown(r) ==
    /\ ~NeedsExchange(r)
    /\ states[st[r]].err = "denied"
    /\ now - states[st[r]].errAt < Cooldown

\* Double-check: another goroutine has refreshed.  Lock and unlock fall into
\* one step, nothing in between is visible to anybody else.
ReuseRemembered(r) ==
    LET merged == Merge(creds[r], Remembered(st[r])) IN
    /\ Locks(r)
    /\ Fresh(st[r])
    /\ creds' = [creds EXCEPT ![r] = merged]
    /\ updated' = [updated EXCEPT ![r] = IF merged = creds[r] THEN NoUpdate ELSE Remembered(st[r])]
    /\ Finish(r, "forward")
    /\ UNCHANGED <<now, managerVars, acct, st, attempt, reply, since, core,
                   endpointVars, historyVars>>

RefuseInCooldown(r) ==
    /\ Locks(r)
    /\ ~Fresh(st[r])
    /\ CoolingDown(r)
    /\ Finish(r, "dead")
    /\ UNCHANGED <<now, managerVars, acct, creds, updated, st, attempt, reply,
                   since, core, endpointVars, historyVars>>

StartCall(r) ==
    /\ Locks(r)
    /\ ~Fresh(st[r])
    /\ ~CoolingDown(r)
    /\ holder' = [holder EXCEPT ![st[r]] = r]
    /\ attempt' = [attempt EXCEPT ![r] = 1]
    /\ Finish(r, "calling")
    /\ UNCHANGED <<now, locks, lastCleanup, states, acct, creds, updated, st,
                   reply, since, core, endpointVars, historyVars>>

Unlock(r) == holder' = [holder EXCEPT ![st[r]] = NoRequest]

\* rememberToken clears the last error; both callers pass a consistent triple.
Remember(s, u) ==
    states' = [states EXCEPT ![s] = [at |-> u.at, rt |-> u.rt, exp |-> u.exp,
                                     err |-> "none", errAt |-> 0, seenAt |-> @.seenAt]]

\* Mutant: the answer's refresh token is remembered even when it is missing.
AnsweredRefreshToken(r) == reply[r].rt

\* A refresh answered without a refresh token keeps the one it was asked with.
KeptRefreshToken(r) ==
    IF reply[r].rt = 0 THEN creds[r].rt ELSE reply[r].rt

\* What both paths do with a grant: the request's own copy, the state object
\* and the credentials that go back to Core.
Adopt(r, kept) ==
    LET token  == reply[r].at
        expiry == now + reply[r].life
    IN
    /\ creds' = [creds EXCEPT ![r] = [at |-> token, rt |-> kept, exp |-> expiry, sk |-> @.sk]]
    /\ updated' = [updated EXCEPT ![r] = [at |-> token, rt |-> reply[r].rt, exp |-> expiry]]
    /\ Remember(st[r], [at |-> token, rt |-> kept, exp |-> expiry])
    /\ Unlock(r)
    /\ reply' = [reply EXCEPT ![r] = NoReply]
    /\ attempt' = [attempt EXCEPT ![r] = 0]
    /\ lastGrant' = [lastGrant EXCEPT ![acct[r]] = [at |-> token, exp |-> expiry]]
    /\ Finish(r, "forward")
    /\ UNCHANGED <<now, locks, lastCleanup, acct, st, since, core, endpointVars, deniedAt>>

Replied(r, kind) == pc[r] = "replied" /\ reply[r].kind = kind

ExchangeGranted(r) ==
    /\ Replied(r, "granted")
    /\ NeedsExchange(r)
    /\ Adopt(r, reply[r].rt)

RefreshGranted(r) ==
    /\ Replied(r, "granted")
    /\ ~NeedsExchange(r)
    /\ Adopt(r, KeptRefreshToken(r))

\* The call ended without a grant and the request fails.
GiveUp(r, verdict) ==
    /\ Unlock(r)
    /\ attempt' = [attempt EXCEPT ![r] = 0]
    /\ reply' = [reply EXCEPT ![r] = NoReply]
    /\ Finish(r, verdict)
    /\ deniedAt' = IF reply[r].kind = "denied" THEN [deniedAt EXCEPT ![acct[r]] = now]
                   ELSE deniedAt
    /\ UNCHANGED <<now, locks, lastCleanup, acct, creds, updated, st, since, core,
                   endpointVars, lastGrant>>

\* doRefresh records the error it returns.
RecordError(r, err) ==
    states' = [states EXCEPT ![st[r]].err = err, ![st[r]].errAt = now]

\* A failed exchange is neither retried nor recorded.
ExchangeFailed(r) ==
    /\ NeedsExchange(r)
    /\ \/ Replied(r, "denied") /\ GiveUp(r, "dead")
       \/ Replied(r, "failed") /\ GiveUp(r, "transient")
    /\ UNCHANGED states

RefreshDenied(r) ==
    /\ Replied(r, "denied")
    /\ ~NeedsExchange(r)
    /\ RecordError(r, "denied")
    /\ GiveUp(r, "dead")

LastAttempt(r) == attempt[r] >= Attempts

RefreshExhausted(r) ==
    /\ Replied(r, "failed")
    /\ ~NeedsExchange(r)
    /\ LastAttempt(r)
    /\ RecordError(r, "failed")
    /\ GiveUp(r, "transient")

RefreshRetried(r) ==
    /\ Replied(r, "failed")
    /\ ~NeedsExchange(r)
    /\ ~LastAttempt(r)
    /\ attempt' = [attempt EXCEPT ![r] = @ + 1]
    /\ reply' = [reply EXCEPT ![r] = NoReply]
    /\ Finish(r, "backoff")
    /\ UNCHANGED <<now, managerVars, acct, creds, updated, st, since, core, endpointVars,
                   historyVars>>

BackoffElapsed(r) ==
    /\ pc[r] = "backoff"
    /\ Finish(r, "calling")
    /\ UNCHANGED <<now, managerVars, acct, creds, updated, st, attempt, reply,
                   since, core, endpointVars, historyVars>>

\* Mutant: the cancelled goroutine leaves with the mutex locked.
CancelledStillLocked(r) ==
    /\ pc[r] = "backoff"
    /\ attempt' = [attempt EXCEPT ![r] = 0]
    /\ Finish(r, "transient")
    /\ UNCHANGED <<now, managerVars, acct, creds, updated, st, reply, since, core,
                   endpointVars, historyVars>>

\* ctx.Done() during the backoff: the error is returned but not recorded.
BackoffCancelled(r) ==
    /\ pc[r] = "backoff"
    /\ Unlock(r)
    /\ attempt' = [attempt EXCEPT ![r] = 0]
    /\ Finish(r, "transient")
    /\ UNCHANGED <<now, locks, lastCleanup, states, acct, creds, updated, st,
                   reply, since, core, endpointVars, historyVars>>

-----------------------------------------------------------------------------
(* The token endpoint (external).                                           *)

Answer(r, answer) ==
    /\ reply' = [reply EXCEPT ![r] = answer]
    /\ Finish(r, "replied")
    /\ UNCHANGED <<now, managerVars, acct, creds, updated, st, attempt, since,
                   core, historyVars>>

\* A grant consumes the refresh token it replaces.  An answer with no refresh
\* token leaves the old one valid.
Grant(r, rotates) ==
    LET a    == acct[r]
        new  == issued[a] + 1
        old  == creds[r].rt
    IN
    /\ issued' = [issued EXCEPT ![a] = new]
    /\ live' = [live EXCEPT ![a] = IF rotates THEN (@ \ {old}) \union {new} ELSE @]
    /\ grants' = [grants EXCEPT ![a] = @ \union
                    {<<new, IF rotates THEN new ELSE IF NeedsExchange(r) THEN 0 ELSE old>>}]

Honoured(r) == NeedsExchange(r) \/ creds[r].rt \in live[acct[r]]

EndpointGrants(r) ==
    /\ pc[r] = "calling"
    /\ Honoured(r)
    /\ issued[acct[r]] < MaxGrants
    /\ \E rotates \in BOOLEAN, life \in Lifetimes :
         /\ Grant(r, rotates)
         /\ \/ Answer(r, [kind |-> "granted", at |-> issued[acct[r]] + 1,
                          rt |-> IF rotates THEN issued[acct[r]] + 1 ELSE 0, life |-> life])
            \/ "lost" \in Faults /\ Answer(r, Failure("failed"))

\* invalid_grant and its like, see isNonRetryableRefreshError.
EndpointDenies(r) ==
    /\ pc[r] = "calling"
    /\ NeedsExchange(r) => "revoke" \in Faults
    /\ ~NeedsExchange(r) => ~Honoured(r)
    /\ Answer(r, Failure("denied"))
    /\ UNCHANGED endpointVars

\* 429, 5xx, a dropped connection, a timeout before anything was processed.
EndpointFails(r) ==
    /\ pc[r] = "calling"
    /\ Answer(r, Failure("failed"))
    /\ UNCHANGED endpointVars

-----------------------------------------------------------------------------
(* The rest of forwardOAuth, as far as the credentials are concerned.       *)

\* Forward returns: its frame is gone.
Return(r) ==
    /\ Finish(r, "idle")
    /\ acct' = [acct EXCEPT ![r] = SomeAccount]
    /\ creds' = [creds EXCEPT ![r] = NoCredentials]
    /\ updated' = [updated EXCEPT ![r] = NoUpdate]
    /\ st' = [st EXCEPT ![r] = NoState]
    /\ since' = [since EXCEPT ![r] = 0]
    /\ UNCHANGED <<now, managerVars, attempt, reply, endpointVars, historyVars>>

\* The error outcomes of ensureValidToken carry no credentials.
ReturnError(r) ==
    /\ pc[r] \in {"dead", "transient"}
    /\ Return(r)
    /\ UNCHANGED core

\* ensureValidToken had nothing to refresh and there is no access token.
ForwardWithoutToken(r) ==
    /\ pc[r] = "forward"
    /\ creds[r].at = 0
    /\ Finish(r, "dead")
    /\ UNCHANGED <<now, managerVars, acct, creds, updated, st, attempt, reply, since, core,
                   endpointVars, historyVars>>

\* Mutant: the outcome of an answered request carries no credentials.
CompletesWithoutCredentials(r) ==
    /\ pc[r] = "forward"
    /\ creds[r].at # 0
    /\ Return(r)
    /\ UNCHANGED core

\* The upstream answered, with success or an error status: the outcome carries
\* UpdatedCredentials and Core merges them when it gets the outcome.
ForwardCompletes(r) ==
    /\ pc[r] = "forward"
    /\ creds[r].at # 0
    /\ core' = [core EXCEPT ![acct[r]] = Merge(@, updated[r])]
    /\ Return(r)

\* The upstream request failed on the wire: transientOutcome, no credentials.
ForwardFails(r) ==
    /\ "neterr" \in Faults
    /\ pc[r] = "forward"
    /\ creds[r].at # 0
    /\ Return(r)
    /\ UNCHANGED core

-----------------------------------------------------------------------------
(* The environment.                                                         *)

Tick ==
    /\ now < MaxTime
    /\ \A r \in Request : pc[r] # "idle" => now - since[r] < RequestSpan
    /\ now' = now + 1
    /\ UNCHANGED <<managerVars, requestVars, core, endpointVars, historyVars>>

\* Every grant of the account is withdrawn upstream.
Revoke(a) ==
    /\ "revoke" \in Faults
    /\ live[a] # {}
    /\ live' = [live EXCEPT ![a] = {}]
    /\ UNCHANGED <<now, managerVars, requestVars, core, issued, grants,
                   historyVars>>

\* An administrator runs the OAuth flow again and Core stores the result.
Relogin(a) ==
    LET new == issued[a] + 1 IN
    /\ "revoke" \in Faults
    /\ a \notin SessionAccount
    /\ live[a] = {}
    /\ new <= MaxGrants
    /\ \E life \in Lifetimes :
         core' = [core EXCEPT ![a] = [at |-> new, rt |-> new, exp |-> now + life, sk |-> @.sk]]
    /\ live' = [live EXCEPT ![a] = {new}]
    /\ issued' = [issued EXCEPT ![a] = new]
    /\ grants' = [grants EXCEPT ![a] = @ \union {<<new, new>>}]
    /\ UNCHANGED <<now, managerVars, requestVars, historyVars>>

\* HandleRequest refreshes the token an administrator posts (Core's copy here),
\* without the account's mutex or state object, and returns what it got, which
\* may be stored or not.
AdminRefresh(a) ==
    LET new == issued[a] + 1
        old == core[a].rt
    IN
    /\ "admin" \in Faults
    /\ old \in live[a]
    /\ new <= MaxGrants
    /\ \E rotates \in BOOLEAN :
         LET kept == IF rotates THEN new ELSE old IN
         /\ live' = [live EXCEPT ![a] = IF rotates THEN (@ \ {old}) \union {new} ELSE @]
         /\ grants' = [grants EXCEPT ![a] = @ \union {<<new, kept>>}]
         /\ \/ UNCHANGED core
            \/ \E life \in Lifetimes :
                 core' = [core EXCEPT ![a] = [at |-> new, rt |-> kept, exp |-> now + life,
                                              sk |-> @.sk]]
    /\ issued' = [issued EXCEPT ![a] = new]
    /\ UNCHANGED <<now, managerVars, requestVars, historyVars>>

\* The plugin process dies and is started again: a new, empty tokenManager.
Crash ==
    /\ "crash" \in Faults
    /\ locks' = [a \in Account |-> NoState]
    /\ lastCleanup' = now
    /\ states' = [s \in StateId |->
                    [at |-> 0, rt |-> 0, exp |-> 0, err |-> "none", errAt |-> 0, seenAt |-> 0]]
    /\ holder' = [s \in StateId |-> NoRequest]
    /\ pc' = [r \in Request |-> "idle"]
    /\ acct' = [r \in Request |-> SomeAccount]
    /\ creds' = [r \in Request |-> NoCredentials]
    /\ updated' = [r \in Request |-> NoUpdate]
    /\ st' = [r \in Request |-> NoState]
    /\ attempt' = [r \in Request |-> 0]
    /\ since' = [r \in Request |-> 0]
    /\ reply' = [r \in Request |-> NoReply]
    /\ lastGrant' = [a \in Account |-> [at |-> 0, exp |-> 0]]
    /\ UNCHANGED <<now, core, endpointVars, deniedAt>>

-----------------------------------------------------------------------------

Acquire(r)  == ReuseRemembered(r) \/ RefuseInCooldown(r) \/ StartCall(r)
Ensure(r)   == EnsureValid(r) \/ EnsureMissingKey(r) \/ GetStateHit(r) \/ GetStateMiss(r)
Receive(r)  == ExchangeGranted(r) \/ ExchangeFailed(r) \/ RefreshGranted(r)
                 \/ RefreshDenied(r) \/ RefreshRetried(r) \/ RefreshExhausted(r)
Backoff(r)  == BackoffElapsed(r) \/ BackoffCancelled(r)
Endpoint(r) == EndpointGrants(r) \/ EndpointDenies(r) \/ EndpointFails(r)
Forward(r)  == ForwardWithoutToken(r) \/ ForwardCompletes(r) \/ ForwardFails(r) \/ ReturnError(r)

Next ==
    \/ \E r \in Request : Dispatch(r) \/ Ensure(r) \/ Acquire(r) \/ Endpoint(r)
                            \/ Receive(r) \/ Backoff(r) \/ Forward(r)
    \/ \E a \in Account : Revoke(a) \/ Relogin(a) \/ AdminRefresh(a)
    \/ Tick
    \/ Crash

Spec == Init /\ [][Next]_vars

\* The goroutines run, the endpoint and the upstream answer or their clients
\* time out; sync.Mutex hands over to the longest waiter after one
\* millisecond, so a waiter is not passed over for ever.  Nothing forces
\* Core to dispatch, time to pass or a fault to strike.
Fairness ==
    \A r \in Request :
        /\ WF_vars(Ensure(r))
        /\ SF_vars(Acquire(r))
        /\ WF_vars(Endpoint(r))
        /\ WF_vars(Receive(r))
        /\ WF_vars(Backoff(r))
        /\ WF_vars(Forward(r))

FairSpec == Spec /\ Fairness

-----------------------------------------------------------------------------
(* Properties.                                                              *)

\* A token that does not have to be refreshed yet.
OutsideWindow(exp) == exp - now > Skew

\* Every variable stays in its range.
TypeOK ==
    /\ now \in Nat
    /\ locks \in [Account -> StateId \union {NoState}]
    /\ lastCleanup \in Nat
    /\ states \in [StateId -> RefreshState]
    /\ holder \in [StateId -> Request \union {NoRequest}]
    /\ pc \in [Request -> {"idle", "ensure", "forward", "dead", "transient"} \union InRefresh]
    /\ acct \in [Request -> Account]
    /\ creds \in [Request -> Credentials]
    /\ updated \in [Request -> Update]
    /\ st \in [Request -> StateId \union {NoState}]
    /\ attempt \in [Request -> 0..Attempts]
    /\ reply \in [Request -> Reply]
    /\ since \in [Request -> Nat]
    /\ core \in [Account -> Credentials]
    /\ live \in [Account -> SUBSET Nat]
    /\ issued \in [Account -> Nat]
    /\ grants \in [Account -> SUBSET (Nat \X Nat)]
    /\ lastGrant \in [Account -> [at : Nat, exp : Nat]]
    /\ deniedAt \in [Account -> Nat]

\* The per-account mutex prevents concurrent refreshes (README, "Token
\* refresh"): no two requests are between Lock and Unlock for one account.
OneRefreshPerAccount ==
    \A r, q \in Request :
        r # q /\ pc[r] \in Critical /\ pc[q] \in Critical => acct[r] # acct[q]

\* Double-check: nobody starts a call to the token endpoint while the newest
\* grant the process has received for that account is still outside the
\* refresh window, however stale the copy of the credentials it carries.
RefreshOnlyWhenStale ==
    [][\A r \in Request :
         pc[r] = "lock" /\ pc'[r] = "calling" => ~OutsideWindow(lastGrant[acct[r]].exp)]_vars

\* Only a denial condemns: a request is told that the account is dead only
\* if its session key or access token is missing or the endpoint denied this account less
\* than a cooldown ago.  Exhausted retries, lost replies, cancellations and
\* restarts never do.
DeadOnlyIfDenied ==
    [][\A r \in Request :
         pc[r] # "dead" /\ pc'[r] = "dead" =>
            \/ creds[r].at = 0 /\ ~creds[r].sk
            \/ deniedAt'[acct[r]] # 0 /\ now - deniedAt'[acct[r]] < Cooldown]_vars

\* However many accounts come by, the state table keeps to its cap.
TableBounded == Cardinality(Tracked) <= MaxEntries

\* What a state object remembers is one grant: the access token and the
\* refresh token the endpoint considers current after issuing it, also when
\* the answer did not repeat the refresh token.
RememberedIsOneGrant ==
    \A a \in Account :
        locks[a] # NoState /\ states[locks[a]].at # 0 =>
            <<states[locks[a]].at, states[locks[a]].rt>> \in grants[a]

\* No refresh succeeds upstream unnoticed by the plugin's caller: while the
\* network works, an access token the manager has learned reaches Core, or a
\* newer one does.
LearnedTokenReachesCore ==
    \A a \in Account, n \in 1..MaxGrants :
        lastGrant[a].at = n ~> core[a].at >= n

\* Every request that entered the token manager leaves Forward.
EveryRequestReturns == \A r \in Request : pc[r] = "ensure" ~> pc[r] = "idle"

\* token_manager.go, doRefresh: a waiter must take over the complete remembered
\* credentials, "otherwise it would refresh once more with the old refresh
\* token": a call carries the refresh token of the newest grant received.
CallCarriesNewestToken ==
    [][\A r \in Request :
         pc[r] = "lock" /\ pc'[r] = "calling" /\ ~NeedsExchange(r) =>
            states[st[r]].rt \in {0, creds[r].rt}]_vars

\* As long as nothing is revoked or restarted and tokens outlive the requests
\* that carry them, sharing an account between goroutines never kills it: a
\* refresh is only denied if the answer to an earlier one got lost, so that
\* neither the process nor Core has the newest tokens.
NoSpuriousDenial ==
    \A r \in Request :
        reply[r].kind = "denied" /\ ~NeedsExchange(r) =>
            lastGrant[acct[r]].at < issued[acct[r]] /\ core[acct[r]].at < issued[acct[r]]
=============================================================================
