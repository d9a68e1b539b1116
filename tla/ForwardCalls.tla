----------------------------- MODULE ForwardCalls -----------------------------
(***************************************************************************)
(* Requests of users on their way through Core and Forward: forwardHTTP     *)
(* and what it dispatches to in forward.go, forwardCountTokens in           *)
(* gateway.go, the outcomes of outcome.go and errors.go, the client check   *)
(* of cc_validator.go, and the account registry with the count_tokens jobs  *)
(* of sidecar.go.                                                           *)
(*                                                                          *)
(* Core is external: it picks an enabled account, judges the outcome, tries *)
(* another account while nothing has been written to the client, disables   *)
(* an account an outcome calls dead.  So is the upstream.  TokenManager and *)
(* StreamRelay are present by what they promise: ensureValidToken hands out *)
(* a token that does not expire while the request is sent, or fails; a      *)
(* stream ends as a success or aborted.                                     *)
(*                                                                          *)
(* The access tokens of an account are numbered in the order of issue and   *)
(* expire in that order; 0 is a missing one.                                *)
(***************************************************************************)
EXTENDS Integers, Sequences, FiniteSets

CONSTANTS
    Requests, Accounts, NoAccount,
    Type,         \* account.Type
    Gated,        \* accounts with the credential claude_code_only
    Bare,         \* accounts whose credentials lack a refresh token or an expiry,
    Empty,        \* or lack everything
    Pools,        \* sets of accounts Core may schedule together
    Clients,      \* the kinds of clients, each the set of the Traits its requests have
    RegistryCap,  \* accountRegistryMaxEntries
    QueueCap,     \* countTokensChanBuffer
    MaxTokens,    \* bound: access tokens issued per account
    MaxBans       \* bound: accounts the upstream closes

\* What validateClaudeCodeRequest looks at: the header X-Airgate-Internal, the
\* user agent, a startup probe, three headers, metadata.user_id, the system prompt.
Traits == {"internal", "cli", "probe", "version", "beta", "app", "user_id", "prompt"}

OAuthTypes == {"oauth", "session_key"}

ASSUME CallsAssumption ==
    /\ NoAccount \notin Accounts
    /\ Type \in [Accounts -> STRING]
    /\ Gated \subseteq Accounts /\ Empty \subseteq Bare /\ Bare \subseteq Accounts
    /\ Pools \subseteq SUBSET Accounts
    /\ Clients \subseteq SUBSET Traits
    /\ RegistryCap \in Nat \ {0} /\ {QueueCap, MaxTokens, MaxBans} \subseteq Nat

VARIABLES
    call,      \* the requests, see Call
    enabled,   \* accounts Core schedules
    stored,    \* the access token Core stores
    newest,    \* tokens issued
    expired,   \* tokens up to this one have expired
    banned,    \* accounts the upstream has closed
    forfeited, \* accounts whose refresh token was replaced by one the plugin never got
    registry,  \* accountRegistry.accounts, the least recently registered first
    jobs,      \* accounts of the count_tokens jobs in the queue
    condemned  \* history: what each account was called dead for

coreVars     == <<enabled, stored, condemned>>
upstreamVars == <<newest, expired, banned, forfeited>>
sidecarVars  == <<registry, jobs>>
vars == <<call, coreVars, upstreamVars, sidecarVars>>

Call == [pc      : {"new", "pending", "dispatched", "ensuring", "ready", "streaming", "done"},
         path    : {"messages", "count_tokens", "models"},
         stream  : BOOLEAN,
         client  : SUBSET Traits,                \* only looked at on the path messages
         on      : Accounts \union {NoAccount},  \* req.Account
         tok     : Nat,                          \* the access token of its credentials
         renewed : BOOLEAN,                      \* there are updatedCreds
         tried   : SUBSET Accounts,
         got     : {"nothing", "part", "lost", "whole"},  \* bytes written; lost: the client has left
         verdict : {"none", "success", "client_error", "aborted", "failed"},
         billed  : SUBSET Accounts]

NewCall ==
    [pc |-> "new", path |-> "messages", stream |-> FALSE, client |-> {}, on |-> NoAccount,
     tok |-> 0, renewed |-> FALSE, tried |-> {}, got |-> "nothing", verdict |-> "none",
     billed |-> {}]

Init ==
    /\ call = [r \in Requests |-> NewCall]
    /\ enabled \in Pools
    /\ newest = [a \in Accounts |-> IF a \in Empty THEN 0 ELSE 1]
    /\ stored = newest
    /\ expired = [a \in Accounts |-> 0]
    /\ banned = {} /\ forfeited = {}
    /\ registry = <<>> /\ jobs = <<>>
    /\ condemned = [a \in Accounts |-> "nothing"]

-----------------------------------------------------------------------------
(* Core (external).                                                         *)

Submit(r) ==
    /\ call[r].pc = "new"
    /\ \E path \in {"messages", "count_tokens", "models"}, stream \in BOOLEAN,
          client \in Clients \union {{}} :
         /\ IF path = "messages" THEN client \in Clients ELSE ~stream /\ client = {}
         /\ call' = [call EXCEPT ![r].pc = "pending", ![r].path = path, ![r].stream = stream,
                                 ![r].client = client]
    /\ UNCHANGED <<coreVars, upstreamVars, sidecarVars>>

Pick(r) ==
    /\ call[r].pc = "pending"
    /\ \E a \in enabled \ call[r].tried :
         call' = [call EXCEPT ![r].pc = "dispatched", ![r].on = a, ![r].tok = stored[a],
                              ![r].renewed = FALSE, ![r].tried = @ \union {a}]
    /\ UNCHANGED <<coreVars, upstreamVars, sidecarVars>>

\* The request is over; what it asked for does not matter any more.
Ended(c, verdict) == [c EXCEPT !.pc = "done", !.verdict = verdict, !.stream = FALSE, !.client = {}]

NoneLeft(r) ==
    /\ call[r].pc = "pending"
    /\ enabled \subseteq call[r].tried
    /\ call' = [call EXCEPT ![r] = Ended(@, "failed")]
    /\ UNCHANGED <<coreVars, upstreamVars, sidecarVars>>

\* An answered request ends; another one goes on while its client got nothing.
Judged(c, kind) ==
    IF kind \in {"success", "client_error", "aborted"} THEN Ended(c, kind)
    ELSE IF c.got = "nothing" THEN [c EXCEPT !.pc = "pending"]
    ELSE Ended(c, "failed")

\* Forward returns c's outcome to Core, and its copy of the account is gone.
Returns(r, c, kind) ==
    /\ call' = [call EXCEPT ![r] = [Judged(c, kind) EXCEPT !.tok = 0, !.renewed = FALSE]]
    /\ IF kind = "dead"
       THEN enabled' = enabled \ {c.on} /\ condemned' = [condemned EXCEPT ![c.on] = c.path]
       ELSE UNCHANGED <<enabled, condemned>>

\* UpdatedCredentials are part of an outcome once the upstream has answered.
ReturnsAnswered(r, c, kind) ==
    /\ Returns(r, c, kind)
    /\ stored' = IF c.renewed THEN [stored EXCEPT ![c.on] = c.tok] ELSE stored

-----------------------------------------------------------------------------
(* The account registry and the jobs.                                       *)

KnownIn(live, a) == \E i \in DOMAIN live : live[i].acct = a

\* live without the entry of a, which it has.
Without(live, a) ==
    LET i == CHOOSE i \in DOMAIN live : live[i].acct = a
    IN  SubSeq(live, 1, i - 1) \o SubSeq(live, i + 1, Len(live))

\* For a new account in a full registry the oldest entry makes room.
WithRoom(live) == IF Len(live) >= RegistryCap THEN Tail(live) ELSE live

\* What stays after the k longest idle entries have outlived their TTL.
Others(a, k) ==
    LET live == SubSeq(registry, k + 1, Len(registry))
    IN  IF KnownIn(live, a) THEN Without(live, a) ELSE WithRoom(live)

Register(a, token) ==
    \E k \in 0..Len(registry) : registry' = Append(Others(a, k), [acct |-> a, tok |-> token])

\* scheduleCountTokens drops the job when the queue is full.
Schedule(a) == jobs' = IF Len(jobs) < QueueCap THEN Append(jobs, a) ELSE jobs

-----------------------------------------------------------------------------
(* The upstream (external).                                                 *)

IsOAuth(a) == Type[a] \in OAuthTypes

\* A request for an account of another type carries no credentials at all.
Refuses(a, token) ==
    \/ a \in banned
    \/ Type[a] # "apikey" /\ (~IsOAuth(a) \/ token <= expired[a])

\* A status, and whether the text of a 400 speaks of the account.  A refused
\* token may also meet a limit or a failure; a good one is not refused.
Answers(a, token) ==
    [code : {429, 500, 529}, account : {FALSE}]
      \union (IF Refuses(a, token)
              THEN [code : {401, 403}, account : {FALSE}]
                     \union (IF a \in banned THEN [code : {400}, account : {TRUE}] ELSE {})
              ELSE [code : {200, 400, 404}, account : {FALSE}])

\* classifyHTTPFailure
FailureKind(answer) ==
    IF answer.code \in {401, 403} \/ (answer.code = 400 /\ answer.account) THEN "dead"
    ELSE IF answer.code = 429  THEN "rate_limited"
    ELSE IF answer.code >= 500 THEN "transient"
    ELSE IF answer.code >= 400 THEN "client_error"
    ELSE "success"

\* ensureValidToken has what a refresh takes.
CanRenew(a) == a \notin Bare

\* What happens to other accounts is of no consequence.
Used(a) == a \in enabled \/ \E r \in Requests : call[r].on = a

\* A request whose token was checked by ensureValidToken is sent within the
\* refresh margin: dialling, handshake and header timeouts are shorter.
Expire(a) ==
    /\ Used(a) /\ IsOAuth(a)
    /\ expired[a] < newest[a]
    /\ \A r \in Requests :
         call[r].pc = "ready" /\ call[r].on = a /\ call[r].path = "messages" /\ a \notin Bare =>
            call[r].tok # expired[a] + 1
    /\ expired' = [expired EXCEPT ![a] = @ + 1]
    /\ UNCHANGED <<call, coreVars, newest, banned, forfeited, sidecarVars>>

Ban(a) ==
    /\ Used(a) /\ a \notin banned
    /\ Cardinality(banned) < MaxBans
    /\ banned' = banned \union {a}
    /\ UNCHANGED <<call, coreVars, newest, expired, forfeited, sidecarVars>>

\* The endpoint replaces the refresh token, and the new one never gets here: the
\* reply was lost, an administrator refreshed the account aside, or the plugin
\* has forgotten what an outcome did not hand to Core.  See TokenManager.
Forfeit(a) ==
    /\ Used(a) /\ IsOAuth(a) /\ CanRenew(a)
    /\ a \notin banned \union forfeited
    /\ forfeited' = forfeited \union {a}
    /\ UNCHANGED <<call, coreVars, newest, expired, banned, sidecarVars>>

-----------------------------------------------------------------------------
(* forwardHTTP.                                                             *)

Dispatched(r, path) == call[r].pc = "dispatched" /\ call[r].path = path

\* handleModelsRequest answers on its own.
Models(r) ==
    /\ Dispatched(r, "models")
    /\ Returns(r, [call[r] EXCEPT !.got = "whole"], "success")
    /\ UNCHANGED <<stored, upstreamVars, sidecarVars>>

UnknownType(r) ==
    /\ Dispatched(r, "messages")
    /\ Type[call[r].on] \notin OAuthTypes \union {"apikey"}
    /\ Returns(r, call[r], "dead")
    /\ UNCHANGED <<stored, upstreamVars, sidecarVars>>

\* forwardAPIKey and forwardCountTokens send the credentials they are given.
Direct(r) ==
    /\ \/ Dispatched(r, "messages") /\ Type[call[r].on] = "apikey"
       \/ Dispatched(r, "count_tokens")
    /\ call' = [call EXCEPT ![r].pc = "ready"]
    /\ UNCHANGED <<coreVars, upstreamVars, sidecarVars>>

\* validateClaudeCodeRequest on /v1/messages, the only path that gets here.
Accepts(client) ==
    \/ "internal" \in client
    \/ /\ "cli" \in client
       /\ "probe" \in client \/ {"version", "beta", "app", "user_id", "prompt"} \subseteq client

\* rejectNonCCRequest: the client's fault, the account is fine.
Reject(r) ==
    /\ Dispatched(r, "messages") /\ IsOAuth(call[r].on)
    /\ call[r].on \in Gated /\ ~Accepts(call[r].client)
    /\ Returns(r, call[r], "client_error")
    /\ UNCHANGED <<stored, upstreamVars, sidecarVars>>

\* The registry gets the credentials as they are before ensureValidToken.
Enter(r) ==
    /\ Dispatched(r, "messages") /\ IsOAuth(call[r].on)
    /\ call[r].on \in Gated => Accepts(call[r].client)
    /\ Register(call[r].on, call[r].tok)
    /\ call' = [call EXCEPT ![r].pc = "ensuring"]
    /\ UNCHANGED <<coreVars, upstreamVars, jobs>>

-----------------------------------------------------------------------------
(* ensureValidToken, by what it promises.                                   *)

Ensuring(r) == call[r].pc = "ensuring"

\* Nothing to do, nothing to do it with, or another request has done it.
\* Inside the refresh margin a token that is still good may be replaced, too.
KeepToken(r) ==
    LET c == call[r] IN
    /\ Ensuring(r)
    /\ c.tok # 0
    /\ c.tok > expired[c.on] \/ ~CanRenew(c.on)
    /\ call' = [call EXCEPT ![r].pc = "ready"]
    /\ UNCHANGED <<coreVars, upstreamVars, sidecarVars>>

TakeToken(r, token) ==
    call' = [call EXCEPT ![r].pc = "ready", ![r].tok = token, ![r].renewed = TRUE]

ReuseToken(r) ==
    LET a == call[r].on IN
    /\ Ensuring(r) /\ CanRenew(a)
    /\ newest[a] > call[r].tok /\ newest[a] > expired[a]
    /\ TakeToken(r, newest[a])
    /\ UNCHANGED <<coreVars, upstreamVars, sidecarVars>>

RenewToken(r) ==
    LET a == call[r].on IN
    /\ Ensuring(r) /\ CanRenew(a)
    /\ a \notin banned \union forfeited
    /\ newest[a] < MaxTokens
    /\ newest' = [newest EXCEPT ![a] = @ + 1]
    /\ TakeToken(r, newest'[a])
    /\ UNCHANGED <<coreVars, expired, banned, forfeited, sidecarVars>>

\* A denial condemns the account, any other error does not.  There is nothing
\* to fall back on: also a token that is still good is not used then.
EnsureFails(r) ==
    /\ Ensuring(r)
    /\ \/ CanRenew(call[r].on) /\ Returns(r, call[r], "transient")
       \/ /\ CanRenew(call[r].on) /\ call[r].on \in banned \union forfeited
          /\ Returns(r, call[r], "dead")
       \/ ~CanRenew(call[r].on) /\ call[r].tok = 0 /\ Returns(r, call[r], "dead")
    /\ UNCHANGED <<stored, upstreamVars, sidecarVars>>

-----------------------------------------------------------------------------
(* The upstream request and its answer.                                     *)

\* client.Do fails: no answer, and no credentials for Core.
NetworkFails(r) ==
    /\ call[r].pc = "ready"
    /\ Returns(r, call[r], "transient")
    /\ UNCHANGED <<stored, upstreamVars, sidecarVars>>

\* Mutant: the error body is passed on to the client at once.
PassesErrorOn(c) == [c EXCEPT !.got = "part"]

\* handleErrorResponse does not touch the client's writer.
LeavesWriter(c) == c

ErrorAnswer(r) ==
    /\ call[r].pc = "ready"
    /\ \E answer \in Answers(call[r].on, call[r].tok) :
         answer.code >= 400 /\ ReturnsAnswered(r, LeavesWriter(call[r]), FailureKind(answer))
    /\ UNCHANGED <<upstreamVars, sidecarVars>>

GoodAnswer(r) ==
    call[r].pc = "ready" /\ ~Refuses(call[r].on, call[r].tok)

\* A success of forwardOAuth is followed by a count_tokens job.
Succeeds(r, c) ==
    /\ ReturnsAnswered(r, c, "success")
    /\ IF IsOAuth(c.on) /\ c.path = "messages" THEN Schedule(c.on) ELSE UNCHANGED jobs
    /\ UNCHANGED <<upstreamVars, registry>>

\* What a client that may have left got of a body written in one go.
Written == {"whole", "lost"}

\* handleNonStreamResponse and the end of forwardCountTokens, which has no usage.
WholeAnswer(r) ==
    /\ GoodAnswer(r) /\ ~call[r].stream
    /\ \E got \in Written :
         Succeeds(r, [call[r] EXCEPT !.got = got,
                        !.billed = IF call[r].path = "messages" THEN @ \union {call[r].on} ELSE @])

\* Mutant: the error of reading the body is not looked at.
ServesTornBody(r) ==
    /\ GoodAnswer(r) /\ ~call[r].stream
    /\ Succeeds(r, [call[r] EXCEPT !.got = "part", !.billed = @ \union {call[r].on}])

\* The body breaks off or is too large: nothing has been written yet.
TornBody(r) ==
    /\ GoodAnswer(r) /\ ~call[r].stream
    /\ ReturnsAnswered(r, call[r], "transient")
    /\ UNCHANGED <<upstreamVars, sidecarVars>>

\* handleStreamResponse writes the header before the first event.
StreamStarts(r) ==
    /\ GoodAnswer(r) /\ call[r].stream
    /\ call' = [call EXCEPT ![r].pc = "streaming", ![r].got = "part"]
    /\ UNCHANGED <<coreVars, upstreamVars, sidecarVars>>

StreamSucceeds(r) ==
    /\ call[r].pc = "streaming"
    /\ Succeeds(r, [call[r] EXCEPT !.got = "whole", !.billed = @ \union {call[r].on}])

\* streamAbortedOutcome: no failover, no cost, no job.
StreamAborts(r) ==
    /\ call[r].pc = "streaming"
    /\ ReturnsAnswered(r, call[r], "aborted")
    /\ UNCHANGED <<upstreamVars, sidecarVars>>

-----------------------------------------------------------------------------
(* The count_tokens worker.                                                 *)

\* Mutant: the worker hands its outcome to Core.
ReportsOutcome(a, kind) ==
    IF kind = "dead"
    THEN enabled' = enabled \ {a} /\ condemned' = [condemned EXCEPT ![a] = "messages"]
    ELSE UNCHANGED <<enabled, condemned>>

\* runCountTokens only logs how the request went.
DropsOutcome(a, kind) == UNCHANGED <<enabled, condemned>>

\* The request carries the registry's copy of the credentials.
RunJob ==
    /\ jobs # <<>>
    /\ jobs' = Tail(jobs)
    /\ LET a == Head(jobs) IN
         \/ \E i \in DOMAIN registry :
              /\ registry[i].acct = a
              /\ \E answer \in Answers(a, registry[i].tok) : DropsOutcome(a, FailureKind(answer))
         \/ /\ \A i \in DOMAIN registry : registry[i].acct # a
            /\ UNCHANGED <<enabled, condemned>>
    /\ UNCHANGED <<call, stored, upstreamVars, registry>>

-----------------------------------------------------------------------------

Core(r)   == Pick(r) \/ NoneLeft(r)
Route(r)  == Models(r) \/ UnknownType(r) \/ Direct(r) \/ Reject(r) \/ Enter(r)
Ensure(r) == KeepToken(r) \/ ReuseToken(r) \/ RenewToken(r) \/ EnsureFails(r)
Answer(r) == NetworkFails(r) \/ ErrorAnswer(r) \/ WholeAnswer(r) \/ TornBody(r)
               \/ StreamStarts(r) \/ StreamSucceeds(r) \/ StreamAborts(r)
Serve(r)  == Core(r) \/ Route(r) \/ Ensure(r) \/ Answer(r)

Next ==
    \/ \E r \in Requests : Submit(r) \/ Serve(r)
    \/ \E a \in Accounts : Expire(a) \/ Ban(a) \/ Forfeit(a)
    \/ RunJob

Spec == Init /\ [][Next]_vars

-----------------------------------------------------------------------------
(* Properties.                                                              *)

\* Types, and the caps of the registry and of the queue.
TypeOK ==
    /\ call \in [Requests -> Call]
    /\ enabled \subseteq Accounts /\ banned \subseteq Accounts /\ forfeited \subseteq Accounts
    /\ stored \in [Accounts -> Nat] /\ newest \in [Accounts -> Nat] /\ expired \in [Accounts -> Nat]
    /\ condemned \in [Accounts -> {"nothing", "messages", "count_tokens"}]
    /\ registry \in Seq([acct : Accounts, tok : Nat]) /\ Len(registry) <= RegistryCap
    /\ jobs \in Seq(Accounts) /\ Len(jobs) <= QueueCap

\* forward.go, handleErrorResponse: the writer stays unwritten so that Core can
\* fail over.  A request is only given up when every account that is enabled
\* has been tried for it.
GivesUpOnlyWhenExhausted ==
    \A r \in Requests : call[r].verdict = "failed" => enabled \subseteq call[r].tried

\* What is billed and what is answered agree over all attempts of a request:
\* an answered messages request costs its user one answer of one account, the
\* one that wrote it as a whole, and nothing else costs anything.
BilledIsServed ==
    \A r \in Requests :
        LET c == call[r] IN
        IF c.verdict = "success" /\ c.path = "messages"
        THEN c.billed = {c.on} /\ c.got \in Written
        ELSE c.billed = {}

\* An account is fit for service: its owner did not lose it, the plugin has its
\* refresh token, and its type and credentials can be used.
Fit(a) == a \notin banned \union forfeited /\ a \notin Bare /\ Type[a] \in OAuthTypes \union {"apikey"}

\* No messages request and no background request of the plugin takes an
\* account that is fit out of service, however many tokens expire on the way:
\* sidecar.go, "failures are only logged, the account stays online".
CondemnedForCause ==
    \A a \in Accounts : condemned[a] = "messages" => ~Fit(a)

\* outcome.go, accountDeadOutcome: "deterministic failure of the account
\* (credentials missing, account type broken)", on any path.
CondemnedForGood == \A a \in Accounts : condemned[a] # "nothing" => ~Fit(a)
=============================================================================
