# A TLA+ model of airgate-claude

`airgate-claude` is a plugin that a host program ("Core") runs as a process. Core hands it
requests of its users together with an *account* (type and credentials), the plugin forwards the
request to the Anthropic Messages API and returns an outcome: what was sent to the client, how
many tokens it cost, what to think of the account, and credentials Core should store. Core owns the
accounts, the users and the money; the plugin owns what happens between a dispatch and its outcome.

This directory models that part. Paths in this file are relative to `src/backend/internal/gateway/`
unless they start with `src/`; all modules are translated from the source of the commit in `src/`.

Contents: [inventory](#inventory), [how the parts interact](#interactions), [modules](#modules),
[runs](#runs), [bounds](#bounds), [fairness](#fairness), [findings](#findings), [proofs](#proofs),
[what is only model-checked](#only-model-checked), [what is not modelled](#not-modelled),
[plan](#plan).

## Inventory

| Part | Source | State it keeps | Operations | What is hard |
|---|---|---|---|---|
| Plugin shell | `gateway.go`, `runtime.go` | the parts below, made in `Init`, closed in `Stop` | `Init`, `Start`, `BeginDrain`, `Stop`, `Forward`, `HandleRequest` (admin calls) | order of the lifecycle calls; requests still running when the pools are closed |
| Token manager | `token_manager.go` | `locks`: a bounded table from account to a mutex, remembered tokens and the last error | `ensureValidToken`, `ensureSessionKeyExchange`, `doRefresh`, `getState` with cleanup and eviction; beside it the admin call `oauth/refresh` | goroutines with stale copies of one account, lost replies, retries under a mutex, cooldown, restarts, somebody who goes round the mutex |
| Forward path | `forward.go`, `errors.go`, `outcome.go`, `gateway.go` | none | dispatch by path and account type, the client check, the upstream call, classification of its failure, count_tokens and models | which failures condemn an account; who pays over several attempts; what is lost when a step after the refresh fails |
| Account registry | `sidecar.go:53-134` | bounded map of accounts seen, with a copy of their credentials | `register`, `snapshot`, eviction | copies that are older than a refresh |
| Stream relay | `stream.go` | lines, pending event, usage, idle timer, two channels | scanner goroutine, event loop, timer, abort | four parties may end a stream; goroutine leaks; counting what was not delivered |
| Usage and cost | `stream.go:220-312`, `models.go` | none | merge of usage objects, parts of a total, classes that are billed | zeros, totals and parts that come in different events |
| Sidecar runner | `sidecar.go` | context, jobs channel, two wait groups, probe slots | `start`, `beginDrain`, `stop`, `scheduleCountTokens`, `fireRefreshProbe`, two loops | send on a closed channel, stop against start, drain while requests run |
| Browser sign-in | `oauth.go`, `shared_oauth.go` | sessions by state string, in a map or in Core's runtime state | `StartOAuth`, `HandleOAuthCallback` | double submission, expiry, the cap, lost replies of Core, a cutover between two plugin processes |
| Session-key sign-in | `oauth.go:267-476`, `gateway.go:403-489` | none | exchange of a claude.ai session key, also in batches | one of several fails, a token answer is lost, cancellation in between |
| Sticky conversation ids | `session.go` | bounded TTL map, or Core's runtime state | `stickyUserID`, `conversationFingerprint`, cleanup, eviction | one conversation on several accounts; conversations that begin alike; the edge of the TTL |
| Request rewriting | `forward.go:335-490`, `sanitize.go` | none | model name, max_tokens, empty blocks, system prompt, tools, temperature, user id | the order of the steps: each may undo what one before it established |
| Client validation | `cc_validator.go` | none | `validateClaudeCodeRequest` | - |
| Connection pools | `transport_pool.go`, `client_pool.go` | bounded maps from proxy, or account and profile, to a transport | `Get`, `touch`, cleanup, eviction, `RemoveAccount`, `Close` | two-phase locking of a lookup, the empty key, the cap |
| Headers, TLS profile | `headers.go`, `tlsfingerprint.go` | none | tables, wire formatting | - |
| Metadata, models, assets | `metadata.go`, `models.go`, `assets.go` | none | static tables | - |
| Development handler, commands | `oauth_handler.go`, `src/backend/cmd` | none | HTTP and command line wrappers | - |
| Web form | `src/web/src/components` | form state | sign-in steps | - |

What makes each part correct:

- **Token manager.** One refresh of an account at a time; none while a good token is known; nobody
  presents a refresh token the process knows to be replaced; what is remembered is one grant; an account
  is condemned only after a denial; what was learned reaches Core; every request leaves; the table
  keeps to its cap.
- **Forward path and registry.** A request is only given up when every account has been tried; exactly the
  account that answered is paid, once; an account that can still serve is not taken out of service.
- **Stream relay and usage.** A success is a complete stream; counted usage was delivered, and is the
  upstream's; a success is billed in full and nothing else is; a stalled upstream ends the relay and only a
  stalled one is blamed; no goroutine outlives its request.
- **Sidecar runner.** No panic in any order of lifecycle calls and requests; a stop returns and leaves
  nothing behind; probes stay bounded; one live generation of loops; jobs stay with theirs.
- **Sign-in.** A link works, and works once. A batch of keys gets one result per key, and no token that was
  issued and arrived is missing from it.
- **Conversation ids and rewriting.** An id stays with one account and retires in time; a repeated turn keeps
  its id, different conversations do not share one; what is sent is acceptable to the upstream as far as the code
  looks at it, and says what the client said.
- **Pools.** No transport is forgotten; the cap costs the oldest entry.

## Interactions

    Core --Forward--> forward.go --ensureValidToken--> token_manager.go --> OAuth token endpoint
                         |  ^                               (per-account mutex)
                         |  '--outcome (tokens for Core, usage, kind)
                         |--register, scheduleCountTokens, fireRefreshProbe--> sidecar.go
                         |--preprocessOAuthBody--> sanitize.go, session.go
                         |--Get--> transport_pool.go, client_pool.go
                         '--response body--> stream.go --> client
    Core --Start/BeginDrain/Stop--> gateway.go --> sidecar.go, pools
    Core --HandleRequest--> gateway.go --> oauth.go (sessions, session keys), token endpoint

All calls are Go calls on the caller's goroutine. Shared state is the lock table and its state objects,
the registry, the session stores, the pools and the runner; messages are the jobs channel, the
probe slots and the two channels of a stream. Credentials travel by value: Core's copy, the request's
copy, the registry's copy and the state object's may all differ, and most hazards of the system are about
that.

How the modules follow this: `ForwardCalls` composes the forward path, the registry, the jobs and Core,
and uses the token manager and the stream relay by what they promise (a token that does not expire while the
request is sent, or an error; a success or an abort); `TokenManager` and `StreamRelay` are those two in
full. An account the endpoint refuses for what the plugin did not get to know (a lost reply that is
repeated, an administrator's refresh, finding 1 after a restart) is `forfeited` in `ForwardCalls`; how it comes to
that is in `TokenManager`. `MeteredStream` composes the relay with the usage accounting, `SignIn` the session store with the key
exchange, `Conversations` the session ids with the rewriting. That the first two of these compositions do
not disturb what they extend is a theorem.

## Modules

| Module | Models | State and actions |
|---|---|---|
| `TokenManager` | `token_manager.go` and the part of `forwardOAuth` around it | `locks`, `lastCleanup`, `states`, `holder` are `tokenManager` and its `accountRefreshState` objects (a pool of addresses `StateId`); `pc`, `acct`, `creds`, `updated`, `st`, `attempt`, `reply` are the frames of the requests' goroutines; `core`, `live`, `issued` are Core's store and the token endpoint. `EnsureValid`, `EnsureMissingKey`, `GetStateHit/Miss` are `ensureValidToken` up to the mutex; `ReuseRemembered`, `RefuseInCooldown`, `StartCall` what the holder of the mutex does first; `ExchangeGranted` ... `RefreshExhausted` the reply; `BackoffElapsed/Cancelled` the wait between attempts; `ForwardCompletes` and its neighbours the outcome; `AdminRefresh` is `oauth/refresh` of `HandleRequest` |
| `ForwardCalls` | `forwardHTTP`, `forwardCountTokens`, `handleModelsRequest`, `errors.go`, `outcome.go`, `cc_validator.go`, the registry and `runCountTokens` | a `call` is a request over all its attempts. `Pick`, `NoneLeft`, `Returns` are Core; `Models`, `UnknownType`, `Direct`, `Reject`, `Enter` the dispatch; `KeepToken` ... `EnsureFails` the promise of `ensureValidToken`; `NetworkFails`, `ErrorAnswer`, `WholeAnswer`, `TornBody`, `Stream*` the answer; `registry` and `jobs` are `sidecar.go`'s, `RunJob` its worker; `Expire`, `Ban` and `Forfeit` the upstream |
| `StreamRelay` | `handleStreamResponse` | the scanner (`scan`, `scanned`, `scanErr`), the handler (`handler`, `pending`, `written`, `observed`, `outcome`), the timer (`age`). An event is a data line and a blank line; a write succeeds or delivers part of the event |
| `UsageAccounting` | `applyAnthropicUsageNode`, `setUsageTokens`, `fillUsageCost` | operators: a usage object is a function from keys to counts, a cost the number of tokens in each class of the price table |
| `MeteredStream` | `observeSSEEvent` and `fillUsageCost` on the way of a stream | `StreamRelay` with the content of the events: `Observe` after each event written, `Charge` at the two ends that are a success |
| `SidecarRunner` | `sidecarRunner` in `sidecar.go` | a *generation* is one `start`: its context (`cancelled`), its jobs channel (`closed`, `queue`) and its loops (`poller`, `worker`). Everything under `runner.mu` is one step; `start`'s `wg.Add` after the unlock is a step of its own (`Launch`), so is each `Wait` of `stop`. `orderly` says whether Core makes one lifecycle call after the other |
| `OneTimeTickets` | abstract: what the session store promises | a ticket is none, open, redeemed or void, and is redeemed once |
| `OAuthSessions` | `sessionStore`, `StartOAuth`, `HandleOAuthCallback`, `consume` | refines `OneTimeTickets`: `TicketOf` maps where a state string is to the state of its ticket. `shared` says whether the store is the process's map or Core's runtime state |
| `SignIn` | the sign-ins of `HandleRequest` | `OAuthSessions` and the exchange of session keys: a `job` is a request for one key or a batch, its `step` the HTTP request it waits for, `results` what will be answered |
| `RequestRewriting` | `preprocessBody`, `preprocessOAuthBody`, `sanitizeBody`, `conversationFingerprint` | operators on abstract bodies, in the order in which the code applies them |
| `Conversations` | `stickyUserID`, `sessionCache`, Core's shared update | `entries`, `lastCleanup` are `sessionCache`, `store` is Core's; `Send` is one request of a turn from its arrival to what is sent on; the reply is the client's next turn |
| `TransportPool` | the three pools | `kind` says which; `Lookup`, `Touch`, `FindOther`, `Create` are the lock sections of the transport pools, `AskClient`, `GetClient` those of `clientPool` |
| `MC*` | instances for TLC | model values, symmetry, sample inputs |
| `*Proofs` | theorems | see [Proofs](#proofs) |

Common abstractions. A mutex section is one step when nothing in it blocks. Tokens, ids, state strings and
transports are numbers or model values. Clocks are integers that advance by an action, and stop at a
bound. An external party (token endpoint, Core and its stores, upstream, client, clock) is modelled from how
the code uses it; `PROJECT.json` marks those definitions external. Variables marked *history* are
read by properties only.

The credential store of Core merges the credentials of an outcome the moment the request returns;
the order of outcomes is the order in which the requests return. `RequestSpan` stands for Core's
deadline on a Forward: `Tick` waits for requests that are that old.

The definitions marked *Mutant* are plausible bugs of the definition that follows them; with one in place of
it TLC refutes the property named in `PROJECT.json`. No module uses them otherwise.

## Runs

`tlc -config <cfg> <module>` in this directory.

| Run | Module, configuration | Question |
|---|---|---|
| `token_herd` | `MCTokenManager`, `TokenManagerHerd` | Two goroutines share an OAuth account over several lifetimes, replies of the endpoint may get lost. Is a refresh denied for any other reason (`NoSpuriousDenial`), does a call carry the newest refresh token (`CallCarriesNewestToken`), does every request return (`EveryRequestReturns`), and does what was learned reach Core (`LearnedTokenReachesCore`)? |
| `token_faults` | `TokenManagerFaults` | With lost replies, restarts, revocation, network errors and an administrator who refreshes behind the manager's back: one refresh at a time (`OneRefreshPerAccount`), only of what is stale (`RefreshOnlyWhenStale`), remembered tokens of one grant (`RememberedIsOneGrant`), no account condemned without a recent denial (`DeadOnlyIfDenied`) |
| `token_eviction` | `TokenManagerEviction` | An OAuth and a session-key account and a table of one entry, from which every lookup of the one evicts the other: `TableBounded`, and `RememberedIsOneGrant` also of exchanged session keys |
| `token_dropped` | `TokenManagerDropped` | violated: `LearnedTokenReachesCore` when the Messages call fails on the wire |
| `forward` | `MCForwardCalls`, `Forwarding` | Two requests on every path, over accounts of all types, with expiring tokens, lost refresh tokens and accounts the upstream closes: `GivesUpOnlyWhenExhausted`, `BilledIsServed`, `CondemnedForCause` |
| `forward_count_tokens` | `ForwardingCountTokens` | violated: `CondemnedForGood`, by a count_tokens request with an expired token |
| `metered_stream` | `MCMeteredStream`, `MeteredStreaming` | Every way a stream may end and every order of usage objects: `SuccessIsComplete`, `CountedIsDelivered`, `IdleMeansStalled`, `ReportedIsDelivered`, `BilledIfComplete`, `StalledStreamEnds`, `ScannerLeaves` |
| `sidecar` | `MCSidecarRunner`, `Sidecar` | Two callers in any order: `NeverPanics`, `ProbesBounded`, `OneLiveGeneration`; with orderly calls a stop returns (`CallsReturn`), leaves nothing (`QuietAfterStop`), and jobs stay with their generation (`JobsStayInGeneration`) |
| `sign_in` | `MCSignIn`, `SignIn` | Browser sign-ins on the local map or shared state: `OfferIsRedeemable`, and `OneTime`, the refinement of `OneTimeTickets`. Batches of session keys: `OneResultPerKey` |
| `conversations` | `MCConversations`, `Conversing` | Two conversations at a time over two accounts, retries, failovers, expiry, eviction and restarts: `IdsStayWithAccount`, `IdsRetire`, `RepeatKeepsId`, `AnsweredApart`; and of every body that is sent `SentIsAcceptable`, `WordsArrive` |
| `pools` | `MCTransportPool`, `TransportPools` | The three pools: `NoLeakedTransport`, and `EvictsOldestProxied` |
| `pool_direct` | `TransportPoolDirect` | violated: `EvictsOldest` with an entry of the direct connection |

Each module also has one type invariant, `TypeOK`, which holds the caps or buffer sizes the code promises. Where it is
a theorem that needs no run (`TokenManager`, `ForwardCalls`, `StreamRelay`, `SidecarRunner`) the configurations do not
repeat it.
`CHECK_DEADLOCK FALSE` everywhere: Core may stop dispatching, the clocks and the numbers of
generations, lines, grants, ids and transports are bounded, and where they are used up the system stops.

## Bounds

- **Token runs.** Two requests: one holds the mutex, the other waits with a copy that goes stale; three grants
  of lifetime 4, so that a refresh follows a refresh. `token_faults` has two attempts per refresh and two
  grants; lifetime 0 is an answer without `expires_in`. In `token_eviction` every lookup of the other account
  evicts; three addresses are one in the table and one in each request's hand; of two grants the second may leave
  out what the first had.
  `Skew = 1` is the three-minute refresh window, `RequestSpan` the longest Forward.
  `LearnedTokenReachesCore` and `NoSpuriousDenial` need lifetimes above `Skew + 2 * RequestSpan`: a request
  that reuses a remembered token and returns after the next refresh has been stored would otherwise put the
  older credentials back into Core. The code has no version check against it; token lifetimes of hours
  against requests of minutes keep it away. `RefreshOnlyWhenStale` needs `IdleTTL` to be at least a lifetime
  plus `RequestSpan`, less `Skew`, or the state object, and with it the memory of the grant, is cleaned up
  first. The code's values are 24 h for the first and minutes to hours for the others.
- **`forward`.** Two requests, since accounts, tokens, registry and queue are what they share. Pools of an API
  key and an OAuth account for Claude Code only, of OAuth accounts that cannot be renewed, of an account without any
  credentials, and of the type `setup_token`. Two tokens per account: one expires, its successor may expire,
  too. Registry and queue of one entry, so that both overflow. One account may be closed, and the one account that can be renewed may
  lose its refresh token.
- **`metered_stream`.** Two events and an unfinished third, a timeout of two ticks so that reset and expiry
  differ, a window of one line so that the scanner offers the next while the handler is writing. Usage objects
  with a total, with parts, with both, with zeros and with the old name; counts only grow, as the upstream's do.
- **`sidecar`.** Two generations: the second meets whatever the first could leave behind; two calls of each kind may
  overlap. Two probe slots, a buffer of one, at most one account per round.
- **`sign_in`.** Three sessions for two entries, two goroutines (or the goroutines of two processes), expiry after
  one tick. Batches of one and two keys: what becomes of a key depends on its neighbour only.
- **`conversations`.** Three pairs of conversations: two that begin with the same words, two with the same
  instructions, an empty one beside a genuine CLI; and one with a system prompt that is neither missing nor a string
  nor Claude Code's; up to two turns. A cache of two entries, four ids, four
  requests: enough for an id to be lost, reborn and asked for again. A restart. TTL 2 of 3 ticks, so that an
  id expires and its successor lives. The bodies combine what the steps of the rewriting react to, pairwise.
- **`pools`.** Four keys, one of them empty, for two entries; two goroutines between the two locks; four
  transports, so that every key is remade.

## Fairness

- `TokenManager!Fairness`: weak fairness on the goroutines' steps, on the endpoint's answer (its
  client has a timeout) and on the end of a Forward; strong fairness on taking the mutex, because
  `sync.Mutex` goes into starvation mode after one millisecond and hands over to the longest waiter.
  Nothing on Core's dispatches, the clock, revocations, lost replies or restarts.
- `SidecarRunner!Fairness`: weak fairness on the goroutines (requests have timeouts), strong fairness
  on the two returns, because Go's `select` chooses among ready cases at random and a done context stays ready.
- `MeteredStream!MeteredFairSpec`: weak fairness on both goroutines and on time. The upstream and the client's
  context owe nothing: `StalledStreamEnds` holds for an upstream that never sends again.

`ForwardCalls`, `SignIn`, `Conversations` and `TransportPool` state safety only: none of their operations
waits for another actor of the plugin (the token manager's mutex is in `TokenManager`).

## Findings

Runs that end in a violation, each with the sentence of the repository it contradicts in
`PROJECT.json`.

1. `token_dropped`: when `client.Do` fails after a successful refresh, `forwardOAuth` returns
   `transientOutcome` without `UpdatedCredentials` (`forward.go:236-247`, likewise 206-221). Core keeps
   a refresh token the endpoint has replaced. A later request may repair it while the process
   remembers the grant.
2. `forward_count_tokens`: `forwardCountTokens` sends the token it is given (`gateway.go:601-626`). Once it has
   expired, the answer 401 makes the outcome `AccountDead`, and Core takes an account out of service
   that the next messages request would have refreshed.
3. `pool_direct`: `deleteOldestLocked` uses `""` for "no entry chosen yet", which is the key of direct
   connections (`transport_pool.go:120-133`, the same in `client_pool.go`). Eviction at the cap may take
   an entry that is not the oldest.

More disagreements between the code and what its documents, comments or names suggest came up while modelling
and have no run of their own. Where the model has them, this is how to see them:

- `doRefresh` presents the refresh token of the request's own copy (`token_manager.go:322`) although
  the state object remembers a newer one, when the remembered access token has itself entered the refresh window.
  It needs finding 1, or a request that lasts a whole lifetime, to come about: `TokenManagerDropped.cfg` with
  `CallCarriesNewestToken`.
- `src/README.md:101` says that a mutex per account prevents concurrent refreshes. At the cap of the
  table a state object is evicted while its mutex is held, and the account gets a second one:
  `TokenManagerFaults.cfg` with `Account = {o1, s1}`, `MaxEntries = 1`, `StateId = {1, 2, 3}` and only
  `OneRefreshPerAccount` to check. The theorem `OneRefresh` has the assumption that excludes it.
- `src/README.md:105` says that a failed refresh does not block the request. `forwardOAuth` answers
  every error of `ensureValidToken` with an outcome of its own (`forward.go:182-193`, `EnsureFails`).
- `src/README.md:18`, 42 and 84 list the account type `setup_token`. `forwardHTTP` does not know it
  (`forward.go:53-60`) and reports the account dead (`UnknownType`).
- `cc_validator.go:65` and 75 speak of all paths; count_tokens requests do not pass the check (`Direct`).
  The pattern in `cc_validator.go:35` rejects the JSON form of `metadata.user_id` that `forward.go:406` says
  the CLI sends since 2.1.78 (the second client of `MCForwardCalls`).
- `start` counts its goroutines after it has released the lock (`sidecar.go:182-184`): a `stop` of
  another caller in between waits for nothing. To see it, drop `orderly` from `QuietAfterStop`.
- The idle timer of a stream is reset when a line is taken and runs on while a write blocks on a slow
  client (`stream.go:89-102`): the upstream is then blamed for a pause it did not make.
  `IdleMeansStalled` is stated for clients that are not `slow`; drop `~slow` to see it.
- A stream that ends regularly counts as a success also after an `error` event or without `message_stop`.
- A first-seen `cached_tokens` is only looked at while `cache_read_input_tokens` is zero: its growth after that is
  not followed (`OldNameAtStart` excludes it from the theorems). The reported total of cache creation may lag behind its parts; the cost does not
  (`Due` in `MeteredStream`).
- A client that has left before a non-stream answer is written pays for it (`lost` in `Written`).
- A 400 whose text contains a word such as "disabled" (`errors.go:26`) condemns the account; such a text may quote
  the user's own request. The model's upstream uses these words for accounts only.
- The comments at `forward.go:352-361` say that the upstream looks at the system prompt and treats what is not Claude
  Code's as traffic of a third party. `preprocessOAuthBody` replaces a prompt that is missing or a string only
  (`forward.go:363-364`): an array that does not name Claude Code, or `null`, is sent with the OAuth token as it
  came (`OtherList`). `SentIsAcceptable` names it as an exception; drop that disjunct to see it.
- `session.go:21-23` and 70-71 speak of an id per conversation. The fingerprint takes in the last message but
  one, so that the id changes with every turn; retries of a turn keep it (`RepeatKeepsId`).
- Where an account's credentials have no `account_uuid`, every request gets a new one beside its session id
  (`forward.go:408-411`): `metadata.user_id` as a whole then changes with every request, although
  `session.go:21-23` wants it kept. The model's `user_id` is the session part.
- First turns of conversations with the same custom system prompt, and conversations whose replies are
  dropped by the sanitising, may share an id. `AnsweredApart` is stated for replies that arrive.
- When Core's `Update` fails, an empty session id is sent (`session.go:101-110`, `Blank`); ids in Core's store have
  no expiry (`IdsRetire` is stated for the cache).
- Thinking in front of text is always stripped (`sanitize.go`); a short model name is not replaced when the
  JSON has a blank after the colon (`forward.go:472-488`, `short_spaced`, the other exception of `SentIsAcceptable`).
- A token answer with status 200 and no access token counts as a success of the sign-in, also in a batch
  (`HollowAnswer`); a proxy makes every key of a batch fail (`ProxyRefused`).

## Proofs

`tlapm <module>Proofs.tla`. All theorems hold for every value of the constants that satisfies the
`ASSUME` of the module; further assumptions are named. Every safety property of a passing run is stated by one.

**`TokenManagerProofs`**

- `TypeCorrect`: `Spec => []TypeOK`. The inductive invariant adds `HoldsPointer` (who is past
  `getState` holds a pointer to a state object): without it no access through `st` is well typed.
- `OneRefresh`: `OneRefreshPerAccount`, under `RoomForAll` (finitely many accounts, no more than
  `MaxEntries`, and `RequestSpan <= IdleTTL`). The mutex protects an object, the property speaks of an account.
  `MutexInv` says that the requests in the critical section hold the mutex they are at; `SpanInv` that
  no Forward is older than `RequestSpan`; `CurrentInv` that the object a request holds is still the one
  in the table, which needs both parts of `RoomForAll`: no eviction, and no cleanup of an object in use.
  Two requests of one account then hold the same object.
- `CondemnsOnlyIfDenied`: `DeadOnlyIfDenied`, for any faults. `DenialInv` ties an error remembered by a
  state object to a denial in the history; `OwnInv` says that an object in use belongs to the account of
  its user, also after eviction and reuse of the address.
- `TableKeepsToCap`: `TableBounded`. A lookup that makes room removes one entry before it adds one.
- `RemembersOneGrant`: `RememberedIsOneGrant`, for any faults. `AnswerInv` says that a reply that waits to be
  adopted names, with what will be kept of it, a pair the endpoint issued; `OwnInv` that adopting it changes no
  other account's entry.
- `RefreshesWhenStale`: `RefreshOnlyWhenStale`, for any faults, under `RoomForAll` and `LongMemory`: a lifetime
  plus `RequestSpan` is at most `IdleTTL + Skew + 1`, that is, a state object is not forgotten before the token in it has to be
  replaced (24 h in the code). `FreshInv`: a grant that may still be used is in the state object of its account,
  looked up late enough to be kept until its window opens. A restart ends every grant of the history, since it clears the table.
- `SharingIsHarmless` (`NoSpuriousDenial`) and `CallsWithNewest` (`CallCarriesNewestToken`), for any number of
  requests, accounts and lifetimes, under `RoomForAll` and `Gentle`: nothing but replies gets lost, lifetimes exceed
  `Skew + 2 * RequestSpan`, and `IdleTTL` covers two requests. Three copies of the credentials are about: Core's,
  the state object's and those of the requests. `NewestInv` relates each to the newest grant that arrived: by the time a copy
  that missed it may reach the endpoint, everybody who could hold one has returned (`Over`). So one of the two,
  memory or Core, has the grant whenever it is needed; `FlightInv` is about the answers that have not arrived.
  [Bounds](#bounds) and [Findings](#findings) say how older credentials get back into Core with shorter lifetimes or a
  failing upstream call.

**`ForwardCallsProofs`** — the invariant is `Inv == TypesOK /\ SidecarOK /\ CallsOK /\ CondemnedForCause`.
`CallsOK` says of a request that is under way that nothing was written (unless it is streaming) and nothing
billed, and of one on the messages path that its token cannot be refused while it is `ready`, unless its
account is not fit; of one that is over that its verdict, what the client got and who is paid agree.

- `CallTypes` (`TypeOK`, with the caps of registry and queue), `FailsOverToTheLast`
  (`GivesUpOnlyWhenExhausted`), `PaysForTheAnswer` (`BilledIsServed`), `FitAccountsStay`
  (`CondemnedForCause`; an account whose refresh token is lost counts as not fit, since only a new sign-in helps).

**`MeteredStreamProofs`**

- `RelayTypes` (`TypeOK`), `SuccessesAreComplete`, `CountsAreDelivered`: `LinesInv` relates what was sent,
  scanned, taken and written, `EndInv` what the handler may conclude when a channel is closed.
- `OnlyStalledIsBlamed` (`IdleMeansStalled`): `SilenceInv`, with a client that is not slow the timer
  is never older than the upstream's silence.
- `MeteringIsPassive`: `MeteredSpec => Spec`, so that the theorems hold of the composition the run checks.
- `CountsOfEvents` (`ReportedIsDelivered`), `CompleteIsBilled` (`BilledIfComplete`), for any number of events and any
  set of usage objects: `MeterInv` says what the merge has made of the first `observed` events, in terms of the
  highest count each key has had so far; `ReportsInv` that these are the last ones, counts being cumulative. One
  hypothesis, `OldNameAtStart`: a `message_delta` with `cached_tokens` has `cache_read_input_tokens`, too. The code does not
  follow a `cached_tokens` that grows (see [Findings](#findings)), and without the hypothesis the properties fail.

**`SidecarRunnerProofs`**

- `NoPanic` (`NeverPanics`) and `OneGeneration` (`OneLiveGeneration`), for any callers in any order. The
  invariant: while the runner is not stopped its newest channel is open and its context is live; every older generation
  is cancelled and closed; a generation that has not been launched has no loops.
- `RunnerTypes` (`TypeOK`), `FewProbes` (`ProbesBounded`): taken slots and probes are equal in number, also
  across restarts.
- `StopLeavesNothing` (`QuietAfterStop`); the property itself is about orderly calls.
- `OwnJobs` (`JobsStayInGeneration`). A worker reads the field `runner.jobs` without the lock. `GenerationInv`: with
  orderly calls a worker that is running belongs to the newest start, so that the channel it reads is its own.

**`OAuthSessionsProofs`** and **`SignInProofs`**

- `SessionTypes` (`TypeOK`, with the cap of the local map).
  The age of a session is checked by the callback itself right before the exchange (`InTime`), which nothing can come
  between: that no old one is exchanged is this guard, and not stated as a property.
- `OneTimeUse`: `Spec => OneTime`, that is, the store implements `OneTimeTickets`. `OwnerInv` says that a
  state string is at one place at a time: with the goroutine that files it, in the store, with the
  one callback that consumed it, or spent. Every action then moves one ticket, voids some, or stutters.
- `OffersHold` (`OfferIsRedeemable`): `OfferInv` counts the sessions that are as young as an evicted one.
- `KeysDoNotDisturb`: `SignInSpec => Spec`, so that these hold of the composition the run checks.
- `BatchesAreAnswered` (`OneResultPerKey`): `JobsOK`, the results noted so far are those of the keys before
  the one whose turn it is.

**`ConversationsProofs`**

- `OneAccountPerId` (`IdsStayWithAccount`), `IdsRetireInTime` (`IdsRetire`). `IdsInv`: what is kept under a key
  was born for the account the key names, as long ago as its expiry says; what was sent was apt for its request.
- `RepeatedTurnsKeepTheirId` (`RepeatKeepsId`). `RepeatInv` ties a request to its key: store or cache still has its id
  there, or the id is past (TTL old or dropped) and only then another may follow. That equal turns have equal
  keys is a fact about the rewriting, which reads nothing but the request.
- `DifferentAnswersDifferentIds` (`AnsweredApart`). `KeysInv`: an id belongs to one key, that of the requests that
  carry it and the one it is kept under. Equal ids then mean equal fingerprints, and `AnsweredReply` says that the reply, where the sanitising
  leaves something of it, is the last message but one and thus part of the fingerprint.
- `WhatIsSentIsAcceptable` (`SentIsAcceptable`, with its two exceptions: they are sent only where the client sent
  them) and `EveryWordArrives` (`WordsArrive`), for bodies of any length.
  `SentInv`: what was sent is the dressed and rewritten form of a request; the rest is about `RequestRewriting`. The lemmas
  on the recursive function `Kept`, which filters a sequence, and on `FlattenSeq` are inductions over indices. They
  are done by least counterexample: `Indices` takes the least index a fact fails at, from `WFMin`, which needs no
  operator as a parameter.
- `ConversationTypes` (`TypeOK`, with the cap of the cache and the shape of every body that is sent), from `CacheInv`
  and the former.
- `UnderstoodIsText` in `RequestRewriting` assumes that a literal is a string; TLC evaluates it, the provers cannot.

**`TransportPoolProofs`**

- `NothingLeaks` (`NoLeakedTransport`), `PoolTypes` (`TypeOK`, with the cap), `ProxiedEvictsOldest`
  (`EvictsOldestProxied`). `KeysInv` says that the fingerprint pool never has the empty key, `KindInv` that a
  goroutine of `clientPool` is only ever in its one critical section, `CapInv` that the pool is finite; `Leave` and `Make` describe the changes of all three pools.

## Only model-checked

Liveness: `EveryRequestReturns`, `LearnedTokenReachesCore`, `CallsReturn`, `StalledStreamEnds` and `ScannerLeaves`.
They rest on fairness, whose `ENABLED` the prover's backends do not support.

The runs also check the theorems' properties on their instances. The further hypotheses
of the theorems (`RoomForAll`, `LongMemory`, `Gentle`, `OldNameAtStart`) are true of the instance whose run checks the
same property.

## Not modelled

- Header tables, the TLS profile and its dialler, URL, PKCE and JSON formatting, logging: data without state.
- The price table, usage windows and quotas of accounts (`account_usage.go`, `usage/accounts`, account validation,
  `fetchUsage`): single requests and arithmetic on their answers; nothing is kept between them.
- The similarity measure of system prompts and the header patterns of `cc_validator.go`: members of a set.
- `cmd/`, `oauth_handler.go`, `metadata.go`, `assets.go`, `src/web`: wrappers, tables, presentation.
- `Stop` closes the pools while requests may still be forwarded; their `Get` fills the closed pool again. `Close`
  is an action of `TransportPool` that any `Get` may follow, so `NoLeakedTransport` covers it; that the process
  ends soon after is Core's affair.
- Core's runtime state beyond atomic put, take, update and loss of an answer; connections inside a transport.
- The window between `register` and the outcome of a poll: `pollOne` only logs.

## Plan

What has been built, in this order: `TokenManager`, `SidecarRunner`, `StreamRelay`, `OAuthSessions` with
`OneTimeTickets`, `TransportPool`; then `MeteredStream` with `UsageAccounting`, `ForwardCalls`,
`RequestRewriting` with `Conversations`, `SignIn`, and `AdminRefresh` in `TokenManager`; proofs beside them.

What could follow:

1. `ForwardCalls` uses `ensureValidToken` by its promise, with `Forfeit` for whatever makes the endpoint refuse the
   refresh token of a live account; an abstract module of that promise, shown to be implemented by
   `TokenManager` under `RoomForAll`, would close the gap between the two.
2. A service that is off, on or draining, implemented by `SidecarRunner` with orderly calls.
3. The usage windows of `account_usage.go` as functions, if they come to decide about scheduling.
