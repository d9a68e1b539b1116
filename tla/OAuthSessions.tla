---------------------------- MODULE OAuthSessions ----------------------------
(***************************************************************************)
(* The browser authorisation of backend/internal/gateway/oauth.go and       *)
(* shared_oauth.go: StartOAuth files a session under a fresh state string,  *)
(* HandleOAuthCallback consumes it and exchanges the code with its code     *)
(* verifier.  The store is a map of the process or, where Core offers it,   *)
(* Core's runtime state, which the plugin processes of a cutover have in    *)
(* common: shared.                                                          *)
(*                                                                          *)
(* A session is what belongs to its state string, so the map is the set of  *)
(* its keys and `created` holds every CreatedAt.  Whatever runs under       *)
(* store.mu, and each call of the shared state, is one step.  An unknown    *)
(* state string is refused and changes nothing.                             *)
(***************************************************************************)
EXTENDS Integers, FiniteSets

CONSTANTS
    State,       \* state strings
    Worker,      \* goroutines of HandleRequest
    TTL,         \* oauthSessionTTL
    MaxEntries,  \* oauthSessionMaxEntries
    MaxTime      \* bound: the clock stops there

ASSUME SessionsAssumption ==
    /\ {TTL, MaxTime} \subseteq Nat
    /\ MaxEntries \in Nat \ {0}

VARIABLES
    shared,     \* sessionStore.shared # nil, for all processes
    now,        \* time.Now()
    sessions,   \* keys of the store
    created,    \* CreatedAt of every state string that was generated
    pc,         \* idle, set (StartOAuth before Set), check (a callback that consumed)
    holds,      \* the state string a worker is busy with
    generated,  \* history: state strings generated so far
    offered,    \* history: those handed out with a link while this store exists
    taken,      \* history: those some callback consumed
    exchanges   \* history: requests to the token endpoint for each state string

storeVars  == <<sessions, created>>
workerVars == <<pc, holds>>
histVars   == <<generated, offered, taken, exchanges>>
vars == <<shared, now, storeVars, workerVars, histVars>>

Init ==
    /\ shared \in BOOLEAN
    /\ now = 0
    /\ sessions = {}
    /\ created = [s \in State |-> 0]
    /\ pc = [w \in Worker |-> "idle"]
    /\ holds \in [Worker -> State]
    /\ generated = {} /\ offered = {} /\ taken = {}
    /\ exchanges = [s \in State |-> 0]

-----------------------------------------------------------------------------
(* StartOAuth.                                                              *)

Goes(w, place) == pc' = [pc EXCEPT ![w] = place]

Expired(s) == now - created[s] > TTL

\* cleanExpiredLocked
Unexpired == {s \in sessions : ~Expired(s)}

\* CleanExpired, the new state string and its CreatedAt.
StartOAuth(w) ==
    /\ pc[w] = "idle"
    /\ sessions' = IF shared THEN sessions ELSE Unexpired
    /\ \E s \in State \ generated :
          /\ generated' = generated \union {s}
          /\ created' = [created EXCEPT ![s] = now]
          /\ holds' = [holds EXCEPT ![w] = s]
    /\ Goes(w, "set")
    /\ UNCHANGED <<shared, now, offered, taken, exchanges>>

\* Mutant: the map takes one session too many.
FullBeyond(S) == Cardinality(S) > MaxEntries

Full(S) == Cardinality(S) >= MaxEntries

\* Mutant: the youngest session makes room.
Youngest(S) == {s \in S : \A r \in S : created[r] <= created[s]}

\* deleteOldestLocked deletes one of these.
Oldest(S) == {s \in S : \A r \in S : created[s] <= created[r]}

Set(w) ==
    /\ pc[w] = "set"
    /\ ~shared
    /\ \/ ~Full(Unexpired) /\ sessions' = Unexpired \union {holds[w]}
       \/ /\ Full(Unexpired)
          /\ \E s \in Oldest(Unexpired) : sessions' = (Unexpired \ {s}) \union {holds[w]}
    /\ offered' = offered \union {holds[w]}
    /\ Goes(w, "idle")
    /\ UNCHANGED <<shared, now, created, holds, generated, taken, exchanges>>

SetShared(w) ==
    /\ pc[w] = "set"
    /\ shared
    /\ sessions' = sessions \union {holds[w]}
    /\ offered' = offered \union {holds[w]}
    /\ Goes(w, "idle")
    /\ UNCHANGED <<shared, now, created, holds, generated, taken, exchanges>>

\* The call fails or takes more than two seconds, stored or not: no link.
SetSharedFails(w) ==
    /\ pc[w] = "set"
    /\ shared
    /\ sessions' \in {sessions, sessions \union {holds[w]}}
    /\ Goes(w, "idle")
    /\ UNCHANGED <<shared, now, created, holds, histVars>>

-----------------------------------------------------------------------------
(* HandleOAuthCallback.                                                     *)

\* Mutant: the session stays where it is.
LeftThere(s) == sessions

Removed(s) == sessions \ {s}

\* consume: the session is taken out, whatever its age, and handed to the caller.
Consume(w, s) ==
    /\ pc[w] = "idle"
    /\ s \in sessions
    /\ sessions' = Removed(s)
    /\ taken' = taken \union {s}
    /\ holds' = [holds EXCEPT ![w] = s]
    /\ Goes(w, "check")
    /\ UNCHANGED <<shared, now, created, generated, offered, exchanges>>

\* Core took the session, but its reply fails, comes late or cannot be read.
TakeLost(w, s) ==
    /\ pc[w] = "idle"
    /\ shared
    /\ s \in sessions
    /\ sessions' = Removed(s)
    /\ taken' = taken \union {s}
    /\ UNCHANGED <<shared, now, created, workerVars, generated, offered, exchanges>>

InTime(s) == ~Expired(s)

\* The callback's look at the age and exchangeCodeForToken, which share nothing
\* with anybody in between; the session is spent whatever the endpoint answers.
Exchange(w) ==
    /\ pc[w] = "check"
    /\ InTime(holds[w])
    /\ exchanges' = [exchanges EXCEPT ![holds[w]] = @ + 1]
    /\ Goes(w, "idle")
    /\ UNCHANGED <<shared, now, storeVars, holds, generated, offered, taken>>

Refuse(w) ==
    /\ pc[w] = "check"
    /\ ~InTime(holds[w])
    /\ Goes(w, "idle")
    /\ UNCHANGED <<shared, now, storeVars, holds, histVars>>

-----------------------------------------------------------------------------
(* Processes and time.                                                      *)

\* Mutant: the sessions end with the process in any case.
NothingSurvives == {}

Survivors == IF shared THEN sessions ELSE {}

\* A plugin process ends with its workers.  Without shared there is one process.
Restart(gone) ==
    /\ shared \/ gone = Worker
    /\ pc' = [w \in Worker |-> IF w \in gone THEN "idle" ELSE pc[w]]
    /\ sessions' = Survivors
    /\ offered' = IF shared THEN offered ELSE {}
    /\ UNCHANGED <<shared, now, created, holds, generated, taken, exchanges>>

Tick ==
    /\ now < MaxTime
    /\ now' = now + 1
    /\ UNCHANGED <<shared, storeVars, workerVars, histVars>>

-----------------------------------------------------------------------------

Starting(w) == StartOAuth(w) \/ Set(w) \/ SetShared(w) \/ SetSharedFails(w)
CallingBack(w) ==
    Exchange(w) \/ Refuse(w) \/ \E s \in State : Consume(w, s) \/ TakeLost(w, s)

Next ==
    \/ \E w \in Worker : Starting(w) \/ CallingBack(w)
    \/ \E gone \in SUBSET Worker : Restart(gone)
    \/ Tick

Spec == Init /\ [][Next]_vars

-----------------------------------------------------------------------------
(* Properties.                                                              *)

\* Types, and the cap of the map: oauthSessionMaxEntries holds whatever sets
\* and callbacks are on their way at once.
TypeOK ==
    /\ shared \in BOOLEAN
    /\ now \in 0..MaxTime
    /\ sessions \subseteq generated /\ generated \subseteq State
    /\ created \in [State -> 0..MaxTime]
    /\ pc \in [Worker -> {"idle", "set", "check"}]
    /\ holds \in [Worker -> State]
    /\ offered \subseteq generated /\ taken \subseteq generated
    /\ exchanges \in [State -> Nat]
    /\ ~shared => Cardinality(sessions) <= MaxEntries

\* Sessions only deleteOldestLocked could have sacrificed for s's successors.
AsYoung(s) == {r \in generated \ {s} : created[r] >= created[s]}
MayBeEvicted(s) == ~shared /\ Cardinality(AsYoung(s)) >= MaxEntries - 1

\* Whoever was given a link can finish the authorisation with it in time:
\* neither cleanup, nor somebody else's start or callback, nor, with shared, a
\* cutover to another process loses the session before it is used, unless the
\* map is full of sessions as young.
OfferIsRedeemable ==
    \A s \in offered \ taken : Expired(s) \/ MayBeEvicted(s) \/ s \in sessions

\* The store implements one-time tickets, across callbacks that are submitted
\* twice, lost replies, restarts and cutovers.
At(s, place) == \E w \in Worker : pc[w] = place /\ holds[w] = s

TicketOf(s) ==
    IF exchanges[s] > 0 THEN "redeemed"
    ELSE IF s \in sessions \/ At(s, "check") THEN "open"
    ELSE IF s \notin generated \/ At(s, "set") THEN "none"
    ELSE "void"

Tickets == INSTANCE OneTimeTickets
             WITH Ticket <- State, ticket <- [s \in State |-> TicketOf(s)], uses <- exchanges

OneTime == Tickets!Spec
=============================================================================
