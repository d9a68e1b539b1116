---------------------------- MODULE TransportPool ----------------------------
(***************************************************************************)
(* The connection pools of backend/internal/gateway: StandardTransportPool  *)
(* and FingerprintTransportPool (transport_pool.go), which look up under a   *)
(* read lock and touch the entry under the write lock afterwards, and        *)
(* clientPool (client_pool.go), which does both under one mutex.  A         *)
(* behaviour is one of the three: kind.                                      *)
(*                                                                          *)
(* Transports are numbered as they are made.  A transport that leaves a      *)
(* pool is told to close its idle connections; requests still on it go on.   *)
(* Whatever runs under the pool's lock is one step.                          *)
(***************************************************************************)
EXTENDS Integers, FiniteSets

CONSTANTS
    Key,              \* keys of the map
    Direct,           \* the key "" of connections without a proxy
    Goroutine,        \* goroutines that call Get
    MaxEntries,       \* ...MaxEntries
    IdleTTL,          \* ...IdleTTL
    CleanupInterval,  \* ...CleanupInterval
    MaxTime,          \* bound: the clock stops there
    MaxMade           \* bound: transports made

ASSUME PoolAssumption ==
    /\ Direct \in Key
    /\ {IdleTTL, CleanupInterval, MaxTime, MaxMade} \subseteq Nat
    /\ MaxEntries \in Nat \ {0}

VARIABLES
    kind,         \* standard, fingerprint or client pool
    now,          \* time.Now()
    pool,         \* the transport of each key, 0 where there is no entry
    used,         \* lastUsedAt
    lastCleanup,  \* lastCleanupTime
    made,         \* history: transports made so far
    shut,         \* history: transports told to close their idle connections
    pc,           \* idle, touch or create: between the locks of a Get
    key,          \* its key
    at            \* its now

poolVars == <<pool, used, lastCleanup, made, shut>>
getVars  == <<pc, key, at>>
vars == <<kind, now, poolVars, getVars>>

Pooled == {k \in Key : pool[k] # 0}

\* A fingerprint key names an account and is never "".
Keys == IF kind = "fingerprint" THEN Key \ {Direct} ELSE Key

Init ==
    /\ kind \in {"standard", "fingerprint", "client"}
    /\ now = 0
    /\ pool = [k \in Key |-> 0] /\ used = [k \in Key |-> 0]
    /\ lastCleanup = 0
    /\ made = 0 /\ shut = {}
    /\ pc = [g \in Goroutine |-> "idle"]
    /\ key = [g \in Goroutine |-> Direct]
    /\ at = [g \in Goroutine |-> 0]

-----------------------------------------------------------------------------
(* What the pools do under their lock.                                      *)

\* CloseIdleConnections for the transports of K.
ShutOf(K) == {pool[k] : k \in K}

\* Entries cleanupIdleLocked deletes at time t.
CleanedAt(t) ==
    IF t - lastCleanup < CleanupInterval /\ Cardinality(Pooled) < MaxEntries THEN {}
    ELSE {k \in Pooled : t - used[k] > IdleTTL}

CleanupDone(t) ==
    lastCleanup' = IF t - lastCleanup < CleanupInterval /\ Cardinality(Pooled) < MaxEntries
                   THEN lastCleanup ELSE t

\* Mutant: the most recently used entry makes room.
LatestOf(K) == {k \in K : \A j \in K : used[j] <= used[k]}

OldestOf(K) == {k \in K : \A j \in K : used[k] <= used[j]}

\* What deleteOldestLocked may delete from the entries K: its oldestKey is ""
\* before the first entry, and also once it has chosen the entry of Direct, so
\* the entry visited next takes over whatever its age.  B are the keys the map
\* iteration visits after Direct.
Evicted(K) ==
    IF Direct \notin K THEN {{k} : k \in OldestOf(K)}
    ELSE LET others == K \ {Direct}
         IN UNION {IF \E a \in others \ B : used[a] <= used[Direct]
                     THEN {{k} : k \in OldestOf(others)}
                   ELSE IF B = {} THEN {{}}
                   ELSE {{k} : k \in OldestOf(B)} : B \in SUBSET others}

\* Mutant: the cap is noticed one entry too late.
FullBeyond(K) == Cardinality(K) > MaxEntries

Full(K) == Cardinality(K) >= MaxEntries

\* A transport for k, made at time t after cleanup and, at the cap, eviction.
Make(k, t) ==
    LET kept == Pooled \ CleanedAt(t)
    IN  /\ made < MaxMade
        /\ made' = made + 1
        /\ \E gone \in IF Full(kept) THEN Evicted(kept) ELSE {{}} :
              /\ pool' = [j \in Key |-> IF j = k THEN made + 1
                                        ELSE IF j \in kept \ gone THEN pool[j] ELSE 0]
              /\ shut' = shut \union ShutOf(CleanedAt(t) \union gone)
        /\ used' = [used EXCEPT ![k] = t]
        /\ CleanupDone(t)

\* The entry of k was used at time t; cleanup follows.
Used(k, t) ==
    LET cleaned == CleanedAt(t) \ {k}
    IN  /\ used' = IF k \in Pooled THEN [used EXCEPT ![k] = t] ELSE used
        /\ pool' = [j \in Key |-> IF j \in cleaned THEN 0 ELSE pool[j]]
        /\ shut' = shut \union ShutOf(cleaned)
        /\ CleanupDone(t)
        /\ UNCHANGED made

-----------------------------------------------------------------------------
(* Get of the transport pools.                                              *)

Goes(g, place) == pc' = [pc EXCEPT ![g] = place]

\* The lookup under the read lock.
Lookup(g, k) ==
    /\ pc[g] = "idle"
    /\ kind # "client"
    /\ Goes(g, IF k \in Pooled THEN "touch" ELSE "create")
    /\ key' = [key EXCEPT ![g] = k]
    /\ at' = [at EXCEPT ![g] = now]
    /\ UNCHANGED <<kind, now, poolVars>>

\* touch; meanwhile the entry may be gone.
Touch(g) ==
    /\ pc[g] = "touch"
    /\ Used(key[g], at[g])
    /\ Goes(g, "idle")
    /\ UNCHANGED <<kind, now, key, at>>

\* Mutant: nobody looks again under the write lock.
NotSeen(k) == FALSE

\* The double-check.
Seen(k) == k \in Pooled

FindOther(g) ==
    /\ pc[g] = "create"
    /\ Seen(key[g])
    /\ used' = [used EXCEPT ![key[g]] = at[g]]
    /\ Goes(g, "idle")
    /\ UNCHANGED <<kind, now, pool, lastCleanup, made, shut, key, at>>

Create(g) ==
    /\ pc[g] = "create"
    /\ ~Seen(key[g])
    /\ Make(key[g], at[g])
    /\ Goes(g, "idle")
    /\ UNCHANGED <<kind, now, key, at>>

-----------------------------------------------------------------------------
(* get of clientPool; time.Now() is read before the lock.                   *)

AskClient(g, k) ==
    /\ pc[g] = "idle"
    /\ kind = "client"
    /\ Goes(g, "get")
    /\ key' = [key EXCEPT ![g] = k]
    /\ at' = [at EXCEPT ![g] = now]
    /\ UNCHANGED <<kind, now, poolVars>>

GetClient(g) ==
    /\ pc[g] = "get"
    /\ IF Seen(key[g]) THEN Used(key[g], at[g]) ELSE Make(key[g], at[g])
    /\ Goes(g, "idle")
    /\ UNCHANGED <<kind, now, key, at>>

-----------------------------------------------------------------------------
(* Removal, and time.                                                       *)

\* RemoveAccount removes the keys of an account, Close all of them.
Remove(K) ==
    /\ K \subseteq Pooled
    /\ pool' = [k \in Key |-> IF k \in K THEN 0 ELSE pool[k]]
    /\ shut' = shut \union ShutOf(K)

RemoveAccount(K) ==
    /\ kind = "fingerprint"
    /\ K # {}
    /\ Remove(K)
    /\ UNCHANGED <<kind, now, used, lastCleanup, made, getVars>>

Close ==
    /\ Remove(Pooled)
    /\ lastCleanup' = now
    /\ UNCHANGED <<kind, now, used, made, getVars>>

Tick ==
    /\ now < MaxTime
    /\ now' = now + 1
    /\ UNCHANGED <<kind, poolVars, getVars>>

-----------------------------------------------------------------------------

Getting(g) ==
    \/ \E k \in Keys : Lookup(g, k) \/ AskClient(g, k)
    \/ Touch(g) \/ FindOther(g) \/ Create(g) \/ GetClient(g)

Next ==
    \/ \E g \in Goroutine : Getting(g)
    \/ \E K \in SUBSET Key : RemoveAccount(K)
    \/ Close
    \/ Tick

Spec == Init /\ [][Next]_vars

-----------------------------------------------------------------------------
(* Properties.                                                              *)

\* Types, and the cap of the pool whose keys are never "".
TypeOK ==
    /\ kind \in {"standard", "fingerprint", "client"}
    /\ now \in 0..MaxTime /\ lastCleanup \in 0..now
    /\ pool \in [Key -> 0..made] /\ made \in 0..MaxMade
    /\ used \in [Key -> 0..now]
    /\ shut \subseteq 1..made
    /\ pc \in [Goroutine -> {"idle", "touch", "create", "get"}]
    /\ key \in [Goroutine -> Key] /\ at \in [Goroutine -> 0..now]
    /\ kind = "fingerprint" => Cardinality(Pooled) <= MaxEntries

\* No transport is forgotten: each one that was made serves exactly one key of
\* the pool, or has left it and been told to close its idle connections.  Two
\* goroutines that miss the same key at once do not overwrite each other's.
NoLeakedTransport ==
    /\ \A t \in 1..made : t \in shut \/ \E k \in Key : pool[k] = t
    /\ \A k \in Pooled : pool[k] \notin shut /\ \A j \in Pooled : pool[j] = pool[k] => j = k

\* deleteOldestLocked: making a new transport costs no entry that was used
\* later than one which may stay.
MakingCostsOldest ==
    made' # made =>
        \A k, j \in Key : pool[k] # 0 /\ pool'[k] = 0 /\ pool[j] # 0 /\ pool'[j] = pool[j]
                            => used[k] <= used[j]

EvictsOldest == [][MakingCostsOldest]_vars

\* The same while no entry has the empty key, which is all the code can keep:
\* the proxied connections of every pool, whatever races with the eviction.
EvictsOldestProxied == [][pool[Direct] = 0 => MakingCostsOldest]_vars
=============================================================================
