------------------------- MODULE TransportPoolProofs -------------------------
(***************************************************************************)
(* Theorems about the connection pools for any keys, goroutines, caps and   *)
(* times.                                                                   *)
(***************************************************************************)
EXTENDS TransportPool, FiniteSetTheorems, TLAPS

USE PoolAssumption

-----------------------------------------------------------------------------
(* Types.                                                                   *)

\* TypeOK without the cap, and what makes the cap hold: the map is finite, and a
\* pool whose keys name accounts has no entry under the empty key.
TypesOK ==
    /\ kind \in {"standard", "fingerprint", "client"}
    /\ now \in 0..MaxTime /\ lastCleanup \in 0..now
    /\ made \in 0..MaxMade /\ pool \in [Key -> 0..made]
    /\ used \in [Key -> 0..now]
    /\ shut \subseteq 1..made
    /\ pc \in [Goroutine -> {"idle", "touch", "create", "get"}]
    /\ key \in [Goroutine -> Key] /\ at \in [Goroutine -> 0..now]

KeysInv ==
    kind = "fingerprint" =>
        /\ pool[Direct] = 0
        /\ \A g \in Goroutine : pc[g] # "idle" => key[g] # Direct

\* A goroutine of clientPool is only ever in its one critical section.
KindInv == \A g \in Goroutine : pc[g] = "get" => kind = "client"

\* Whoever makes room takes it from the entries there are.
LEMMA EvictedAreEntries ==
    ASSUME NEW K, NEW gone \in Evicted(K)
    PROVE  gone \subseteq K
BY DEF Evicted, OldestOf

LEMMA CleanedAreEntries == \A t : CleanedAt(t) \subseteq Pooled
BY DEF CleanedAt

\* What Make does to the pool, said with the set of entries that leave it.
LEMMA MakeChanges ==
    ASSUME NEW k \in Key, NEW t, Make(k, t)
    PROVE  \E gone \in SUBSET Pooled :
             /\ CleanedAt(t) \subseteq gone
             /\ pool' = [j \in Key |-> IF j = k THEN made + 1
                                       ELSE IF j \in Pooled \ gone THEN pool[j] ELSE 0]
             /\ shut' = shut \union ShutOf(gone)
             /\ made' = made + 1 /\ made < MaxMade
             /\ used' = [used EXCEPT ![k] = t]
             /\ lastCleanup' \in {lastCleanup, t}
             /\ IF Full(Pooled \ CleanedAt(t))
                THEN gone \ CleanedAt(t) \in Evicted(Pooled \ CleanedAt(t))
                ELSE gone = CleanedAt(t)
<1> DEFINE kept == Pooled \ CleanedAt(t)
<1>1. PICK out \in IF Full(kept) THEN Evicted(kept) ELSE {{}} :
             /\ pool' = [j \in Key |-> IF j = k THEN made + 1
                                       ELSE IF j \in kept \ out THEN pool[j] ELSE 0]
             /\ shut' = shut \union ShutOf(CleanedAt(t) \union out)
  BY DEF Make
<1>2. out \subseteq kept
  BY <1>1, EvictedAreEntries
<1> DEFINE gone == CleanedAt(t) \union out
<1>3. gone \in SUBSET Pooled /\ CleanedAt(t) \subseteq gone
  BY <1>2, CleanedAreEntries
<1>4. Pooled \ gone = kept \ out /\ gone \ CleanedAt(t) = out
  BY <1>2
<1>5. IF Full(kept) THEN out \in Evicted(kept) ELSE gone = CleanedAt(t)
  BY <1>1
<1>6. /\ made' = made + 1 /\ made < MaxMade
      /\ used' = [used EXCEPT ![k] = t]
      /\ lastCleanup' \in {lastCleanup, t}
  BY DEF Make, CleanupDone
<1>7. /\ pool' = [j \in Key |-> IF j = k THEN made + 1
                                ELSE IF j \in Pooled \ gone THEN pool[j] ELSE 0]
      /\ shut' = shut \union ShutOf(gone)
  BY <1>1, <1>4
<1>8. IF Full(kept) THEN gone \ CleanedAt(t) \in Evicted(kept) ELSE gone = CleanedAt(t)
  BY <1>4, <1>5
<1> HIDE DEF gone
<1> QED BY <1>3, <1>6, <1>7, <1>8

\* The same for Used.
LEMMA UsedChanges ==
    ASSUME NEW k \in Key, NEW t, Used(k, t)
    PROVE  \E gone \in SUBSET Pooled :
             /\ pool' = [j \in Key |-> IF j \in gone THEN 0 ELSE pool[j]]
             /\ shut' = shut \union ShutOf(gone)
             /\ made' = made
             /\ used' \in {used, [used EXCEPT ![k] = t]}
             /\ lastCleanup' \in {lastCleanup, t}
<1>1. CleanedAt(t) \ {k} \in SUBSET Pooled
  BY CleanedAreEntries
<1> QED BY <1>1 DEF Used, CleanupDone

LEMMA TypesInit == Init => TypesOK /\ KeysInv /\ KindInv
BY DEF Init, TypesOK, KeysInv, KindInv

LEMMA TypesStep == TypesOK /\ [Next]_vars => TypesOK'
<1> SUFFICES ASSUME TypesOK, [Next]_vars PROVE TypesOK'
  OBVIOUS
<1> USE DEF TypesOK, poolVars, getVars
<1>m. ASSUME NEW k \in Key, NEW t \in 0..now, Make(k, t), UNCHANGED now
      PROVE  /\ made' \in 0..MaxMade /\ pool' \in [Key -> 0..made'] /\ used' \in [Key -> 0..now']
             /\ shut' \subseteq 1..made' /\ lastCleanup' \in 0..now'
  <2>1. PICK gone \in SUBSET Pooled :
             /\ pool' = [j \in Key |-> IF j = k THEN made + 1
                                       ELSE IF j \in Pooled \ gone THEN pool[j] ELSE 0]
             /\ shut' = shut \union ShutOf(gone)
             /\ made' = made + 1 /\ made < MaxMade
             /\ used' = [used EXCEPT ![k] = t]
             /\ lastCleanup' \in {lastCleanup, t}
    BY <1>m, MakeChanges
  <2>2. ShutOf(gone) \subseteq 1..made
    BY DEF ShutOf, Pooled
  <2>3. made' \in 0..MaxMade
    BY <2>1
  <2>4. pool' \in [Key -> 0..made']
    BY <2>1
  <2>5. used' \in [Key -> 0..now']
    BY <2>1, <1>m
  <2>6. lastCleanup' \in 0..now'
    BY <2>1, <1>m
  <2>7. shut' \subseteq 1..made'
    <3>1. 1..made \subseteq 1..made'
      BY <2>1
    <3>2. shut \subseteq 1..made
      OBVIOUS
    <3> QED BY <2>1, <2>2, <3>1, <3>2, Zenon
  <2> QED BY <2>3, <2>4, <2>5, <2>6, <2>7
<1>u. ASSUME NEW k \in Key, NEW t \in 0..now, Used(k, t), UNCHANGED now
      PROVE  /\ made' \in 0..MaxMade /\ pool' \in [Key -> 0..made'] /\ used' \in [Key -> 0..now']
             /\ shut' \subseteq 1..made' /\ lastCleanup' \in 0..now'
  <2>1. PICK gone \in SUBSET Pooled :
             /\ pool' = [j \in Key |-> IF j \in gone THEN 0 ELSE pool[j]]
             /\ shut' = shut \union ShutOf(gone)
             /\ made' = made
             /\ used' \in {used, [used EXCEPT ![k] = t]}
             /\ lastCleanup' \in {lastCleanup, t}
    BY <1>u, UsedChanges
  <2>2. ShutOf(gone) \subseteq 1..made
    BY DEF ShutOf, Pooled
  <2>3. pool' \in [Key -> 0..made']
    BY <2>1
  <2>4. used' \in [Key -> 0..now']
    BY <2>1, <1>u
  <2>5. lastCleanup' \in 0..now'
    BY <2>1, <1>u
  <2>6. shut' \subseteq 1..made' /\ made' \in 0..MaxMade
    BY <2>1, <2>2
  <2> QED BY <2>3, <2>4, <2>5, <2>6
<1>1. ASSUME NEW g \in Goroutine, NEW k \in Keys, Lookup(g, k) PROVE TypesOK'
  BY <1>1 DEF Lookup, Goes, Keys
<1>2. ASSUME NEW g \in Goroutine, NEW k \in Keys, AskClient(g, k) PROVE TypesOK'
  BY <1>2 DEF AskClient, Goes, Keys
<1>3. ASSUME NEW g \in Goroutine, Touch(g) PROVE TypesOK'
  <2>1. Used(key[g], at[g]) /\ UNCHANGED <<kind, now, key, at>> /\ pc' = [pc EXCEPT ![g] = "idle"]
    BY <1>3 DEF Touch, Goes
  <2> QED BY <2>1, <1>u
<1>4. ASSUME NEW g \in Goroutine, FindOther(g) PROVE TypesOK'
  BY <1>4 DEF FindOther, Goes
<1>5. ASSUME NEW g \in Goroutine, Create(g) PROVE TypesOK'
  <2>1. Make(key[g], at[g]) /\ UNCHANGED <<kind, now, key, at>> /\ pc' = [pc EXCEPT ![g] = "idle"]
    BY <1>5 DEF Create, Goes
  <2> QED BY <2>1, <1>m
<1>6. ASSUME NEW g \in Goroutine, GetClient(g) PROVE TypesOK'
  <2>1. UNCHANGED <<kind, now, key, at>> /\ pc' = [pc EXCEPT ![g] = "idle"]
    BY <1>6 DEF GetClient, Goes
  <2>2. Used(key[g], at[g]) \/ Make(key[g], at[g])
    BY <1>6 DEF GetClient
  <2> QED BY <2>1, <2>2, <1>m, <1>u
<1>r. ASSUME NEW K, Remove(K), UNCHANGED made
      PROVE  pool' \in [Key -> 0..made'] /\ shut' \subseteq 1..made'
  <2>1. K \subseteq Key /\ pool' = [k \in Key |-> IF k \in K THEN 0 ELSE pool[k]]
    BY <1>r DEF Remove, Pooled
  <2>2. ShutOf(K) \subseteq 1..made
    BY <1>r DEF Remove, ShutOf, Pooled
  <2>3. pool' \in [Key -> 0..made']
    BY <2>1, <1>r
  <2>4. shut' \subseteq 1..made'
    BY <2>2, <1>r DEF Remove
  <2> QED BY <2>3, <2>4
<1>7. ASSUME NEW K \in SUBSET Key, RemoveAccount(K) PROVE TypesOK'
  BY <1>7, <1>r DEF RemoveAccount
<1>8. CASE Close
  BY <1>8, <1>r DEF Close
<1>9. CASE Tick
  BY <1>9 DEF Tick
<1>10. CASE UNCHANGED vars
  BY <1>10 DEF vars
<1> QED BY <1>1, <1>2, <1>3, <1>4, <1>5, <1>6, <1>7, <1>8, <1>9, <1>10 DEF Next, Getting

LEMMA KeysStep == TypesOK /\ KeysInv /\ KindInv /\ [Next]_vars => KeysInv' /\ KindInv'
<1> SUFFICES ASSUME TypesOK, KeysInv, KindInv, [Next]_vars PROVE KeysInv' /\ KindInv'
  OBVIOUS
<1> USE DEF TypesOK, KeysInv, KindInv, poolVars, getVars
<1>1. ASSUME NEW g \in Goroutine, NEW k \in Keys, Lookup(g, k) PROVE KeysInv' /\ KindInv'
  BY <1>1 DEF Lookup, Goes, Keys
<1>2. ASSUME NEW g \in Goroutine, NEW k \in Keys, AskClient(g, k) PROVE KeysInv' /\ KindInv'
  BY <1>2 DEF AskClient, Goes, Keys
<1>3. ASSUME NEW g \in Goroutine, Touch(g) PROVE KeysInv' /\ KindInv'
  <2>1. Used(key[g], at[g]) /\ UNCHANGED <<kind, now, key, at>> /\ pc' = [pc EXCEPT ![g] = "idle"]
    BY <1>3 DEF Touch, Goes
  <2>2. pool[Direct] = 0 => pool'[Direct] = 0
    BY <2>1, UsedChanges
  <2> QED BY <2>1, <2>2
<1>4. ASSUME NEW g \in Goroutine, FindOther(g) PROVE KeysInv' /\ KindInv'
  BY <1>4 DEF FindOther, Goes
<1>5. ASSUME NEW g \in Goroutine, Create(g) PROVE KeysInv' /\ KindInv'
  <2>1. /\ Make(key[g], at[g]) /\ UNCHANGED <<kind, now, key, at>>
        /\ pc[g] = "create" /\ pc' = [pc EXCEPT ![g] = "idle"]
    BY <1>5 DEF Create, Goes
  <2>2. pool[Direct] = 0 /\ key[g] # Direct => pool'[Direct] = 0
    <3>0. key[g] \in Key
      OBVIOUS
    <3>1. PICK gone \in SUBSET Pooled :
            pool' = [j \in Key |-> IF j = key[g] THEN made + 1
                                          ELSE IF j \in Pooled \ gone THEN pool[j] ELSE 0]
      BY <2>1, <3>0, MakeChanges
    <3> QED BY <3>1
  <2> QED BY <2>1, <2>2
<1>6. ASSUME NEW g \in Goroutine, GetClient(g) PROVE KeysInv' /\ KindInv'
  <2>1. UNCHANGED <<kind, now, key, at>> /\ pc' = [pc EXCEPT ![g] = "idle"] /\ kind = "client"
    BY <1>6 DEF GetClient, Goes
  <2> QED BY <2>1
<1>7. ASSUME NEW K \in SUBSET Key, RemoveAccount(K) PROVE KeysInv' /\ KindInv'
  BY <1>7 DEF RemoveAccount, Remove
<1>8. CASE Close
  BY <1>8 DEF Close, Remove
<1>9. CASE Tick
  BY <1>9 DEF Tick
<1>10. CASE UNCHANGED vars
  BY <1>10 DEF vars
<1> QED BY <1>1, <1>2, <1>3, <1>4, <1>5, <1>6, <1>7, <1>8, <1>9, <1>10 DEF Next, Getting

LEMMA TypesInvariant == Spec => [](TypesOK /\ KeysInv /\ KindInv)
BY TypesInit, TypesStep, KeysStep, PTL DEF Spec

-----------------------------------------------------------------------------
(* What a step does to the pool.                                            *)

\* The entries gone leave the pool, and their transports are told to close.
Leave(gone) ==
    /\ pool' = [j \in Key |-> IF j \in gone THEN 0 ELSE pool[j]]
    /\ shut' = shut \union ShutOf(gone)
    /\ made' = made

\* The same, and key k gets a new transport.
LeaveFor(k, gone) ==
    /\ pool' = [j \in Key |-> IF j = k THEN made + 1
                              ELSE IF j \in Pooled \ gone THEN pool[j] ELSE 0]
    /\ shut' = shut \union ShutOf(gone)
    /\ made' = made + 1

\* A step makes a transport for a key that has none, or only takes entries away.
LEMMA PoolSteps ==
    ASSUME TypesOK, KeysInv, KindInv, [Next]_vars
    PROVE  \/ \E gone \in SUBSET Pooled : Leave(gone)
           \/ \E k \in Key \ Pooled, g \in Goroutine :
                /\ Make(k, at[g])
                /\ kind' = kind
                /\ kind = "fingerprint" => k # Direct
<1> USE DEF TypesOK, poolVars, getVars
<1>0. ASSUME UNCHANGED <<pool, shut, made>> PROVE Leave({})
  <2>1. pool = [j \in Key |-> IF j \in {} THEN 0 ELSE pool[j]]
    OBVIOUS
  <2>2. ShutOf({}) = {}
    BY DEF ShutOf
  <2> QED BY <1>0, <2>1, <2>2 DEF Leave
<1>a. {} \in SUBSET Pooled
  OBVIOUS
<1>u. ASSUME NEW k \in Key, NEW t, Used(k, t) PROVE \E gone \in SUBSET Pooled : Leave(gone)
  BY <1>u, UsedChanges DEF Leave
<1>1. ASSUME NEW g \in Goroutine, NEW k \in Keys, Lookup(g, k) PROVE Leave({})
  BY <1>0, <1>1 DEF Lookup
<1>2. ASSUME NEW g \in Goroutine, NEW k \in Keys, AskClient(g, k) PROVE Leave({})
  BY <1>0, <1>2 DEF AskClient
<1>3. ASSUME NEW g \in Goroutine, Touch(g) PROVE \E gone \in SUBSET Pooled : Leave(gone)
  <2>1. key[g] \in Key /\ Used(key[g], at[g])
    BY <1>3 DEF Touch
  <2> QED BY <2>1, <1>u
<1>4. ASSUME NEW g \in Goroutine, FindOther(g) PROVE Leave({})
  BY <1>0, <1>4 DEF FindOther
<1>5. ASSUME NEW g \in Goroutine, Create(g)
      PROVE  \E k \in Key \ Pooled, h \in Goroutine :
                Make(k, at[h]) /\ kind' = kind /\ (kind = "fingerprint" => k # Direct)
  <2>1. key[g] \in Key \ Pooled /\ Make(key[g], at[g]) /\ kind' = kind /\ pc[g] = "create"
    BY <1>5 DEF Create, Seen
  <2>2. kind = "fingerprint" => key[g] # Direct
    BY <2>1 DEF KeysInv
  <2> QED BY <2>1, <2>2
<1>6. ASSUME NEW g \in Goroutine, GetClient(g)
      PROVE  \/ \E gone \in SUBSET Pooled : Leave(gone)
             \/ \E k \in Key \ Pooled, h \in Goroutine :
                  Make(k, at[h]) /\ kind' = kind /\ (kind = "fingerprint" => k # Direct)
  <2>1. key[g] \in Key /\ kind' = kind /\ kind = "client"
    BY <1>6 DEF GetClient, KindInv
  <2>2. CASE Seen(key[g])
    BY <1>6, <2>1, <2>2, <1>u DEF GetClient
  <2>3. CASE ~Seen(key[g])
    <3>1. Make(key[g], at[g]) /\ key[g] \in Key \ Pooled
      BY <1>6, <2>1, <2>3 DEF GetClient, Seen
    <3> QED BY <2>1, <3>1
  <2> QED BY <2>2, <2>3
<1>7. ASSUME NEW K \in SUBSET Key, RemoveAccount(K) PROVE K \in SUBSET Pooled /\ Leave(K)
  BY <1>7 DEF RemoveAccount, Remove, Leave
<1>8. CASE Close
  <2>1. Leave(Pooled)
    BY <1>8 DEF Close, Remove, Leave
  <2> QED BY <2>1
<1>9. CASE Tick
  BY <1>0, <1>9, <1>a DEF Tick
<1>10. CASE UNCHANGED vars
  BY <1>0, <1>10, <1>a DEF vars
<1> QED BY <1>a, <1>1, <1>2, <1>3, <1>4, <1>5, <1>6, <1>7, <1>8, <1>9, <1>10 DEF Next, Getting

LEMMA MakeLeaves ==
    ASSUME NEW k \in Key, NEW t, Make(k, t)
    PROVE  \E gone \in SUBSET Pooled : LeaveFor(k, gone)
BY MakeChanges DEF LeaveFor

-----------------------------------------------------------------------------
(* No transport is forgotten.                                               *)

LEMMA LeakStep ==
    TypesOK /\ KeysInv /\ KindInv /\ NoLeakedTransport /\ [Next]_vars => NoLeakedTransport'
<1> SUFFICES ASSUME TypesOK, KeysInv, KindInv, NoLeakedTransport, [Next]_vars
             PROVE  NoLeakedTransport'
  OBVIOUS
<1> USE DEF TypesOK
<1>1. \A k, j \in Key : pool[k] # 0 /\ pool[j] = pool[k] => j = k
  BY DEF NoLeakedTransport, Pooled
<1>2. \A k \in Key : pool[k] # 0 => pool[k] \notin shut /\ pool[k] \in 1..made
  BY DEF NoLeakedTransport, Pooled
<1>3. \A t \in 1..made : t \in shut \/ \E k \in Key : pool[k] = t
  BY DEF NoLeakedTransport
<1>4. ASSUME NEW gone \in SUBSET Pooled, Leave(gone) PROVE NoLeakedTransport'
  <2>1. \A j \in Key : pool'[j] = IF j \in gone THEN 0 ELSE pool[j]
    BY <1>4 DEF Leave
  <2>2. \A t : t \in shut' <=> t \in shut \/ \E j \in gone : t = pool[j]
    BY <1>4 DEF Leave, ShutOf
  <2>3. ASSUME NEW t \in 1..made' PROVE t \in shut' \/ \E k \in Key : pool'[k] = t
    <3>1. t \in 1..made
      BY <1>4 DEF Leave
    <3>2. CASE t \in shut
      BY <2>2, <3>2
    <3>3. ASSUME NEW k \in Key, pool[k] = t PROVE t \in shut' \/ \E j \in Key : pool'[j] = t
      BY <2>1, <2>2, <3>3
    <3> QED BY <1>3, <3>1, <3>2, <3>3
  <2>4. ASSUME NEW k \in Key, pool'[k] # 0 PROVE pool'[k] \notin shut'
    <3>1. k \notin gone /\ pool'[k] = pool[k] /\ pool[k] # 0
      BY <2>1, <2>4
    <3>2. \A j \in gone : pool[j] # pool[k]
      BY <1>1, <3>1 DEF Pooled
    <3> QED BY <1>2, <2>2, <3>1, <3>2
  <2>5. \A k, j \in Key : pool'[k] # 0 /\ pool'[j] = pool'[k] => j = k
    BY <1>1, <2>1
  <2> QED BY <2>3, <2>4, <2>5 DEF NoLeakedTransport, Pooled
<1>5. ASSUME NEW k \in Key \ Pooled, NEW gone \in SUBSET Pooled, LeaveFor(k, gone)
      PROVE  NoLeakedTransport'
  <2>0. pool[k] = 0 /\ made \in Nat /\ k \notin gone
    BY DEF Pooled
  <2>1. \A j \in Key : pool'[j] = IF j = k THEN made + 1 ELSE IF j \in gone THEN 0 ELSE pool[j]
    BY <1>5 DEF LeaveFor, Pooled
  <2>2. \A t : t \in shut' <=> t \in shut \/ \E j \in gone : t = pool[j]
    BY <1>5 DEF LeaveFor, ShutOf
  <2>3. ASSUME NEW t \in 1..made' PROVE t \in shut' \/ \E j \in Key : pool'[j] = t
    <3>1. t \in 1..made \/ t = made + 1
      BY <1>5 DEF LeaveFor
    <3>2. CASE t = made + 1
      BY <2>1, <3>2
    <3>3. CASE t \in shut
      BY <2>2, <3>3
    <3>4. ASSUME NEW j \in Key, pool[j] = t, t \in 1..made
          PROVE  t \in shut' \/ \E i \in Key : pool'[i] = t
      <4>1. j # k
        BY <2>0, <3>4
      <4> QED BY <2>1, <2>2, <3>4, <4>1
    <3> QED BY <1>3, <3>1, <3>2, <3>3, <3>4
  <2>4. ASSUME NEW j \in Key, pool'[j] # 0 PROVE pool'[j] \notin shut'
    <3>1. CASE j = k
      <4>1. pool'[j] = made + 1
        BY <2>1, <3>1
      <4>2. \A i \in gone : pool[i] # made + 1
        <5>1. \A i \in Key : pool[i] \in 0..made
          OBVIOUS
        <5>2. gone \subseteq Key
          BY DEF Pooled
        <5> QED BY <2>0, <5>1, <5>2
      <4>3. made + 1 \notin shut
        BY <2>0
      <4> QED BY <2>2, <4>1, <4>2, <4>3
    <3>2. CASE j # k
      <4>1. j \notin gone /\ pool'[j] = pool[j] /\ pool[j] # 0
        BY <2>1, <2>4, <3>2
      <4>2. \A i \in gone : pool[i] # pool[j]
        BY <1>1, <4>1 DEF Pooled
      <4> QED BY <1>2, <2>2, <4>1, <4>2
    <3> QED BY <3>1, <3>2
  <2>5. ASSUME NEW i \in Key, NEW j \in Key, pool'[i] # 0, pool'[j] = pool'[i] PROVE j = i
    <3>1. \A l \in Key : pool[l] # made + 1
      BY <2>0
    <3> QED BY <1>1, <2>0, <2>1, <2>5, <3>1
  <2> QED BY <2>3, <2>4, <2>5 DEF NoLeakedTransport, Pooled
<1>6. ASSUME NEW k \in Key \ Pooled, NEW t, Make(k, t) PROVE NoLeakedTransport'
  <2>1. PICK gone \in SUBSET Pooled : LeaveFor(k, gone)
    BY <1>6, MakeLeaves
  <2> QED BY <1>5, <2>1
<1> QED BY <1>4, <1>6, PoolSteps

\* transport_pool.go and client_pool.go: whatever races between the locks, each
\* transport that was made serves one key or was told to close when it left.
THEOREM NothingLeaks == Spec => []NoLeakedTransport
<1>1. Init => NoLeakedTransport
  BY DEF Init, NoLeakedTransport, Pooled
<1> QED BY <1>1, LeakStep, TypesInvariant, PTL DEF Spec

-----------------------------------------------------------------------------
(* The cap, and what it costs.                                              *)

CapInv ==
    /\ IsFiniteSet(Pooled)
    /\ kind = "fingerprint" => Cardinality(Pooled) <= MaxEntries

LEMMA CapStep == TypesOK /\ KeysInv /\ KindInv /\ CapInv /\ [Next]_vars => CapInv'
<1> SUFFICES ASSUME TypesOK, KeysInv, KindInv, CapInv, [Next]_vars PROVE CapInv'
  OBVIOUS
<1> USE DEF TypesOK, CapInv
<1>0. kind' = kind
  BY DEF Next, Getting, Lookup, AskClient, Touch, FindOther, Create, GetClient, RemoveAccount,
         Close, Tick, vars
<1>1. ASSUME NEW gone \in SUBSET Pooled, Leave(gone) PROVE CapInv'
  <2>1. Pooled' \subseteq Pooled
    BY <1>1 DEF Leave, Pooled
  <2>2. IsFiniteSet(Pooled') /\ Cardinality(Pooled') <= Cardinality(Pooled)
    BY <2>1, FS_Subset
  <2>3. Cardinality(Pooled) \in Nat /\ Cardinality(Pooled') \in Nat
    BY <2>2, FS_CardinalityType
  <2> QED BY <1>0, <2>2, <2>3
<1>2. ASSUME NEW k \in Key \ Pooled, NEW t, Make(k, t), kind = "fingerprint" => k # Direct
      PROVE  CapInv'
  <2> DEFINE kept == Pooled \ CleanedAt(t)
  <2>1. PICK gone \in SUBSET Pooled :
          /\ CleanedAt(t) \subseteq gone
          /\ pool' = [j \in Key |-> IF j = k THEN made + 1
                                    ELSE IF j \in Pooled \ gone THEN pool[j] ELSE 0]
          /\ IF Full(kept) THEN gone \ CleanedAt(t) \in Evicted(kept) ELSE gone = CleanedAt(t)
    BY <1>2, MakeChanges
  <2>2. Pooled' = (Pooled \ gone) \union {k}
    BY <2>1 DEF Pooled
  <2>3. IsFiniteSet(kept) /\ Cardinality(kept) \in Nat /\ Cardinality(kept) <= Cardinality(Pooled)
    BY FS_Subset, FS_CardinalityType
  <2>4. IsFiniteSet(Pooled \ gone) /\ Cardinality(Pooled \ gone) \in Nat
    BY FS_Subset, FS_CardinalityType
  <2>5. IsFiniteSet(Pooled') /\ Cardinality(Pooled') = Cardinality(Pooled \ gone) + 1
    BY <2>2, <2>4, FS_AddElement
  <2>6. ASSUME kind = "fingerprint" PROVE Cardinality(Pooled \ gone) < MaxEntries
    <3>1. CASE ~Full(kept)
      <4>1. Pooled \ gone = kept
        BY <2>1, <3>1
      <4> QED BY <2>3, <3>1, <4>1 DEF Full
    <3>2. CASE Full(kept)
      <4>1. Direct \notin kept
        BY <2>6 DEF KeysInv, Pooled
      <4>2. PICK x \in kept : gone \ CleanedAt(t) = {x}
        BY <2>1, <3>2, <4>1 DEF Evicted, OldestOf
      <4>3. Pooled \ gone = kept \ {x}
        BY <2>1, <4>2
      <4>4. Cardinality(Pooled \ gone) = Cardinality(kept) - 1
        <5>1. x \in kept /\ IsFiniteSet(kept)
          BY <2>3, <4>2
        <5> HIDE DEF kept
        <5>2. Cardinality(kept \ {x}) = Cardinality(kept) - 1
          BY <5>1, FS_RemoveElement
        <5> QED BY <4>3, <5>2
      <4>5. Cardinality(Pooled) <= MaxEntries /\ Cardinality(Pooled) \in Nat
        BY <2>6, FS_CardinalityType
      <4> QED BY <2>3, <2>4, <4>4, <4>5
    <3> QED BY <3>1, <3>2
  <2> QED BY <1>0, <2>4, <2>5, <2>6
<1> QED BY <1>1, <1>2, PoolSteps

\* Types for any constants, and the cap of the pool of fingerprint transports.
THEOREM PoolTypes == Spec => []TypeOK
<1>1. Init => CapInv
  <2> SUFFICES ASSUME Init PROVE CapInv
    OBVIOUS
  <2>1. Pooled = {}
    BY DEF Init, Pooled
  <2> QED BY <2>1, FS_EmptySet DEF CapInv
<1>2. TypesOK /\ CapInv => TypeOK
  BY DEF TypesOK, CapInv, TypeOK
<1> QED BY <1>1, <1>2, CapStep, TypesInvariant, PTL DEF Spec

LEMMA MakeCostsOldest ==
    ASSUME TypesOK, NEW n \in Key \ Pooled, NEW t \in Nat, Make(n, t), pool[Direct] = 0,
           NEW a \in Pooled, NEW b \in Pooled, pool'[a] = 0, pool'[b] # 0
    PROVE  used[a] <= used[b]
<1> DEFINE kept == Pooled \ CleanedAt(t)
<1>1. PICK gone \in SUBSET Pooled :
        /\ CleanedAt(t) \subseteq gone
        /\ pool' = [j \in Key |-> IF j = n THEN made + 1
                                  ELSE IF j \in Pooled \ gone THEN pool[j] ELSE 0]
        /\ IF Full(kept) THEN gone \ CleanedAt(t) \in Evicted(kept) ELSE gone = CleanedAt(t)
  BY MakeChanges
<1>2. a \in Key /\ b \in Key /\ a # n /\ b # n
  BY DEF Pooled
<1>3. a \in gone /\ b \notin gone /\ b \in kept
  BY <1>1, <1>2 DEF Pooled
<1>4. used[a] \in Nat /\ used[b] \in Nat
  BY <1>2 DEF TypesOK
<1>5. CASE a \in CleanedAt(t)
  BY <1>3, <1>4, <1>5 DEF CleanedAt
<1>6. CASE a \notin CleanedAt(t)
  <2>1. Full(kept) /\ gone \ CleanedAt(t) \in Evicted(kept)
    BY <1>1, <1>3, <1>6
  <2>2. Direct \notin kept
    BY DEF Pooled
  <2>3. a \in OldestOf(kept)
    BY <1>3, <1>6, <2>1, <2>2 DEF Evicted
  <2> QED BY <1>3, <2>3 DEF OldestOf
<1> QED BY <1>5, <1>6

\* deleteOldestLocked and cleanupIdleLocked: without an entry under the empty key,
\* the cost of a new transport are entries no younger one of which stays behind.
THEOREM ProxiedEvictsOldest == Spec => EvictsOldestProxied
<1>1. TypesOK /\ KeysInv /\ KindInv /\ [Next]_vars => (pool[Direct] = 0 => MakingCostsOldest)
  <2> SUFFICES ASSUME TypesOK, KeysInv, KindInv, [Next]_vars, pool[Direct] = 0, made' # made,
                      NEW k \in Key, NEW j \in Key,
                      pool[k] # 0, pool'[k] = 0, pool[j] # 0, pool'[j] = pool[j]
               PROVE  used[k] <= used[j]
    BY DEF MakingCostsOldest
  <2>1. PICK n \in Key \ Pooled, g \in Goroutine : Make(n, at[g])
    BY PoolSteps DEF Leave
  <2>2. at[g] \in Nat
    BY DEF TypesOK
  <2>3. k \in Pooled /\ j \in Pooled /\ pool'[j] # 0
    BY DEF Pooled
  <2> QED BY <2>1, <2>2, <2>3, MakeCostsOldest
<1> QED BY <1>1, TypesInvariant, PTL DEF Spec, EvictsOldestProxied
=============================================================================
