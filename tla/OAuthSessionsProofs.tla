------------------------- MODULE OAuthSessionsProofs -------------------------
(***************************************************************************)
(* For any number of state strings, goroutines and map entries: the types    *)
(* and the cap of OAuthSessions, and that the store implements               *)
(* OneTimeTickets.  The ownership invariant below says that a state string   *)
(* is at one place at a time: with the goroutine that files it, in the       *)
(* store, with the one callback that consumed it, or spent.                  *)
(***************************************************************************)
EXTENDS OAuthSessions, FiniteSetTheorems, TLAPS

TypeInv ==
    /\ now \in 0..MaxTime
    /\ sessions \subseteq generated /\ generated \subseteq State
    /\ created \in [State -> 0..MaxTime]
    /\ pc \in [Worker -> {"idle", "set", "check"}]
    /\ holds \in [Worker -> State]
    /\ offered \subseteq generated /\ taken \subseteq generated
    /\ exchanges \in [State -> Nat]

\* A session being filed is new.
FiledInv == \A w \in Worker : pc[w] = "set" =>
                /\ holds[w] \in generated
                /\ holds[w] \notin sessions /\ holds[w] \notin taken
                /\ exchanges[holds[w]] = 0

\* A consumed session has left the store and is not yet spent.
ConsumedInv == \A w \in Worker : pc[w] = "check" =>
                /\ holds[w] \in taken /\ holds[w] \notin sessions
                /\ exchanges[holds[w]] = 0

StoredInv == \A s \in sessions : s \notin taken /\ exchanges[s] = 0

SoleOwner == \A v, w \in Worker :
                pc[v] # "idle" /\ pc[w] # "idle" /\ holds[v] = holds[w] => v = w

UnknownInv == \A s \in State \ generated : exchanges[s] = 0

OwnerInv == TypeInv /\ FiledInv /\ ConsumedInv /\ StoredInv /\ SoleOwner /\ UnknownInv

-----------------------------------------------------------------------------

LEMMA InitOwner == Init => OwnerInv
  BY SessionsAssumption DEF Init, OwnerInv, TypeInv, FiledInv, ConsumedInv, StoredInv, SoleOwner,
     UnknownInv

\* cleanExpiredLocked only deletes.
LEMMA UnexpiredSubset == Unexpired \subseteq sessions
  BY DEF Unexpired

LEMMA StartOwner ==
    ASSUME OwnerInv, NEW w \in Worker, StartOAuth(w)
    PROVE  OwnerInv'
  <1>1. PICK s \in State \ generated :
           /\ generated' = generated \union {s}
           /\ created' = [created EXCEPT ![s] = now]
           /\ holds' = [holds EXCEPT ![w] = s]
    BY DEF StartOAuth
  <1>2. pc[w] = "idle" /\ pc' = [pc EXCEPT ![w] = "set"] /\ sessions' \subseteq sessions
        /\ UNCHANGED <<now, offered, taken, exchanges>>
    BY UnexpiredSubset DEF StartOAuth, Goes
  <1>3. TypeInv'
    BY <1>1, <1>2 DEF OwnerInv, TypeInv
  <1>4. s \notin sessions /\ s \notin taken /\ exchanges[s] = 0
    BY DEF OwnerInv, TypeInv, UnknownInv
  <1>5. FiledInv'
    BY <1>1, <1>2, <1>4 DEF OwnerInv, TypeInv, FiledInv
  <1>6. ConsumedInv'
    BY <1>1, <1>2 DEF OwnerInv, TypeInv, ConsumedInv
  <1>7. StoredInv' /\ UnknownInv'
    BY <1>1, <1>2 DEF OwnerInv, TypeInv, StoredInv, UnknownInv
  <1>8. \A v \in Worker : pc[v] # "idle" => holds[v] # s
    BY <1>1 DEF OwnerInv, TypeInv, FiledInv, ConsumedInv
  <1>9. SoleOwner'
    BY <1>1, <1>2, <1>8 DEF OwnerInv, TypeInv, SoleOwner
  <1>10. QED  BY <1>3, <1>5, <1>6, <1>7, <1>9 DEF OwnerInv

\* Filing: what is in the store afterwards was there, or is the new session.
LEMMA FileOwner ==
    ASSUME OwnerInv, NEW w \in Worker, pc[w] = "set",
           sessions' \subseteq sessions \union {holds[w]},
           offered' \subseteq offered \union {holds[w]},
           pc' = [pc EXCEPT ![w] = "idle"],
           UNCHANGED <<now, created, holds, generated, taken, exchanges>>
    PROVE  OwnerInv'
  <1>1. TypeInv'
    BY DEF OwnerInv, TypeInv, FiledInv
  <1>2. \A v \in Worker : pc'[v] # "idle" => pc'[v] = pc[v] /\ v # w
    BY DEF OwnerInv, TypeInv
  <1>3. \A v \in Worker : pc'[v] # "idle" => holds[v] # holds[w]
    BY <1>2 DEF OwnerInv, SoleOwner
  <1>4. FiledInv' /\ ConsumedInv'
    BY <1>2, <1>3 DEF OwnerInv, FiledInv, ConsumedInv
  <1>5. StoredInv'
    BY DEF OwnerInv, StoredInv, FiledInv
  <1>6. SoleOwner' /\ UnknownInv'
    BY <1>2 DEF OwnerInv, SoleOwner, UnknownInv
  <1>7. QED  BY <1>1, <1>4, <1>5, <1>6 DEF OwnerInv

LEMMA SetOwner ==
    ASSUME OwnerInv, NEW w \in Worker, Set(w) \/ SetShared(w) \/ SetSharedFails(w)
    PROVE  OwnerInv'
  <1>1. sessions' \subseteq sessions \union {holds[w]}
    BY UnexpiredSubset DEF Set, SetShared, SetSharedFails
  <1>2. offered' \subseteq offered \union {holds[w]}
    BY DEF Set, SetShared, SetSharedFails, histVars
  <1>3. /\ pc[w] = "set" /\ pc' = [pc EXCEPT ![w] = "idle"]
        /\ UNCHANGED <<now, created, holds, generated, taken, exchanges>>
    BY DEF Set, SetShared, SetSharedFails, Goes, histVars
  <1>4. QED  BY <1>1, <1>2, <1>3, FileOwner

LEMMA ConsumeOwner ==
    ASSUME OwnerInv, NEW w \in Worker, NEW s \in State, Consume(w, s) \/ TakeLost(w, s)
    PROVE  OwnerInv'
  <1>1. /\ s \in sessions /\ sessions' = sessions \ {s} /\ taken' = taken \union {s}
        /\ pc[w] = "idle"
        /\ UNCHANGED <<now, created, generated, offered, exchanges>>
    BY DEF Consume, TakeLost, Removed
  <1>2. \A v \in Worker : pc[v] # "idle" => holds[v] # s
    BY <1>1 DEF OwnerInv, TypeInv, FiledInv, ConsumedInv
  <1>3. s \in generated /\ exchanges[s] = 0
    BY <1>1 DEF OwnerInv, TypeInv, StoredInv
  <1>4. StoredInv' /\ UnknownInv'
    BY <1>1 DEF OwnerInv, StoredInv, UnknownInv
  <1>5. CASE Consume(w, s)
    <2>1. pc' = [pc EXCEPT ![w] = "check"] /\ holds' = [holds EXCEPT ![w] = s]
      BY <1>5 DEF Consume, Goes
    <2>2. TypeInv'
      BY <1>1, <1>3, <2>1 DEF OwnerInv, TypeInv
    <2>3. FiledInv'
      BY <1>1, <1>2, <2>1 DEF OwnerInv, TypeInv, FiledInv
    <2>4. ConsumedInv'
      BY <1>1, <1>3, <2>1 DEF OwnerInv, TypeInv, ConsumedInv
    <2>5. SoleOwner'
      BY <1>1, <1>2, <2>1 DEF OwnerInv, TypeInv, SoleOwner
    <2>6. QED  BY <1>4, <2>2, <2>3, <2>4, <2>5 DEF OwnerInv
  <1>6. CASE TakeLost(w, s)
    <2>1. UNCHANGED <<pc, holds>>
      BY <1>6 DEF TakeLost, workerVars
    <2>2. TypeInv' /\ FiledInv' /\ ConsumedInv' /\ SoleOwner'
      BY <1>1, <1>2, <1>3, <2>1 DEF OwnerInv, TypeInv, FiledInv, ConsumedInv, SoleOwner
    <2>3. QED  BY <1>4, <2>2 DEF OwnerInv
  <1>7. QED  BY <1>5, <1>6

LEMMA ExchangeOwner ==
    ASSUME OwnerInv, NEW w \in Worker, Exchange(w)
    PROVE  OwnerInv'
  <1>1. /\ pc[w] = "check" /\ pc' = [pc EXCEPT ![w] = "idle"]
        /\ exchanges' = [exchanges EXCEPT ![holds[w]] = @ + 1]
        /\ UNCHANGED <<now, sessions, created, holds, generated, offered, taken>>
    BY DEF Exchange, Goes, storeVars
  <1>2. TypeInv'
    BY <1>1 DEF OwnerInv, TypeInv
  <1>3. \A v \in Worker : pc'[v] # "idle" => pc'[v] = pc[v] /\ holds[v] # holds[w]
    BY <1>1 DEF OwnerInv, TypeInv, SoleOwner
  <1>4. FiledInv' /\ ConsumedInv'
    BY <1>1, <1>3 DEF OwnerInv, TypeInv, FiledInv, ConsumedInv
  <1>5. holds[w] \in generated /\ holds[w] \notin sessions
    BY <1>1 DEF OwnerInv, TypeInv, ConsumedInv
  <1>6. StoredInv' /\ UnknownInv'
    BY <1>1, <1>5 DEF OwnerInv, TypeInv, StoredInv, UnknownInv
  <1>7. SoleOwner'
    BY <1>1, <1>3 DEF OwnerInv, SoleOwner
  <1>8. QED  BY <1>2, <1>4, <1>6, <1>7 DEF OwnerInv

\* Workers that leave, with or without the store, and time.
LEMMA QuietOwner ==
    ASSUME OwnerInv,
           sessions' \subseteq sessions, offered' \subseteq offered, now' \in 0..MaxTime,
           pc' \in [Worker -> {"idle", "set", "check"}],
           \A v \in Worker : pc'[v] \in {"idle", pc[v]},
           UNCHANGED <<created, holds, generated, taken, exchanges>>
    PROVE  OwnerInv'
  <1>1. TypeInv'
    BY DEF OwnerInv, TypeInv
  <1>2. FiledInv' /\ ConsumedInv' /\ StoredInv'
    BY DEF OwnerInv, FiledInv, ConsumedInv, StoredInv
  <1>3. SoleOwner' /\ UnknownInv'
    BY DEF OwnerInv, SoleOwner, UnknownInv
  <1>4. QED  BY <1>1, <1>2, <1>3 DEF OwnerInv

LEMMA NextOwner == OwnerInv /\ [Next]_vars => OwnerInv'
  <1> SUFFICES ASSUME OwnerInv, [Next]_vars PROVE OwnerInv'
    OBVIOUS
  <1>t. TypeInv
    BY DEF OwnerInv
  <1>1. ASSUME NEW w \in Worker, Starting(w) PROVE OwnerInv'
    BY <1>1, StartOwner, SetOwner DEF Starting
  <1>2. ASSUME NEW w \in Worker, Refuse(w) PROVE OwnerInv'
    <2>1. /\ pc' = [pc EXCEPT ![w] = "idle"]
          /\ UNCHANGED <<now, sessions, created, holds, generated, offered, taken, exchanges>>
      BY <1>2 DEF Refuse, Goes, storeVars, histVars
    <2>2. /\ pc' \in [Worker -> {"idle", "set", "check"}]
          /\ \A v \in Worker : pc'[v] \in {"idle", pc[v]}
      BY <1>t, <2>1 DEF TypeInv
    <2>3. QED  BY <1>t, <2>1, <2>2, QuietOwner DEF TypeInv
  <1>3. ASSUME NEW w \in Worker, CallingBack(w) PROVE OwnerInv'
    BY <1>2, <1>3, ExchangeOwner, ConsumeOwner DEF CallingBack
  <1>4. ASSUME NEW gone \in SUBSET Worker, Restart(gone) PROVE OwnerInv'
    <2>1. /\ pc' = [w \in Worker |-> IF w \in gone THEN "idle" ELSE pc[w]]
          /\ sessions' \subseteq sessions /\ offered' \subseteq offered
          /\ UNCHANGED <<now, created, holds, generated, taken, exchanges>>
      BY <1>4 DEF Restart, Survivors
    <2>2. /\ pc' \in [Worker -> {"idle", "set", "check"}]
          /\ \A v \in Worker : pc'[v] \in {"idle", pc[v]}
      BY <1>t, <2>1 DEF TypeInv
    <2>3. QED  BY <1>t, <2>1, <2>2, QuietOwner DEF TypeInv
  <1>5. ASSUME Tick PROVE OwnerInv'
    <2>1. now' \in 0..MaxTime
      BY <1>5, <1>t, SessionsAssumption DEF Tick, TypeInv
    <2>2. UNCHANGED <<sessions, created, pc, holds, generated, offered, taken, exchanges>>
      BY <1>5 DEF Tick, storeVars, workerVars, histVars
    <2>3. QED  BY <1>t, <2>1, <2>2, QuietOwner DEF TypeInv
  <1>6. ASSUME UNCHANGED vars PROVE OwnerInv'
    <2>1. UNCHANGED <<now, sessions, created, pc, holds, generated, offered, taken, exchanges>>
      BY <1>6 DEF vars, storeVars, workerVars, histVars
    <2>2. QED  BY <1>t, <2>1, QuietOwner DEF TypeInv
  <1>7. QED  BY <1>1, <1>3, <1>4, <1>5, <1>6 DEF Next

LEMMA OwnerAlways == Spec => []OwnerInv
  BY InitOwner, NextOwner, PTL DEF Spec

-----------------------------------------------------------------------------
(* The cap of the process's own map.                                        *)

CapInv ==
    /\ shared \in BOOLEAN
    /\ ~shared => IsFiniteSet(sessions) /\ Cardinality(sessions) <= MaxEntries

LEMMA KindStays == [Next]_vars => UNCHANGED shared
  BY DEF Next, Starting, CallingBack, StartOAuth, Set, SetShared, SetSharedFails, Consume,
     TakeLost, Exchange, Refuse, Restart, Tick, vars

LEMMA SmallerStillCapped ==
    ASSUME CapInv, UNCHANGED shared, sessions' \subseteq sessions
    PROVE  CapInv'
  <1>1. CASE shared
    BY <1>1 DEF CapInv
  <1>2. CASE ~shared
    <2>1. IsFiniteSet(sessions) /\ Cardinality(sessions) <= MaxEntries
      BY <1>2 DEF CapInv
    <2>2. IsFiniteSet(sessions') /\ Cardinality(sessions') <= Cardinality(sessions)
      BY <2>1, FS_Subset
    <2>3. Cardinality(sessions) \in Nat /\ Cardinality(sessions') \in Nat
      BY <2>1, <2>2, FS_CardinalityType
    <2>4. QED  BY <2>1, <2>2, <2>3, SessionsAssumption DEF CapInv
  <1>3. QED  BY <1>1, <1>2

\* Set cleans up before it looks at the cap, and evicts before it inserts.
LEMMA SetCapped ==
    ASSUME CapInv, UNCHANGED shared, NEW w \in Worker, Set(w)
    PROVE  CapInv'
  <1>1. ~shared /\ IsFiniteSet(sessions) /\ Cardinality(sessions) <= MaxEntries
    BY DEF Set, CapInv
  <1>2. IsFiniteSet(Unexpired) /\ Cardinality(Unexpired) <= Cardinality(sessions)
    BY <1>1, UnexpiredSubset, FS_Subset
  <1>3. /\ Cardinality(Unexpired) \in Nat /\ Cardinality(sessions) \in Nat
        /\ Cardinality(Unexpired) <= MaxEntries /\ MaxEntries \in Nat
    BY <1>1, <1>2, FS_CardinalityType, SessionsAssumption
  <1>4. CASE ~Full(Unexpired) /\ sessions' = Unexpired \union {holds[w]}
    <2>1. /\ IsFiniteSet(sessions')
          /\ \/ Cardinality(sessions') = Cardinality(Unexpired)
             \/ Cardinality(sessions') = Cardinality(Unexpired) + 1
      BY <1>2, <1>4, FS_AddElement
    <2>2. Cardinality(Unexpired) < MaxEntries
      BY <1>3, <1>4 DEF Full
    <2>3. QED  BY <1>3, <2>1, <2>2 DEF CapInv
  <1>5. CASE \E s \in Oldest(Unexpired) : sessions' = (Unexpired \ {s}) \union {holds[w]}
    <2>1. PICK s \in Unexpired : sessions' = (Unexpired \ {s}) \union {holds[w]}
      BY <1>5 DEF Oldest
    <2>2. IsFiniteSet(Unexpired \ {s}) /\ Cardinality(Unexpired \ {s}) = Cardinality(Unexpired) - 1
      BY <1>2, <2>1, FS_RemoveElement
    <2>3. /\ IsFiniteSet(sessions')
          /\ \/ Cardinality(sessions') = Cardinality(Unexpired \ {s})
             \/ Cardinality(sessions') = Cardinality(Unexpired \ {s}) + 1
      BY <2>1, <2>2, FS_AddElement
    <2>4. QED  BY <1>3, <2>2, <2>3 DEF CapInv
  <1>6. QED  BY <1>4, <1>5 DEF Set

LEMMA SharedCapped == CapInv /\ UNCHANGED shared /\ shared => CapInv'
  BY DEF CapInv

LEMMA NextCapped == CapInv /\ [Next]_vars => CapInv'
  <1> SUFFICES ASSUME CapInv, [Next]_vars PROVE CapInv'
    OBVIOUS
  <1>0. UNCHANGED shared
    BY KindStays
  <1>1. ASSUME NEW w \in Worker, Starting(w) PROVE CapInv'
    <2>1. CASE StartOAuth(w)
      BY <2>1, <1>0, UnexpiredSubset, SmallerStillCapped DEF StartOAuth
    <2>2. CASE Set(w)
      BY <2>2, <1>0, SetCapped
    <2>3. CASE SetShared(w) \/ SetSharedFails(w)
      BY <2>3, <1>0, SharedCapped DEF SetShared, SetSharedFails
    <2>4. QED  BY <1>1, <2>1, <2>2, <2>3 DEF Starting
  <1>2. ASSUME NEW w \in Worker, CallingBack(w) PROVE CapInv'
    <2>1. sessions' \subseteq sessions
      BY <1>2 DEF CallingBack, Exchange, Refuse, Consume, TakeLost, Removed, storeVars
    <2>2. QED  BY <2>1, <1>0, SmallerStillCapped
  <1>3. ASSUME NEW gone \in SUBSET Worker, Restart(gone) PROVE CapInv'
    BY <1>3, <1>0, SmallerStillCapped DEF Restart, Survivors
  <1>4. ASSUME Tick \/ UNCHANGED vars PROVE CapInv'
    BY <1>4, <1>0, SmallerStillCapped DEF Tick, vars, storeVars
  <1>5. QED  BY <1>1, <1>2, <1>3, <1>4 DEF Next

\* Types, and the map never outgrows oauthSessionMaxEntries, however many
\* goroutines set and consume sessions at once.
THEOREM SessionTypes == Spec => []TypeOK
  <1>1. Init => CapInv
    BY FS_EmptySet, SessionsAssumption DEF Init, CapInv
  <1>2. OwnerInv /\ CapInv => TypeOK
    BY DEF OwnerInv, TypeInv, CapInv, TypeOK
  <1>3. QED  BY <1>1, <1>2, OwnerAlways, NextCapped, PTL DEF Spec

-----------------------------------------------------------------------------
(* The refinement.  Where a state string is decides what its ticket is.      *)

LEMMA RedeemedTicket ==
    ASSUME NEW s \in State, exchanges[s] \in Nat, exchanges[s] > 0
    PROVE  TicketOf(s) = "redeemed"
  BY DEF TicketOf

LEMMA OpenTicket ==
    ASSUME NEW s \in State, exchanges[s] = 0, s \in sessions \/ At(s, "check")
    PROVE  TicketOf(s) = "open"
  BY DEF TicketOf, At

LEMMA NoTicket ==
    ASSUME NEW s \in State, exchanges[s] = 0, s \notin sessions, ~At(s, "check"),
           s \notin generated \/ At(s, "set")
    PROVE  TicketOf(s) = "none"
  BY DEF TicketOf, At

LEMMA VoidTicket ==
    ASSUME NEW s \in State, exchanges[s] = 0, s \notin sessions, ~At(s, "check"),
           s \in generated, ~At(s, "set")
    PROVE  TicketOf(s) = "void"
  BY DEF TicketOf, At

\* The refinement holds step by step if every ticket moves as it may.
LEMMA VoidStep ==
    ASSUME UNCHANGED exchanges,
           \A s \in State : \/ TicketOf(s)' = TicketOf(s)
                            \/ TicketOf(s) \in {"none", "open"} /\ TicketOf(s)' = "void"
    PROVE  Tickets!Next
  <1> DEFINE gone == {s \in State : TicketOf(s) \in {"none", "open"} /\ TicketOf(s)' = "void"}
  <1>1. gone \in SUBSET State
    OBVIOUS
  <1>2. [s \in State |-> TicketOf(s)'] =
           [x \in State |-> IF x \in gone THEN "void" ELSE TicketOf(x)]
    OBVIOUS
  <1>3. Tickets!Void(gone)
    BY <1>2 DEF Tickets!Void
  <1>4. QED  BY <1>1, <1>3 DEF Tickets!Next

\* Where things are: facts of OwnerInv about one state string.
LEMMA Whereabouts ==
    ASSUME OwnerInv, NEW s \in State
    PROVE  /\ exchanges[s] \in Nat
           /\ s \in sessions => s \in generated /\ exchanges[s] = 0 /\ ~At(s, "set") /\ ~At(s, "check")
           /\ At(s, "check") => s \in generated /\ exchanges[s] = 0 /\ s \notin sessions /\ ~At(s, "set")
           /\ At(s, "set") => s \in generated /\ exchanges[s] = 0 /\ s \notin sessions /\ ~At(s, "check")
  BY DEF OwnerInv, TypeInv, FiledInv, ConsumedInv, StoredInv, SoleOwner, At

LEMMA StartTicket ==
    ASSUME OwnerInv, NEW w \in Worker, StartOAuth(w)
    PROVE  Tickets!Next
  <1>1. PICK n \in State \ generated :
           /\ generated' = generated \union {n}
           /\ holds' = [holds EXCEPT ![w] = n]
    BY DEF StartOAuth
  <1>2. pc[w] = "idle" /\ pc' = [pc EXCEPT ![w] = "set"] /\ sessions' \subseteq sessions
        /\ UNCHANGED exchanges
    BY UnexpiredSubset DEF StartOAuth, Goes
  <1>3. \A v \in Worker : v # w => pc'[v] = pc[v] /\ holds'[v] = holds[v]
    BY <1>1, <1>2 DEF OwnerInv, TypeInv
  <1>4. pc'[w] = "set" /\ holds'[w] = n
    BY <1>1, <1>2 DEF OwnerInv, TypeInv
  <1>5. ASSUME NEW s \in State PROVE \/ TicketOf(s)' = TicketOf(s)
                                     \/ TicketOf(s) \in {"none", "open"} /\ TicketOf(s)' = "void"
    <2>1. At(s, "check")' <=> At(s, "check")
      BY <1>2, <1>3, <1>4 DEF At
    <2>2. s # n => (At(s, "set")' <=> At(s, "set"))
      BY <1>2, <1>3, <1>4 DEF At
    <2>3. CASE s = n
      <3>1. At(s, "set")'
        BY <1>4, <2>3 DEF At
      <3>2. s \notin sessions /\ s \notin sessions' /\ s \notin generated /\ ~At(s, "check")
        BY <1>1, <1>2, <2>3, Whereabouts
      <3>3. exchanges[s] = 0 /\ exchanges'[s] = 0
        BY <1>1, <1>2, <2>3 DEF OwnerInv, UnknownInv
      <3>4. QED  BY <2>1, <3>1, <3>2, <3>3 DEF TicketOf
    <2>4. CASE s # n /\ s \in sessions /\ s \notin sessions'
      BY <1>1, <1>2, <2>1, <2>2, <2>4, Whereabouts DEF TicketOf
    <2>5. CASE s # n /\ (s \in sessions <=> s \in sessions')
      BY <1>1, <1>2, <2>1, <2>2, <2>5 DEF TicketOf
    <2>6. QED  BY <1>2, <2>3, <2>4, <2>5
  <1>6. QED  BY <1>2, <1>5, VoidStep

\* Filing opens the ticket of the new session and may void others.
LEMMA FileTicket ==
    ASSUME OwnerInv, NEW w \in Worker, pc[w] = "set",
           sessions' \subseteq sessions \union {holds[w]}, holds[w] \in sessions',
           pc' = [pc EXCEPT ![w] = "idle"],
           UNCHANGED <<holds, generated, exchanges>>
    PROVE  Tickets!Next
  <1> DEFINE n == holds[w]
             gone == sessions \ sessions'
  <1>1. n \in State /\ gone \in SUBSET State
    BY DEF OwnerInv, TypeInv
  <1>2. At(n, "set")
    BY DEF At
  <1>3. n \in generated /\ exchanges[n] = 0 /\ n \notin sessions /\ ~At(n, "check")
    BY <1>1, <1>2, Whereabouts
  <1>4. TicketOf(n) = "none" /\ TicketOf(n)' = "open"
    BY <1>2, <1>3 DEF TicketOf
  <1>5. \A v \in Worker : v # w => pc'[v] = pc[v] /\ (pc[v] # "idle" => holds[v] # n)
    BY DEF OwnerInv, TypeInv, SoleOwner
  <1>6. pc'[w] = "idle"
    BY DEF OwnerInv, TypeInv
  <1>7. ASSUME NEW s \in State, s # n
        PROVE  TicketOf(s)' = IF s \in gone THEN "void" ELSE TicketOf(s)
    <2>1. At(s, "check")' <=> At(s, "check")
      BY <1>5, <1>6 DEF At
    <2>2. At(s, "set")' <=> At(s, "set")
      BY <1>5, <1>6, <1>7 DEF At
    <2>3. CASE s \in gone
      BY <1>7, <2>1, <2>2, <2>3, Whereabouts DEF TicketOf
    <2>4. CASE s \notin gone
      BY <1>7, <2>1, <2>2, <2>4 DEF TicketOf
    <2>5. QED  BY <2>3, <2>4
  <1>8. \A g \in gone : TicketOf(g) = "open"
    BY Whereabouts, <1>1 DEF TicketOf
  <1>9. [s \in State |-> TicketOf(s)'] =
           [x \in State |-> IF x = n THEN "open" ELSE IF x \in gone THEN "void" ELSE TicketOf(x)]
    BY <1>4, <1>7
  <1>10. Tickets!Open(n, gone)
    BY <1>1, <1>4, <1>8, <1>9 DEF Tickets!Open
  <1>11. QED  BY <1>1, <1>10 DEF Tickets!Next

\* A goroutine that holds a state string lets go of it.
LEMMA DropTicket ==
    ASSUME OwnerInv,
           sessions' \subseteq sessions,
           \A v \in Worker : pc'[v] \in {"idle", pc[v]},
           UNCHANGED <<holds, generated, exchanges>>
    PROVE  Tickets!Next
  <1>1. ASSUME NEW s \in State PROVE \/ TicketOf(s)' = TicketOf(s)
                                     \/ TicketOf(s) \in {"none", "open"} /\ TicketOf(s)' = "void"
    <2>1. (At(s, "check")' => At(s, "check")) /\ (At(s, "set")' => At(s, "set"))
      BY DEF At
    <2>2. QED  BY <2>1, Whereabouts DEF TicketOf
  <1>2. QED  BY <1>1, VoidStep

LEMMA SetTicket ==
    ASSUME OwnerInv, NEW w \in Worker, Set(w) \/ SetShared(w) \/ SetSharedFails(w)
    PROVE  Tickets!Next
  <1>1. /\ pc[w] = "set" /\ pc' = [pc EXCEPT ![w] = "idle"]
        /\ UNCHANGED <<holds, generated, exchanges>>
        /\ sessions' \subseteq sessions \union {holds[w]}
    BY UnexpiredSubset DEF Set, SetShared, SetSharedFails, Goes, histVars
  <1>2. CASE holds[w] \in sessions'
    BY <1>1, <1>2, FileTicket
  <1>3. CASE holds[w] \notin sessions'
    <2>1. \A v \in Worker : pc'[v] \in {"idle", pc[v]}
      BY <1>1 DEF OwnerInv, TypeInv
    <2>2. QED  BY <1>1, <1>3, <2>1, DropTicket
  <1>4. QED  BY <1>2, <1>3

LEMMA ConsumeTicket ==
    ASSUME OwnerInv, NEW w \in Worker, NEW n \in State, Consume(w, n) \/ TakeLost(w, n)
    PROVE  Tickets!Next
  <1>1. n \in sessions /\ sessions' = sessions \ {n} /\ pc[w] = "idle"
        /\ UNCHANGED <<generated, exchanges>>
    BY DEF Consume, TakeLost, Removed
  <1>2. CASE TakeLost(w, n)
    BY <1>1, <1>2, DropTicket DEF TakeLost, workerVars
  <1>3. CASE Consume(w, n)
    <2>1. pc' = [pc EXCEPT ![w] = "check"] /\ holds' = [holds EXCEPT ![w] = n]
      BY <1>3 DEF Consume, Goes
    <2>2. /\ \A v \in Worker : v # w => pc'[v] = pc[v] /\ holds'[v] = holds[v]
          /\ pc'[w] = "check" /\ holds'[w] = n
      BY <2>1 DEF OwnerInv, TypeInv
    <2>3. ASSUME NEW s \in State PROVE TicketOf(s)' = TicketOf(s)
      <3>1. At(s, "set")' <=> At(s, "set")
        BY <1>1, <2>2 DEF At
      <3>2. CASE s = n
        BY <1>1, <2>2, <3>2, Whereabouts DEF TicketOf, At
      <3>3. CASE s # n
        <4>1. At(s, "check")' <=> At(s, "check")
          BY <1>1, <2>2, <3>3 DEF At
        <4>2. QED  BY <1>1, <3>1, <3>3, <4>1 DEF TicketOf
      <3>4. QED  BY <3>2, <3>3
    <2>4. QED  BY <1>1, <2>3, VoidStep
  <1>4. QED  BY <1>2, <1>3

LEMMA ExchangeTicket ==
    ASSUME OwnerInv, NEW w \in Worker, Exchange(w)
    PROVE  Tickets!Next
  <1>0. PICK n \in State : n = holds[w]
    BY DEF OwnerInv, TypeInv
  <1>1. /\ pc[w] = "check" /\ pc' = [pc EXCEPT ![w] = "idle"]
        /\ exchanges' = [exchanges EXCEPT ![n] = @ + 1]
        /\ UNCHANGED <<sessions, holds, generated>>
    BY <1>0 DEF Exchange, Goes, storeVars
  <1>2. n \in State /\ At(n, "check")
    BY <1>0, <1>1 DEF OwnerInv, TypeInv, At
  <1>3. exchanges[n] = 0
    BY <1>2, Whereabouts
  <1>4. TicketOf(n) = "open"
    BY <1>2, <1>3 DEF TicketOf
  <1>5. exchanges'[n] = 1
    BY <1>1, <1>2, <1>3 DEF OwnerInv, TypeInv
  <1>6. TicketOf(n)' = "redeemed"
    BY <1>5 DEF TicketOf
  <1>7. /\ \A v \in Worker : v # w => pc'[v] = pc[v] /\ (pc[v] # "idle" => holds[v] # n)
        /\ pc'[w] = "idle"
    BY <1>0, <1>1 DEF OwnerInv, TypeInv, SoleOwner
  <1>8. ASSUME NEW s \in State, s # n PROVE TicketOf(s)' = TicketOf(s)
    <2>1. (At(s, "check")' <=> At(s, "check")) /\ (At(s, "set")' <=> At(s, "set"))
      BY <1>0, <1>1, <1>7, <1>8 DEF At
    <2>2. exchanges'[s] = exchanges[s]
      BY <1>1, <1>8 DEF OwnerInv, TypeInv
    <2>3. QED  BY <1>1, <2>1, <2>2 DEF TicketOf
  <1>9. [s \in State |-> TicketOf(s)'] =
           [[s \in State |-> TicketOf(s)] EXCEPT ![n] = "redeemed"]
    BY <1>2, <1>6, <1>8
  <1>10. Tickets!Redeem(n)
    BY <1>1, <1>2, <1>4, <1>9 DEF Tickets!Redeem
  <1>11. QED  BY <1>2, <1>10 DEF Tickets!Next

LEMMA NextTicket ==
    OwnerInv /\ [Next]_vars => [Tickets!Next]_(<<[s \in State |-> TicketOf(s)], exchanges>>)
  <1> SUFFICES ASSUME OwnerInv, [Next]_vars
               PROVE  Tickets!Next \/ UNCHANGED <<[s \in State |-> TicketOf(s)], exchanges>>
    OBVIOUS
  <1>1. ASSUME NEW w \in Worker, Starting(w) PROVE Tickets!Next
    BY <1>1, StartTicket, SetTicket DEF Starting
  <1>2. ASSUME NEW w \in Worker, Refuse(w) PROVE Tickets!Next
    <2>1. pc' = [pc EXCEPT ![w] = "idle"] /\ UNCHANGED <<sessions, holds, generated, exchanges>>
      BY <1>2 DEF Refuse, Goes, storeVars, histVars
    <2>2. \A v \in Worker : pc'[v] \in {"idle", pc[v]}
      BY <2>1 DEF OwnerInv, TypeInv
    <2>3. QED  BY <2>1, <2>2, DropTicket
  <1>3. ASSUME NEW w \in Worker, CallingBack(w) PROVE Tickets!Next
    BY <1>2, <1>3, ExchangeTicket, ConsumeTicket DEF CallingBack
  <1>4. ASSUME NEW gone \in SUBSET Worker, Restart(gone) PROVE Tickets!Next
    <2>1. sessions' \subseteq sessions /\ UNCHANGED <<holds, generated, exchanges>>
      BY <1>4 DEF Restart, Survivors
    <2>2. \A v \in Worker : pc'[v] \in {"idle", pc[v]}
      BY <1>4 DEF Restart
    <2>3. QED  BY <2>1, <2>2, DropTicket
  <1>5. ASSUME Tick \/ UNCHANGED vars PROVE UNCHANGED <<[s \in State |-> TicketOf(s)], exchanges>>
    <2>1. UNCHANGED <<sessions, generated, pc, holds, exchanges>>
      BY <1>5 DEF Tick, vars, storeVars, workerVars, histVars
    <2>2. QED  BY <2>1 DEF TicketOf, At
  <1>6. QED  BY <1>1, <1>3, <1>4, <1>5 DEF Next

LEMMA InitTicket == Init => Tickets!Init
  <1> SUFFICES ASSUME Init PROVE Tickets!Init
    OBVIOUS
  <1>1. \A s \in State : TicketOf(s) = "none"
    BY DEF Init, TicketOf, At
  <1>2. QED  BY <1>1 DEF Init, Tickets!Init

\* The session store implements one-time tickets: a state string is exchanged
\* at most once, however callbacks, restarts and cutovers interleave.
THEOREM OneTimeUse == Spec => OneTime
  BY OwnerAlways, InitTicket, NextTicket, PTL DEF Spec, OneTime, Tickets!Spec

-----------------------------------------------------------------------------
(* Offers.                                                                  *)

Held(s) == Expired(s) \/ MayBeEvicted(s) \/ s \in sessions

OfferInv ==
    /\ IsFiniteSet(generated)
    /\ \A s \in generated : created[s] <= now
    /\ \A s \in offered \ taken : Held(s)

\* What a step may do to a session that is offered before and after it.
LEMMA HeldStays ==
    ASSUME OwnerInv, OwnerInv', NEW s \in generated,
           UNCHANGED shared, now <= now',
           IsFiniteSet(generated'), generated \subseteq generated',
           \A r \in generated : created'[r] = created[r],
           Expired(s) \/ MayBeEvicted(s) \/ s \in sessions'
    PROVE  Held(s)'
  <1>1. now \in Nat /\ now' \in Nat /\ created'[s] = created[s] /\ created[s] \in Nat
    BY SessionsAssumption DEF OwnerInv, TypeInv
  <1>2. CASE Expired(s)
    BY <1>1, <1>2, SessionsAssumption DEF Expired, Held
  <1>3. CASE MayBeEvicted(s)
    <2>1. AsYoung(s) \subseteq AsYoung(s)'
      BY <1>1 DEF AsYoung
    <2>2. IsFiniteSet(AsYoung(s)')
      <3>1. AsYoung(s)' \subseteq generated'
        BY DEF AsYoung
      <3>2. QED  BY <3>1, FS_Subset
    <2>3. /\ IsFiniteSet(AsYoung(s)) /\ Cardinality(AsYoung(s)) <= Cardinality(AsYoung(s)')
      BY <2>1, <2>2, FS_Subset
    <2>4. Cardinality(AsYoung(s)) \in Nat /\ Cardinality(AsYoung(s)') \in Nat
      BY <2>2, <2>3, FS_CardinalityType
    <2>5. ~shared /\ Cardinality(AsYoung(s)) >= MaxEntries - 1
      BY <1>3 DEF MayBeEvicted
    <2>6. Cardinality(AsYoung(s)') >= MaxEntries - 1
      BY <2>3, <2>4, <2>5, SessionsAssumption
    <2>7. MayBeEvicted(s)'
      BY <2>5, <2>6 DEF MayBeEvicted
    <2>8. QED  BY <2>7 DEF Held
  <1>4. CASE s \in sessions'
    BY <1>4 DEF Held
  <1>5. QED  BY <1>2, <1>3, <1>4

\* A full map sacrifices a session only for as many that are as young.
LEMMA EvictedForTheYoung ==
    ASSUME OwnerInv, IsFiniteSet(generated), ~shared, Full(Unexpired),
           NEW s \in Oldest(Unexpired)
    PROVE  MayBeEvicted(s)
  <1>1. s \in Unexpired /\ Unexpired \subseteq generated
    BY UnexpiredSubset DEF Oldest, OwnerInv, TypeInv
  <1>2. IsFiniteSet(Unexpired) /\ Cardinality(Unexpired) \in Nat
    BY <1>1, FS_Subset, FS_CardinalityType
  <1>3. /\ IsFiniteSet(Unexpired \ {s})
        /\ Cardinality(Unexpired \ {s}) = Cardinality(Unexpired) - 1
    BY <1>1, <1>2, FS_RemoveElement
  <1>4. Unexpired \ {s} \subseteq AsYoung(s)
    <2>1. SUFFICES ASSUME NEW r \in Unexpired, r # s PROVE created[r] >= created[s]
      BY <1>1 DEF AsYoung
    <2>2. created[s] <= created[r]
      BY DEF Oldest
    <2>3. created[s] \in Nat /\ created[r] \in Nat
      BY <1>1 DEF OwnerInv, TypeInv
    <2>4. QED  BY <2>2, <2>3
  <1>5. IsFiniteSet(AsYoung(s))
    <2>1. AsYoung(s) \subseteq generated
      BY DEF AsYoung
    <2>2. QED  BY <2>1, FS_Subset
  <1>6. Cardinality(Unexpired \ {s}) <= Cardinality(AsYoung(s)) /\ Cardinality(AsYoung(s)) \in Nat
    BY <1>4, <1>5, FS_Subset, FS_CardinalityType
  <1>7. Cardinality(Unexpired) >= MaxEntries
    BY DEF Full
  <1>8. Cardinality(AsYoung(s)) >= MaxEntries - 1
    BY <1>2, <1>3, <1>6, <1>7, SessionsAssumption
  <1>9. QED  BY <1>8 DEF MayBeEvicted

\* Cleanup takes what has expired.
LEMMA CleanedUpExpired == \A s \in sessions \ Unexpired : Expired(s)
  BY DEF Unexpired

LEMMA StartHolds ==
    ASSUME OwnerInv, OwnerInv', OfferInv, NEW w \in Worker, StartOAuth(w)
    PROVE  OfferInv'
  <1>1. PICK x \in State \ generated :
           /\ generated' = generated \union {x}
           /\ created' = [created EXCEPT ![x] = now]
    BY DEF StartOAuth
  <1>2. UNCHANGED <<shared, now, offered, taken>>
        /\ (sessions' = sessions \/ sessions' = Unexpired)
    BY DEF StartOAuth
  <1>3. IsFiniteSet(generated') /\ generated \subseteq generated'
    BY <1>1, FS_AddElement DEF OfferInv
  <1>4. now \in Nat /\ \A r \in generated : created'[r] = created[r]
    BY <1>1, SessionsAssumption DEF OwnerInv, TypeInv
  <1>5. \A s \in generated' : created'[s] <= now'
    BY <1>1, <1>2, <1>4 DEF OfferInv, OwnerInv, TypeInv
  <1>6. ASSUME NEW s \in offered \ taken PROVE Held(s)'
    <2>1. s \in generated
      BY DEF OwnerInv, TypeInv
    <2>2. Expired(s) \/ MayBeEvicted(s) \/ s \in sessions'
      BY <1>2, CleanedUpExpired DEF OfferInv, Held
    <2>3. QED  BY <1>2, <1>3, <1>4, <2>1, <2>2, HeldStays
  <1>7. QED  BY <1>2, <1>3, <1>5, <1>6 DEF OfferInv

\* A step that starts no session.
LEMMA QuietHolds ==
    ASSUME OwnerInv, OwnerInv', OfferInv, UNCHANGED <<shared, created, generated>>,
           now <= now',
           \A s \in offered' \ taken' :
              \/ s \in sessions'
              \/ s \in offered \ taken /\ (Expired(s) \/ MayBeEvicted(s))
    PROVE  OfferInv'
  <1>1. now \in Nat /\ now' \in Nat /\ \A s \in generated : created[s] \in Nat
    BY SessionsAssumption DEF OwnerInv, TypeInv
  <1>2. IsFiniteSet(generated') /\ \A s \in generated' : created'[s] <= now'
    BY <1>1 DEF OfferInv
  <1>3. ASSUME NEW s \in offered' \ taken' PROVE Held(s)'
    <2>1. s \in generated
      BY DEF OwnerInv, TypeInv
    <2>2. QED  BY <1>2, <1>3, <2>1, HeldStays
  <1>4. QED  BY <1>2, <1>3 DEF OfferInv

LEMMA SetHolds ==
    ASSUME OwnerInv, OwnerInv', OfferInv, NEW w \in Worker, Set(w)
    PROVE  OfferInv'
  <1>1. /\ UNCHANGED <<shared, now, created, generated, taken>> /\ ~shared
        /\ offered' = offered \union {holds[w]} /\ holds[w] \in sessions'
    BY DEF Set
  <1>2. ASSUME NEW s \in offered \ taken, s \notin sessions'
        PROVE  Expired(s) \/ MayBeEvicted(s)
    <2>1. CASE s \in Unexpired
      <3>1. Full(Unexpired) /\ s \in Oldest(Unexpired)
        BY <1>2, <2>1 DEF Set
      <3>2. QED  BY <1>1, <3>1, EvictedForTheYoung DEF OfferInv
    <2>2. CASE s \notin Unexpired
      BY <2>2, CleanedUpExpired DEF OfferInv, Held
    <2>3. QED  BY <2>1, <2>2
  <1>3. now <= now'
    BY <1>1, SessionsAssumption DEF OwnerInv, TypeInv
  <1>4. QED  BY <1>1, <1>2, <1>3, QuietHolds

LEMMA NextHolds == OwnerInv /\ OwnerInv' /\ OfferInv /\ [Next]_vars => OfferInv'
  <1> SUFFICES ASSUME OwnerInv, OwnerInv', OfferInv, [Next]_vars PROVE OfferInv'
    OBVIOUS
  <1>0. now \in Nat /\ \A s \in offered \ taken : Held(s)
    BY SessionsAssumption DEF OfferInv, OwnerInv, TypeInv
  <1>1. ASSUME NEW w \in Worker, Starting(w) PROVE OfferInv'
    <2>1. CASE StartOAuth(w)
      BY <2>1, StartHolds
    <2>2. CASE Set(w)
      BY <2>2, SetHolds
    <2>3. CASE SetShared(w) \/ SetSharedFails(w)
      <3>1. /\ UNCHANGED <<shared, now, created, generated, taken>>
            /\ sessions \subseteq sessions'
            /\ offered' \subseteq offered \union sessions'
        BY <2>3 DEF SetShared, SetSharedFails, histVars
      <3>2. QED  BY <1>0, <3>1, QuietHolds DEF Held
    <2>4. QED  BY <1>1, <2>1, <2>2, <2>3 DEF Starting
  <1>2. ASSUME NEW w \in Worker, CallingBack(w) PROVE OfferInv'
    <2>1. /\ UNCHANGED <<shared, now, created, generated, offered>>
          /\ taken \subseteq taken'
          /\ \A s \in sessions \ taken' : s \in sessions'
      BY <1>2 DEF CallingBack, Exchange, Refuse, Consume, TakeLost, Removed, storeVars, histVars
    <2>2. QED  BY <1>0, <2>1, QuietHolds DEF Held
  <1>3. ASSUME NEW gone \in SUBSET Worker, Restart(gone) PROVE OfferInv'
    <2>1. UNCHANGED <<shared, now, created, generated, taken>>
      BY <1>3 DEF Restart
    <2>2. IF shared THEN UNCHANGED <<sessions, offered>> ELSE offered' = {}
      BY <1>3 DEF Restart, Survivors
    <2>3. QED  BY <1>0, <2>1, <2>2, QuietHolds DEF Held
  <1>4. CASE Tick
    <2>1. /\ UNCHANGED <<shared, created, generated, taken, offered, sessions>> /\ now' = now + 1
      BY <1>4 DEF Tick, storeVars, histVars
    <2>2. QED  BY <1>0, <2>1, QuietHolds DEF Held
  <1>5. CASE UNCHANGED vars
    <2>1. UNCHANGED <<shared, now, created, generated, taken, offered, sessions>>
      BY <1>5 DEF vars, storeVars, histVars
    <2>2. QED  BY <1>0, <2>1, QuietHolds DEF Held
  <1>6. QED  BY <1>1, <1>2, <1>3, <1>4, <1>5 DEF Next

\* Whoever was given a link can finish the authorisation in time, unless the
\* process's own map is full of sessions as young.
THEOREM OffersHold == Spec => []OfferIsRedeemable
  <1>1. Init => OfferInv
    BY FS_EmptySet DEF Init, OfferInv
  <1>2. OfferInv => OfferIsRedeemable
    BY DEF OfferInv, OfferIsRedeemable, Held
  <1>3. QED  BY <1>1, <1>2, OwnerAlways, NextHolds, PTL DEF Spec
=============================================================================
