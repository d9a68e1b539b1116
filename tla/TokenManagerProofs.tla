------------------------- MODULE TokenManagerProofs -------------------------
(***************************************************************************)
(* Proofs about TokenManager, for every set of accounts and requests and   *)
(* every value of the limits.                                               *)
(***************************************************************************)
EXTENDS TokenManager, TLAPS, FiniteSetTheorems

USE DEF Critical, InRefresh

LEMMA MergeType ==
    ASSUME NEW c \in Credentials, NEW u \in Update
    PROVE  /\ Merge(c, u) \in Credentials
           /\ Merge(c, u).sk = c.sk
BY DEF Merge, Credentials, Update

LEMMA RememberedType ==
    ASSUME TypeOK, NEW s \in StateId
    PROVE  Remembered(s) \in Update
BY DEF TypeOK, RefreshState, Remembered, Update

LEMMA SeenType ==
    ASSUME NEW s \in RefreshState, NEW t \in Nat
    PROVE  [s EXCEPT !.seenAt = t] \in RefreshState
BY DEF RefreshState

LEMMA ErrorType ==
    ASSUME NEW s \in RefreshState, NEW err \in {"denied", "failed"}, NEW t \in Nat
    PROVE  [s EXCEPT !.err = err, !.errAt = t] \in RefreshState
BY DEF RefreshState

LEMMA InitType == Init => TypeOK
<1> SUFFICES ASSUME Init PROVE TypeOK
    OBVIOUS
<1> USE ConstantsAssumption
<1>1. SomeAccount \in Account
    BY DEF SomeAccount
<1>2. ASSUME NEW a \in Account PROVE core[a] \in Credentials
    <2>1. core[a] \in StoredCredentials(a)
        BY DEF Init
    <2>2. CASE a \in SessionAccount
        <3>1. PICK given \in BOOLEAN : core[a] = [at |-> 0, rt |-> 0, exp |-> 0, sk |-> given]
            BY <2>1, <2>2 DEF StoredCredentials
        <3>2. QED
            BY <3>1 DEF Credentials
    <2>3. CASE a \notin SessionAccount
        <3>1. /\ [at |-> 1, rt |-> 1, exp |-> 1, sk |-> FALSE] \in Credentials
              /\ [at |-> 1, rt |-> 0, exp |-> 0, sk |-> FALSE] \in Credentials
              /\ [at |-> 0, rt |-> 1, exp |-> 0, sk |-> FALSE] \in Credentials
            BY DEF Credentials
        <3>2. QED
            BY <2>1, <2>3, <3>1 DEF StoredCredentials
    <2>4. QED
        BY <2>2, <2>3
<1>3. core \in [Account -> Credentials]
    BY <1>2 DEF Init
<1>4. /\ locks \in [Account -> StateId \union {NoState}]
      /\ states \in [StateId -> RefreshState]
      /\ holder \in [StateId -> Request \union {NoRequest}]
      /\ now \in Nat /\ lastCleanup \in Nat
    BY DEF Init, RefreshState
<1>5. /\ pc \in [Request -> {"idle", "ensure", "forward", "dead", "transient"} \union InRefresh]
      /\ acct \in [Request -> Account]
      /\ creds \in [Request -> Credentials]
      /\ updated \in [Request -> Update]
      /\ st \in [Request -> StateId \union {NoState}]
      /\ attempt \in [Request -> 0..Attempts]
      /\ reply \in [Request -> Reply]
      /\ since \in [Request -> Nat]
    BY <1>1 DEF Init, Credentials, NoCredentials, Update, NoUpdate, Reply, NoReply, Failure
<1>6. /\ live \in [Account -> SUBSET Nat]
      /\ issued \in [Account -> Nat]
      /\ grants \in [Account -> SUBSET (Nat \X Nat)]
      /\ lastGrant \in [Account -> [at : Nat, exp : Nat]]
      /\ deniedAt \in [Account -> Nat]
    <2>1. \A a \in Account : core[a].at \in Nat /\ core[a].rt \in Nat
        BY <1>2 DEF Credentials
    <2>2. QED
        BY <2>1 DEF Init
<1>7. QED
    BY <1>3, <1>4, <1>5, <1>6 DEF TypeOK
\* A request that waits for the mutex or holds it has got its state object.
HoldsPointer == \A r \in Request : pc[r] \in InRefresh => st[r] \in StateId

TypeInv == TypeOK /\ HoldsPointer

LEMMA StepType == TypeInv /\ [Next]_vars => TypeInv'
<1> SUFFICES ASSUME TypeInv, [Next]_vars PROVE TypeInv'
    OBVIOUS
<1> USE ConstantsAssumption
<1> USE DEF TypeInv, TypeOK, HoldsPointer
<1>1. SomeAccount \in Account
    BY DEF SomeAccount
<1>2. /\ NoUpdate \in Update /\ NoCredentials \in Credentials
      /\ \A k \in {"none", "denied", "failed"} : Failure(k) \in Reply
    BY DEF NoUpdate, Update, NoCredentials, Credentials, Failure, Reply
<1>3. CASE UNCHANGED vars
    BY <1>3 DEF vars, managerVars, requestVars, endpointVars, historyVars
<1>4. ASSUME NEW r \in Request, Dispatch(r) PROVE TypeInv'
    BY <1>4 DEF Dispatch, Finish, managerVars, endpointVars, historyVars
<1>5. ASSUME NEW r \in Request, EnsureValid(r) \/ EnsureMissingKey(r) PROVE TypeInv'
    <2>1. /\ \E p \in {"forward", "dead"} : pc' = [pc EXCEPT ![r] = p]
          /\ UNCHANGED <<now, managerVars, acct, creds, updated, st, attempt, reply, since, core,
                         endpointVars, historyVars>>
        BY <1>5 DEF EnsureValid, EnsureMissingKey, Finish
    <2>2. QED
        BY <2>1 DEF managerVars, endpointVars, historyVars
<1>6. ASSUME NEW r \in Request, GetStateHit(r) PROVE TypeInv'
    <2>1. locks[acct[r]] \in StateId
        BY <1>6 DEF GetStateHit, Kept, Tracked
    <2>2. locks' \in [Account -> StateId \union {NoState}]
        BY <1>6 DEF GetStateHit, LocksWith
    <2>3. states' \in [StateId -> RefreshState]
        BY <1>6, <2>1, SeenType DEF GetStateHit
    <2>4. QED
        BY <1>6, <2>1, <2>2, <2>3
        DEF GetStateHit, StateRequested, Finish, endpointVars, historyVars
<1>7. ASSUME NEW r \in Request, GetStateMiss(r) PROVE TypeInv'
    <2>1. PICK s \in StateId :
            /\ states' = [states EXCEPT ![s] = NewRefreshState]
            /\ st' = [st EXCEPT ![r] = s]
            /\ \E kept \in SUBSET Account : locks' = LocksWith(kept, acct[r], s)
        <3>1. \A victim : Kept \ {victim} \in SUBSET Account /\ Kept \in SUBSET Account
            BY DEF Kept, Tracked
        <3>2. QED
            BY <1>7, <3>1 DEF GetStateMiss
    <2>2. locks' \in [Account -> StateId \union {NoState}]
        BY <2>1 DEF LocksWith
    <2>3. states' \in [StateId -> RefreshState]
        BY <2>1 DEF NewRefreshState, RefreshState
    <2>4. QED
        BY <1>7, <2>1, <2>2, <2>3
        DEF GetStateMiss, StateRequested, Finish, endpointVars, historyVars
<1>8. ASSUME NEW r \in Request, ReuseRemembered(r) PROVE TypeInv'
    <2>1. st[r] \in StateId
        BY <1>8 DEF ReuseRemembered, Locks
    <2>2. /\ Remembered(st[r]) \in Update
          /\ Merge(creds[r], Remembered(st[r])) \in Credentials
        BY <2>1, RememberedType, MergeType
    <2>3. QED
        BY <1>2, <1>8, <2>2
        DEF ReuseRemembered, Finish, managerVars, endpointVars, historyVars
<1>9. ASSUME NEW r \in Request, RefuseInCooldown(r) \/ StartCall(r) PROVE TypeInv'
    <2>1. CASE RefuseInCooldown(r)
        BY <2>1 DEF RefuseInCooldown, Finish, managerVars, endpointVars, historyVars
    <2>2. CASE StartCall(r)
        <3>1. holder' \in [StateId -> Request \union {NoRequest}]
            BY <2>2 DEF StartCall
        <3>2. attempt' \in [Request -> 0..Attempts]
            BY <2>2 DEF StartCall
        <3>3. QED
            BY <2>2, <3>1, <3>2 DEF StartCall, Locks, Finish, endpointVars, historyVars
    <2>3. QED
        BY <1>9, <2>1, <2>2
<1>10. ASSUME NEW r \in Request, EndpointGrants(r) PROVE TypeInv'
    <2> DEFINE new == issued[acct[r]] + 1
    <2>1. new \in Nat /\ creds[r].rt \in Nat
        BY DEF Credentials
    <2>2. PICK rotates \in BOOLEAN, life \in Lifetimes :
            /\ Grant(r, rotates)
            /\ \E answer \in Reply : Answer(r, answer)
            /\ pc[r] = "calling"
        <3>1. ASSUME NEW rotates \in BOOLEAN, NEW life \in Lifetimes
              PROVE  [kind |-> "granted", at |-> new, rt |-> IF rotates THEN new ELSE 0,
                      life |-> life] \in Reply
            BY <2>1 DEF Reply
        <3>2. QED
            BY <1>2, <1>10, <3>1 DEF EndpointGrants
    <2>3. /\ issued' \in [Account -> Nat]
          /\ live' \in [Account -> SUBSET Nat]
          /\ grants' \in [Account -> SUBSET (Nat \X Nat)]
        BY <2>1, <2>2 DEF Grant
    <2>4. QED
        BY <2>2, <2>3 DEF Answer, Finish, managerVars, historyVars
<1>11. ASSUME NEW r \in Request, EndpointDenies(r) \/ EndpointFails(r) PROVE TypeInv'
    <2>1. PICK answer \in Reply : pc[r] = "calling" /\ Answer(r, answer) /\ UNCHANGED endpointVars
        BY <1>2, <1>11 DEF EndpointDenies, EndpointFails
    <2>2. QED
        BY <2>1 DEF Answer, Finish, managerVars, endpointVars, historyVars
<1>12. ASSUME NEW r \in Request, NEW kept \in Nat, Replied(r, "granted"), Adopt(r, kept)
       PROVE  TypeInv'
    <2>1. reply[r].at \in Nat /\ reply[r].rt \in Nat /\ now + reply[r].life \in Nat
        BY DEF Reply
    <2>2. creds[r].sk \in BOOLEAN /\ \A s \in StateId : states[s].seenAt \in Nat
        BY DEF Credentials, RefreshState
    <2>3. /\ creds' \in [Request -> Credentials]
          /\ updated' \in [Request -> Update]
          /\ lastGrant' \in [Account -> [at : Nat, exp : Nat]]
        BY <1>12, <2>1, <2>2 DEF Adopt, Credentials, Update
    <2>4. states' \in [StateId -> RefreshState]
        BY <1>12, <2>1, <2>2 DEF Adopt, Remember, RefreshState
    <2>5. holder' \in [StateId -> Request \union {NoRequest}]
        BY <1>12 DEF Adopt, Unlock
    <2>6. attempt' \in [Request -> 0..Attempts]
        BY <1>12 DEF Adopt
    <2>7. reply' \in [Request -> Reply]
        BY <1>2, <1>12 DEF Adopt, NoReply
    <2>8. QED
        BY <1>12, <2>3, <2>4, <2>5, <2>6, <2>7 DEF Adopt, Replied, Finish, endpointVars
<1>13. ASSUME NEW r \in Request, ExchangeGranted(r) \/ RefreshGranted(r) PROVE TypeInv'
    <2>1. reply[r].rt \in Nat /\ KeptRefreshToken(r) \in Nat
        BY DEF Reply, Credentials, KeptRefreshToken
    <2>2. QED
        BY <1>12, <1>13, <2>1 DEF ExchangeGranted, RefreshGranted
<1>14. ASSUME NEW r \in Request, NEW verdict \in {"dead", "transient"}, GiveUp(r, verdict),
              states' \in [StateId -> RefreshState]
       PROVE  TypeInv'
    <2>1. holder' \in [StateId -> Request \union {NoRequest}]
        BY <1>14 DEF GiveUp, Unlock
    <2>2. attempt' \in [Request -> 0..Attempts]
        BY <1>14 DEF GiveUp
    <2>3. reply' \in [Request -> Reply] /\ deniedAt' \in [Account -> Nat]
        BY <1>2, <1>14 DEF GiveUp, NoReply
    <2>4. QED
        BY <1>14, <2>1, <2>2, <2>3 DEF GiveUp, Finish, endpointVars
<1>15. ASSUME NEW r \in Request, ExchangeFailed(r) \/ RefreshDenied(r) \/ RefreshExhausted(r)
       PROVE  TypeInv'
    <2>1. ASSUME NEW err \in {"denied", "failed"}, RecordError(r, err)
          PROVE  states' \in [StateId -> RefreshState]
        BY <2>1, ErrorType DEF RecordError
    <2>2. QED
        BY <1>14, <1>15, <2>1 DEF ExchangeFailed, RefreshDenied, RefreshExhausted
<1>16. ASSUME NEW r \in Request, RefreshRetried(r) PROVE TypeInv'
    <2>1. attempt' \in [Request -> 0..Attempts]
        BY <1>16 DEF RefreshRetried, LastAttempt
    <2>2. QED
        BY <1>2, <1>16, <2>1
        DEF RefreshRetried, Replied, NoReply, Finish, managerVars, endpointVars, historyVars
<1>17. ASSUME NEW r \in Request, Backoff(r) PROVE TypeInv'
    <2>1. CASE BackoffElapsed(r)
        BY <2>1 DEF BackoffElapsed, Finish, managerVars, endpointVars, historyVars
    <2>2. CASE BackoffCancelled(r)
        <3>1. holder' \in [StateId -> Request \union {NoRequest}]
            BY <2>2 DEF BackoffCancelled, Unlock
        <3>2. attempt' \in [Request -> 0..Attempts]
            BY <2>2 DEF BackoffCancelled
        <3>3. QED
            BY <2>2, <3>1, <3>2 DEF BackoffCancelled, Finish, endpointVars, historyVars
    <2>3. QED
        BY <1>17, <2>1, <2>2 DEF Backoff
<1>18. ASSUME NEW r \in Request, core' \in [Account -> Credentials], Return(r) PROVE TypeInv'
    BY <1>1, <1>2, <1>18 DEF Return, Finish, managerVars, endpointVars, historyVars
<1>19. ASSUME NEW r \in Request, Forward(r) PROVE TypeInv'
    <2>1. CASE ForwardWithoutToken(r)
        BY <2>1 DEF ForwardWithoutToken, Finish, managerVars, endpointVars, historyVars
    <2>2. CASE ForwardCompletes(r)
        <3>1. Merge(core[acct[r]], updated[r]) \in Credentials
            BY MergeType
        <3>2. QED
            BY <1>18, <2>2, <3>1 DEF ForwardCompletes
    <2>3. CASE ForwardFails(r) \/ ReturnError(r)
        BY <1>18, <2>3 DEF ForwardFails, ReturnError
    <2>4. QED
        BY <1>19, <2>1, <2>2, <2>3 DEF Forward
<1>20. CASE Tick
    BY <1>20 DEF Tick, managerVars, requestVars, endpointVars, historyVars
<1>21. ASSUME NEW a \in Account, Revoke(a) PROVE TypeInv'
    BY <1>21 DEF Revoke, managerVars, requestVars, historyVars
<1>22. ASSUME NEW a \in Account, Relogin(a) PROVE TypeInv'
    <2>1. issued[a] + 1 \in Nat /\ core[a].sk \in BOOLEAN /\ \A l \in Lifetimes : now + l \in Nat
        BY DEF Credentials
    <2>2. core' \in [Account -> Credentials]
        BY <1>22, <2>1 DEF Relogin, Credentials
    <2>3. QED
        BY <1>22, <2>1, <2>2 DEF Relogin, managerVars, requestVars, historyVars
<1>25. ASSUME NEW a \in Account, AdminRefresh(a) PROVE TypeInv'
    <2>1. /\ issued[a] + 1 \in Nat /\ core[a].sk \in BOOLEAN /\ core[a].rt \in Nat
          /\ \A l \in Lifetimes : now + l \in Nat
        BY DEF Credentials
    <2>4. ASSUME NEW k \in {issued[a] + 1, core[a].rt}, NEW life \in Lifetimes
          PROVE  [at |-> issued[a] + 1, rt |-> k, exp |-> now + life, sk |-> core[a].sk]
                    \in Credentials
        BY <2>1 DEF Credentials
    <2>5. \/ core' = core
          \/ \E k \in {issued[a] + 1, core[a].rt}, life \in Lifetimes :
               core' = [core EXCEPT ![a] = [at |-> issued[a] + 1, rt |-> k,
                                            exp |-> now + life, sk |-> core[a].sk]]
        BY <1>25 DEF AdminRefresh
    <2>2. core' \in [Account -> Credentials]
        <3>1. ASSUME NEW c \in Credentials, core' = [core EXCEPT ![a] = c]
              PROVE  core' \in [Account -> Credentials]
            BY <3>1
        <3>2. QED
            BY <2>4, <2>5, <3>1
    <2>3. live' \in [Account -> SUBSET Nat] /\ grants' \in [Account -> SUBSET (Nat \X Nat)]
        BY <1>25, <2>1 DEF AdminRefresh
    <2>6. QED
        BY <1>25, <2>1, <2>2, <2>3 DEF AdminRefresh, managerVars, requestVars, historyVars
<1>23. CASE Crash
    <2>1. states' \in [StateId -> RefreshState]
        BY <1>23 DEF Crash, RefreshState
    <2>2. QED
        BY <1>1, <1>2, <1>23, <2>1 DEF Crash, NoReply, endpointVars
<1>24. QED
    BY <1>3, <1>4, <1>5, <1>6, <1>7, <1>8, <1>9, <1>10, <1>11, <1>13, <1>15, <1>16, <1>17,
       <1>19, <1>20, <1>21, <1>22, <1>23, <1>25
    DEF Next, Ensure, Acquire, Endpoint, Receive

\* Every variable keeps its type in every behaviour, whatever the number of
\* accounts, requests and objects, the limits and the faults that occur.
THEOREM TypeCorrect == Spec => []TypeOK
<1>1. Init => TypeInv
    BY InitType DEF Init, TypeInv, HoldsPointer
<1>2. TypeInv => TypeOK
    BY DEF TypeInv
<1>3. QED
    BY <1>1, <1>2, StepType, PTL DEF Spec

-----------------------------------------------------------------------------
(* The mutex of a state object.                                             *)

\* Whoever is inside the critical section of a state object has locked it.
MutexInv == \A r \in Request : pc[r] \in Critical => holder[st[r]] = r

\* A step of r that keeps its account and its state object, and does not enter
\* a critical section.
Inner(r) ==
    /\ UNCHANGED <<now, locks, st, acct, since>>
    /\ pc[r] # "idle"
    /\ \E p \in {"ensure", "forward", "dead", "transient"} \union InRefresh :
         /\ pc' = [pc EXCEPT ![r] = p]
         /\ p \in InRefresh => pc[r] \in InRefresh
    /\ \A s \in StateId : states'[s].seenAt = states[s].seenAt

\* What a step of r may do to the mutex of its state object.
KeepsMutex(r) == holder' = holder /\ (pc'[r] \in Critical => pc[r] \in Critical)
TakesMutex(r) == holder[st[r]] = NoRequest /\ holder' = [holder EXCEPT ![st[r]] = r]
DropsMutex(r) == /\ pc[r] \in Critical /\ pc'[r] \notin Critical
                 /\ holder' = [holder EXCEPT ![st[r]] = NoRequest]
UsesMutex(r)  == KeepsMutex(r) \/ TakesMutex(r) \/ DropsMutex(r)

InnerStep(r) ==
    \/ EnsureValid(r) \/ EnsureMissingKey(r) \/ Acquire(r) \/ Endpoint(r) \/ Receive(r)
    \/ Backoff(r) \/ ForwardWithoutToken(r)

\* Everything Forward does between the lookup of the state object and its
\* return is an Inner step that treats the mutex well.
LEMMA InnerSteps ==
    ASSUME TypeInv, NEW r \in Request, InnerStep(r)
    PROVE  Inner(r) /\ UsesMutex(r)
<1> USE ConstantsAssumption
<1> USE DEF TypeInv, TypeOK, HoldsPointer, Inner, UsesMutex, Finish
<1>1. CASE EnsureValid(r) \/ EnsureMissingKey(r) \/ ForwardWithoutToken(r)
    BY <1>1
    DEF EnsureValid, EnsureMissingKey, ForwardWithoutToken, managerVars, KeepsMutex
<1>2. CASE ReuseRemembered(r) \/ RefuseInCooldown(r)
    BY <1>2 DEF ReuseRemembered, RefuseInCooldown, Locks, managerVars, KeepsMutex
<1>3. CASE StartCall(r)
    BY <1>3 DEF StartCall, Locks, TakesMutex
<1>4. CASE Endpoint(r)
    <2>1. PICK answer : pc[r] = "calling" /\ Answer(r, answer)
        BY <1>4 DEF Endpoint, EndpointGrants, EndpointDenies, EndpointFails
    <2>2. QED
        BY <2>1 DEF Answer, managerVars, KeepsMutex
<1>5. ASSUME NEW kept, pc[r] = "replied", Adopt(r, kept) PROVE Inner(r) /\ UsesMutex(r)
    <2>1. \A s \in StateId : states'[s].seenAt = states[s].seenAt
        BY <1>5 DEF Adopt, Remember
    <2>2. QED
        BY <1>5, <2>1 DEF Adopt, Unlock, DropsMutex
<1>6. ASSUME NEW verdict \in {"dead", "transient"}, pc[r] = "replied", GiveUp(r, verdict),
             \A s \in StateId : states'[s].seenAt = states[s].seenAt
      PROVE  Inner(r) /\ UsesMutex(r)
    BY <1>6 DEF GiveUp, Unlock, DropsMutex
<1>7. ASSUME NEW err, RecordError(r, err)
      PROVE  \A s \in StateId : states'[s].seenAt = states[s].seenAt
    <2>1. \A t : \A s \in RefreshState : [s EXCEPT !.err = err, !.errAt = t].seenAt = s.seenAt
        BY DEF RefreshState
    <2>2. QED
        BY <1>7, <2>1 DEF RecordError
<1>8. CASE Receive(r)
    <2>1. CASE ExchangeGranted(r) \/ RefreshGranted(r)
        BY <1>5, <2>1 DEF ExchangeGranted, RefreshGranted, Replied
    <2>2. CASE ExchangeFailed(r)
        BY <1>6, <2>2 DEF ExchangeFailed, Replied
    <2>3. CASE RefreshDenied(r) \/ RefreshExhausted(r)
        BY <1>6, <1>7, <2>3 DEF RefreshDenied, RefreshExhausted, Replied
    <2>4. CASE RefreshRetried(r)
        BY <2>4 DEF RefreshRetried, Replied, managerVars, KeepsMutex
    <2>5. QED
        BY <1>8, <2>1, <2>2, <2>3, <2>4 DEF Receive
<1>9. CASE BackoffElapsed(r)
    BY <1>9 DEF BackoffElapsed, managerVars, KeepsMutex
<1>10. CASE BackoffCancelled(r)
    BY <1>10 DEF BackoffCancelled, Unlock, DropsMutex
<1>11. QED
    BY <1>1, <1>2, <1>3, <1>4, <1>8, <1>9, <1>10 DEF InnerStep, Acquire, Backoff

\* The other steps: Core dispatches, a state object is looked up, Forward
\* returns, or the environment moves.
LEMMA StepKinds ==
    ASSUME TypeInv, [Next]_vars
    PROVE  \/ \E r \in Request : InnerStep(r)
           \/ \E r \in Request : Dispatch(r) \/ GetStateHit(r) \/ GetStateMiss(r) \/ Return(r)
           \/ UNCHANGED <<now, managerVars, requestVars, historyVars>>
           \/ Tick
           \/ Crash
BY DEF Next, Ensure, Forward, InnerStep, ForwardCompletes, ForwardFails, ReturnError, Revoke,
       Relogin, AdminRefresh, vars

LEMMA MutexStep ==
    ASSUME TypeInv, MutexInv, [Next]_vars
    PROVE  MutexInv'
<1> USE ConstantsAssumption
<1> USE DEF TypeInv, TypeOK, HoldsPointer, MutexInv
<1>1. ASSUME NEW r \in Request, InnerStep(r) PROVE MutexInv'
    <2>1. Inner(r) /\ UsesMutex(r)
        BY <1>1, InnerSteps
    <2> USE <2>1 DEF Inner
    <2>2. CASE KeepsMutex(r)
        BY <2>2 DEF KeepsMutex
    <2>3. CASE TakesMutex(r)
        BY <2>3 DEF TakesMutex
    <2>4. CASE DropsMutex(r)
        BY <2>4 DEF DropsMutex
    <2>5. QED
        BY <2>1, <2>2, <2>3, <2>4 DEF UsesMutex
<1>2. ASSUME NEW r \in Request, Dispatch(r) \/ Return(r) PROVE MutexInv'
    BY <1>2 DEF Dispatch, Return, Finish, managerVars
<1>3. ASSUME NEW r \in Request, GetStateHit(r) \/ GetStateMiss(r) PROVE MutexInv'
    <2>1. PICK s \in StateId \union {NoState} : st' = [st EXCEPT ![r] = s]
        BY <1>3 DEF GetStateHit, GetStateMiss
    <2>2. pc' = [pc EXCEPT ![r] = "lock"] /\ holder' = holder
        BY <1>3 DEF GetStateHit, GetStateMiss, StateRequested, Finish
    <2>3. QED
        BY <2>1, <2>2
<1>4. CASE UNCHANGED <<now, managerVars, requestVars>> \/ Tick
    BY <1>4 DEF Tick, managerVars, requestVars
<1>5. CASE Crash
    BY <1>5 DEF Crash
<1>6. QED
    BY <1>1, <1>2, <1>3, <1>4, <1>5, StepKinds

-----------------------------------------------------------------------------
(* One refresh per account, where nothing is evicted while it is in use.    *)

\* The table has room for every account, and no request outlasts the TTL.
RoomForAll ==
    /\ IsFiniteSet(Account)
    /\ Cardinality(Account) <= MaxEntries
    /\ RequestSpan <= IdleTTL

\* A running request was dispatched at most RequestSpan ago.
SpanInv ==
    \A r \in Request : pc[r] # "idle" => since[r] <= now /\ now - since[r] <= RequestSpan

\* A request refreshes through the state object the table holds for its
\* account, which has been looked up since the request was dispatched.
CurrentInv ==
    \A r \in Request :
        pc[r] \in InRefresh =>
            locks[acct[r]] = st[r] /\ states[st[r]].seenAt >= since[r]

RefreshInv == TypeInv /\ MutexInv /\ SpanInv /\ CurrentInv

LEMMA SpanStep ==
    ASSUME TypeInv, SpanInv, [Next]_vars
    PROVE  SpanInv'
<1>0. /\ now \in Nat /\ RequestSpan \in Nat
      /\ since \in [Request -> Nat] /\ DOMAIN pc = Request
    BY ConstantsAssumption DEF TypeInv, TypeOK
<1>1. ASSUME NEW r \in Request, InnerStep(r) PROVE SpanInv'
    <2>1. Inner(r)
        BY <1>1, InnerSteps
    <2>2. QED
        BY <1>0, <2>1 DEF SpanInv, Inner
<1>2. ASSUME NEW r \in Request, Dispatch(r) PROVE SpanInv'
    <2>1. now' = now /\ since' = [since EXCEPT ![r] = now] /\ pc' = [pc EXCEPT ![r] = "ensure"]
        BY <1>2 DEF Dispatch, Finish
    <2>2. QED
        BY <1>0, <2>1 DEF SpanInv
<1>3. ASSUME NEW r \in Request, Return(r) PROVE SpanInv'
    <2>1. now' = now /\ since' = [since EXCEPT ![r] = 0] /\ pc' = [pc EXCEPT ![r] = "idle"]
        BY <1>3 DEF Return, Finish
    <2>2. QED
        BY <1>0, <2>1 DEF SpanInv
<1>4. ASSUME NEW r \in Request, GetStateHit(r) \/ GetStateMiss(r) PROVE SpanInv'
    <2>1. pc[r] = "ensure" /\ pc' = [pc EXCEPT ![r] = "lock"] /\ UNCHANGED <<now, since>>
        BY <1>4 DEF GetStateHit, GetStateMiss, StateRequested, Finish
    <2>2. QED
        BY <1>0, <2>1 DEF SpanInv
<1>5. CASE UNCHANGED <<now, managerVars, requestVars>>
    BY <1>5 DEF SpanInv, requestVars
<1>6. CASE Tick
    <2>1. /\ now' = now + 1 /\ UNCHANGED <<pc, since>>
          /\ \A r \in Request : pc[r] # "idle" => now - since[r] < RequestSpan
        BY <1>6 DEF Tick, requestVars
    <2>2. QED
        BY <1>0, <2>1 DEF SpanInv
<1>7. CASE Crash
    BY <1>7 DEF Crash, SpanInv
<1>8. QED
    BY <1>1, <1>2, <1>3, <1>4, <1>5, <1>6, <1>7, StepKinds

\* A lookup keeps the entries of the accounts that are being refreshed.
LEMMA LookupKeeps ==
    ASSUME RoomForAll, RefreshInv, NEW q \in Request, pc[q] \in InRefresh
    PROVE  acct[q] \in Kept
<1> USE ConstantsAssumption
<1>1. /\ acct[q] \in Account /\ locks[acct[q]] = st[q] /\ st[q] \in StateId
      /\ states[st[q]].seenAt >= since[q] /\ now - since[q] <= RequestSpan
    BY DEF RefreshInv, TypeInv, TypeOK, HoldsPointer, SpanInv, CurrentInv
<1>2. /\ now \in Nat /\ since[q] \in Nat /\ states[st[q]].seenAt \in Nat
      /\ RequestSpan \in Nat /\ IdleTTL \in Nat
    BY <1>1 DEF RefreshInv, TypeInv, TypeOK, RefreshState
<1>3. now - states[st[q]].seenAt <= IdleTTL
    BY <1>1, <1>2 DEF RoomForAll
<1>4. QED
    BY <1>1, <1>3 DEF Kept, Tracked

\* A new entry has room: nothing is evicted for it.
LEMMA NewEntryHasRoom ==
    ASSUME RoomForAll, NEW a \in Account, a \notin Kept
    PROVE  ~TableFull
<1>1. Kept \in SUBSET (Account \ {a})
    BY DEF Kept, Tracked
<1>2. /\ IsFiniteSet(Account \ {a})
      /\ Cardinality(Account \ {a}) = Cardinality(Account) - 1
    BY FS_RemoveElement DEF RoomForAll
<1>3. Cardinality(Kept) <= Cardinality(Account) - 1
    BY <1>1, <1>2, FS_Subset
<1>4. Cardinality(Account) \in Nat /\ Cardinality(Kept) \in Nat
    BY <1>1, <1>2, FS_Subset, FS_CardinalityType DEF RoomForAll
<1>5. QED
    BY <1>3, <1>4, ConstantsAssumption DEF TableFull, RoomForAll

LEMMA CurrentStep ==
    ASSUME RoomForAll, RefreshInv, [Next]_vars
    PROVE  CurrentInv'
<1> USE ConstantsAssumption
<1> USE DEF RefreshInv, TypeInv, TypeOK, HoldsPointer, CurrentInv
<1>1. ASSUME NEW r \in Request, InnerStep(r) PROVE CurrentInv'
    <2>1. Inner(r)
        BY <1>1, InnerSteps
    <2>2. ASSUME NEW q \in Request, pc'[q] \in InRefresh
          PROVE  locks'[acct'[q]] = st'[q] /\ states'[st'[q]].seenAt >= since'[q]
        <3>1. pc[q] \in InRefresh
            BY <2>1, <2>2 DEF Inner
        <3>2. states'[st[q]].seenAt = states[st[q]].seenAt
            BY <2>1, <3>1 DEF Inner
        <3>3. QED
            BY <2>1, <3>1, <3>2 DEF Inner
    <2>3. QED
        BY <2>2
<1>2. ASSUME NEW r \in Request, Dispatch(r) \/ Return(r) PROVE CurrentInv'
    <2>1. UNCHANGED <<locks, states>>
        BY <1>2 DEF Dispatch, Return, managerVars
    <2>2. \A q \in Request :
            pc'[q] \in InRefresh =>
                /\ pc[q] \in InRefresh /\ st'[q] = st[q]
                /\ acct'[q] = acct[q] /\ since'[q] = since[q]
        <3>1. CASE Dispatch(r)
            BY <3>1 DEF Dispatch, Finish, InRefresh, Critical
        <3>2. CASE Return(r)
            BY <3>2 DEF Return, Finish, InRefresh, Critical
        <3>3. QED
            BY <1>2, <3>1, <3>2
    <2>3. QED
        BY <2>1, <2>2
<1>3. ASSUME NEW r \in Request, NEW s \in StateId,
             pc[r] = "ensure",
             pc' = [pc EXCEPT ![r] = "lock"], st' = [st EXCEPT ![r] = s],
             UNCHANGED <<now, acct, since>>,
             locks' = LocksWith(Kept, acct[r], s),
             acct[r] \in Kept => s = locks[acct[r]],
             states'[s].seenAt = now,
             \A t \in StateId \ {s} : states'[t] = states[t]
      PROVE  CurrentInv'
    <2> SUFFICES ASSUME NEW q \in Request, pc'[q] \in InRefresh
                 PROVE  locks'[acct'[q]] = st'[q] /\ states'[st'[q]].seenAt >= since'[q]
        OBVIOUS
    <2>1. CASE q = r
        BY <1>3, <2>1 DEF LocksWith, SpanInv
    <2>2. CASE q # r
        <3>1. pc[q] \in InRefresh
            BY <1>3, <2>2
        <3>2. acct[q] \in Kept
            BY <3>1, LookupKeeps
        <3>3. CASE acct[q] = acct[r]
            BY <1>3, <2>2, <3>1, <3>2, <3>3 DEF LocksWith, SpanInv
        <3>4. CASE acct[q] # acct[r]
            BY <1>3, <2>2, <3>1, <3>2, <3>4 DEF LocksWith, SpanInv
        <3>5. QED
            BY <3>3, <3>4
    <2>3. QED
        BY <2>1, <2>2
<1>4. ASSUME NEW r \in Request, GetStateHit(r) PROVE CurrentInv'
    <2>1. locks[acct[r]] \in StateId
        BY <1>4 DEF GetStateHit, Kept, Tracked
    <2>2. \A s \in RefreshState : [s EXCEPT !.seenAt = now].seenAt = now
        BY DEF RefreshState
    <2>3. /\ states'[locks[acct[r]]].seenAt = now
          /\ \A t \in StateId \ {locks[acct[r]]} : states'[t] = states[t]
        BY <1>4, <2>1, <2>2 DEF GetStateHit
    <2>4. QED
        BY <1>3, <1>4, <2>1, <2>3 DEF GetStateHit, StateRequested, Finish
<1>5. ASSUME NEW r \in Request, GetStateMiss(r) PROVE CurrentInv'
    <2>1. ~TableFull
        BY <1>5, NewEntryHasRoom DEF GetStateMiss
    <2>2. PICK s \in StateId :
            /\ states' = [states EXCEPT ![s] = NewRefreshState]
            /\ st' = [st EXCEPT ![r] = s]
            /\ locks' = LocksWith(Kept, acct[r], s)
        BY <1>5, <2>1 DEF GetStateMiss
    <2>3. /\ states'[s].seenAt = now
          /\ \A t \in StateId \ {s} : states'[t] = states[t]
        BY <2>2 DEF NewRefreshState
    <2>4. QED
        BY <1>3, <1>5, <2>2, <2>3 DEF GetStateMiss, StateRequested, Finish
<1>6. CASE UNCHANGED <<now, managerVars, requestVars>> \/ Tick
    BY <1>6 DEF Tick, managerVars, requestVars
<1>7. CASE Crash
    BY <1>7 DEF Crash
<1>8. QED
    BY <1>1, <1>2, <1>4, <1>5, <1>6, <1>7, StepKinds

\* README, "Token refresh": a mutex per account prevents concurrent refreshes.
\* It does as long as the table of mutexes never drops an entry that is in
\* use, which RoomForAll excludes: at the cap it does, and a second mutex follows.
THEOREM OneRefresh ==
    ASSUME RoomForAll
    PROVE  Spec => []OneRefreshPerAccount
<1>1. Init => RefreshInv
    BY InitType
    DEF Init, RefreshInv, TypeInv, HoldsPointer, MutexInv, SpanInv, CurrentInv
<1>2. RefreshInv /\ [Next]_vars => RefreshInv'
    BY StepType, MutexStep, SpanStep, CurrentStep DEF RefreshInv
<1>3. RefreshInv => OneRefreshPerAccount
    BY DEF RefreshInv, MutexInv, CurrentInv, OneRefreshPerAccount
<1>4. QED
    BY <1>1, <1>2, <1>3, PTL DEF Spec

-----------------------------------------------------------------------------
(* Only a denial condemns an account, whatever is evicted and whatever      *)
(* fails: no assumption beyond those on the constants.                      *)

\* A state object belongs to one account: for the table, for the requests
\* that refresh through it, and between the two.
OwnInv ==
    /\ \A a, b \in Account : locks[a] = locks[b] /\ locks[a] # NoState => a = b
    /\ \A r \in Request, b \in Account :
         pc[r] \in InRefresh /\ locks[b] = st[r] => b = acct[r]
    /\ \A r, q \in Request :
         pc[r] \in InRefresh /\ pc[q] \in InRefresh /\ st[r] = st[q] => acct[r] = acct[q]

LEMMA OwnStep ==
    ASSUME TypeInv, OwnInv, [Next]_vars
    PROVE  OwnInv'
<1> USE ConstantsAssumption
<1>t. /\ now \in Nat /\ pc \in [Request -> {"idle", "ensure", "forward", "dead", "transient"} \union InRefresh]
      /\ acct \in [Request -> Account] /\ st \in [Request -> StateId \union {NoState}]
      /\ locks \in [Account -> StateId \union {NoState}] /\ states \in [StateId -> RefreshState]
      /\ \A r \in Request : pc[r] \in InRefresh => st[r] \in StateId
    BY DEF TypeInv, TypeOK, HoldsPointer
<1> USE <1>t DEF OwnInv
<1>1. ASSUME NEW r \in Request, InnerStep(r) PROVE OwnInv'
    <2>1. Inner(r)
        BY <1>1, InnerSteps
    <2>2. \A q \in Request : pc'[q] \in InRefresh => pc[q] \in InRefresh
        BY <2>1 DEF Inner
    <2>3. locks' = locks /\ st' = st /\ acct' = acct
        BY <2>1 DEF Inner
    <2>4. QED
        BY <2>2, <2>3
<1>2. ASSUME NEW r \in Request, Dispatch(r) \/ Return(r) PROVE OwnInv'
    <2>1. \A q \in Request :
            pc'[q] \in InRefresh =>
                pc[q] \in InRefresh /\ acct'[q] = acct[q] /\ st'[q] = st[q]
        BY <1>2 DEF Dispatch, Return, Finish
    <2>2. locks' = locks
        BY <1>2 DEF Dispatch, Return, managerVars
    <2>3. QED
        BY <2>1, <2>2
<1>3. ASSUME NEW r \in Request, NEW s \in StateId, NEW kept \in SUBSET Account,
             pc' = [pc EXCEPT ![r] = "lock"], st' = [st EXCEPT ![r] = s], acct' = acct,
             locks' = LocksWith(kept, acct[r], s),
             s = locks[acct[r]] \/ Unreferenced(s)
      PROVE  OwnInv'
    <2>1. \A b \in Account : locks[b] = s => b = acct[r]
        BY <1>3 DEF Unreferenced
    <2>2. \A q \in Request : pc[q] \in InRefresh /\ st[q] = s => acct[q] = acct[r]
        BY <1>3 DEF Unreferenced
    <2>3. \A b \in Account :
            locks'[b] = IF b = acct[r] THEN s ELSE IF b \in kept THEN locks[b] ELSE NoState
        BY <1>3 DEF LocksWith
    <2>4. \A q \in Request : pc'[q] \in InRefresh => q = r \/ pc[q] \in InRefresh
        BY <1>3
    <2>5. \A q \in Request : st'[q] = IF q = r THEN s ELSE st[q]
        BY <1>3
    <2>6. \A a, b \in Account : locks'[a] = locks'[b] /\ locks'[a] # NoState => a = b
        BY <2>1, <2>3
    <2>7. ASSUME NEW q \in Request, NEW b \in Account, pc'[q] \in InRefresh, locks'[b] = st'[q]
          PROVE  b = acct[q]
        <3>1. CASE q = r
            BY <2>1, <2>3, <2>5, <2>7, <3>1
        <3>2. CASE q # r /\ b = acct[r]
            BY <2>2, <2>3, <2>4, <2>5, <2>7, <3>2
        <3>3. CASE q # r /\ b # acct[r]
            <4>1. st[q] \in StateId /\ pc[q] \in InRefresh
                BY <2>4, <2>7, <3>3
            <4>2. locks[b] = st[q]
                BY <2>3, <2>5, <2>7, <3>3, <4>1
            <4>3. QED
                BY <4>1, <4>2
        <3>4. QED
            BY <3>1, <3>2, <3>3
    <2>8. ASSUME NEW q \in Request, NEW p \in Request,
                 pc'[q] \in InRefresh, pc'[p] \in InRefresh, st'[q] = st'[p]
          PROVE  acct[q] = acct[p]
        BY <2>2, <2>4, <2>5, <2>8
    <2>9. QED
        BY <1>3, <2>6, <2>7, <2>8
<1>4. ASSUME NEW r \in Request, GetStateHit(r) \/ GetStateMiss(r) PROVE OwnInv'
    <2>1. pc' = [pc EXCEPT ![r] = "lock"] /\ acct' = acct
        BY <1>4 DEF GetStateHit, GetStateMiss, StateRequested, Finish
    <2>2. /\ \A victim : Kept \ {victim} \in SUBSET Account
          /\ Kept \in SUBSET Account
        BY DEF Kept, Tracked
    <2>3. CASE GetStateHit(r)
        <3>1. locks[acct[r]] \in StateId
            BY <2>3 DEF GetStateHit, Kept, Tracked
        <3>2. QED
            BY <1>3, <2>1, <2>2, <2>3, <3>1 DEF GetStateHit
    <2>4. CASE GetStateMiss(r)
        <3>1. PICK s \in StateId :
                /\ Unreferenced(s)
                /\ st' = [st EXCEPT ![r] = s]
                /\ \E kept \in SUBSET Account : locks' = LocksWith(kept, acct[r], s)
            BY <2>2, <2>4 DEF GetStateMiss
        <3>2. QED
            BY <1>3, <2>1, <3>1
    <2>5. QED
        BY <1>4, <2>3, <2>4
<1>5. CASE UNCHANGED <<now, managerVars, requestVars>> \/ Tick
    BY <1>5 DEF Tick, managerVars, requestVars
<1>6. CASE Crash
    BY <1>6 DEF Crash
<1>7. QED
    BY <1>1, <1>2, <1>4, <1>5, <1>6, StepKinds

\* A denial a state object remembers has been received for its account.
Backed(state, time) == state.err = "denied" => time # 0 /\ state.errAt <= time

DenialInv ==
    /\ now # 0
    /\ \A a \in Account : deniedAt[a] <= now
    /\ \A a \in Account : locks[a] # NoState => Backed(states[locks[a]], deniedAt[a])
    /\ \A r \in Request : pc[r] \in InRefresh => Backed(states[st[r]], deniedAt[acct[r]])

\* What an Inner step does to the recorded errors.
RecordsDenial(r) ==
    /\ deniedAt' = deniedAt \/ deniedAt' = [deniedAt EXCEPT ![acct[r]] = now]
    /\ \A s \in StateId :
         states'[s].err = "denied" =>
            \/ states[s].err = "denied" /\ states'[s].errAt = states[s].errAt
            \/ /\ s = st[r] /\ pc[r] \in InRefresh
               /\ states'[s].errAt = now /\ deniedAt'[acct[r]] = now

LEMMA InnerRecords ==
    ASSUME TypeInv, NEW r \in Request, InnerStep(r)
    PROVE  RecordsDenial(r)
<1> USE ConstantsAssumption
<1> USE DEF TypeInv, TypeOK, HoldsPointer, RecordsDenial
<1>1. CASE EnsureValid(r) \/ EnsureMissingKey(r) \/ ForwardWithoutToken(r)
    BY <1>1 DEF EnsureValid, EnsureMissingKey, ForwardWithoutToken, managerVars, historyVars
<1>2. CASE Acquire(r)
    BY <1>2
    DEF Acquire, ReuseRemembered, RefuseInCooldown, StartCall, managerVars, historyVars
<1>3. CASE Endpoint(r)
    BY <1>3
    DEF Endpoint, EndpointGrants, EndpointDenies, EndpointFails, Answer, managerVars, historyVars
<1>4. CASE Backoff(r)
    BY <1>4 DEF Backoff, BackoffElapsed, BackoffCancelled, managerVars, historyVars
<1>5. CASE ExchangeGranted(r) \/ RefreshGranted(r)
    <2>1. PICK kept : Adopt(r, kept)
        BY <1>5 DEF ExchangeGranted, RefreshGranted
    <2>2. QED
        BY <2>1 DEF Adopt, Remember
<1>6. CASE ExchangeFailed(r)
    BY <1>6 DEF ExchangeFailed, GiveUp
<1>7. ASSUME NEW err, RecordError(r, err), NEW s \in StateId
      PROVE  /\ s = st[r] => states'[s].err = err /\ states'[s].errAt = now
             /\ s # st[r] => states'[s] = states[s]
    <2>1. \A t \in RefreshState : /\ [t EXCEPT !.err = err, !.errAt = now].err = err
                                  /\ [t EXCEPT !.err = err, !.errAt = now].errAt = now
        BY DEF RefreshState
    <2>2. QED
        BY <1>7, <2>1 DEF RecordError
<1>8. CASE RefreshDenied(r)
    <2>1. deniedAt' = [deniedAt EXCEPT ![acct[r]] = now] /\ pc[r] = "replied"
        BY <1>8 DEF RefreshDenied, GiveUp, Replied
    <2>2. QED
        BY <1>7, <1>8, <2>1 DEF RefreshDenied
<1>9. CASE RefreshExhausted(r)
    <2>1. deniedAt' = deniedAt
        BY <1>9 DEF RefreshExhausted, GiveUp, Replied
    <2>2. QED
        BY <1>7, <1>9, <2>1 DEF RefreshExhausted
<1>10. CASE RefreshRetried(r)
    BY <1>10 DEF RefreshRetried, managerVars, historyVars
<1>11. QED
    BY <1>1, <1>2, <1>3, <1>4, <1>5, <1>6, <1>8, <1>9, <1>10 DEF InnerStep, Receive

LEMMA DenialStep ==
    ASSUME TypeInv, OwnInv, DenialInv, [Next]_vars
    PROVE  DenialInv'
<1> USE ConstantsAssumption
<1>t. /\ now \in Nat /\ pc \in [Request -> {"idle", "ensure", "forward", "dead", "transient"} \union InRefresh]
      /\ acct \in [Request -> Account] /\ st \in [Request -> StateId \union {NoState}]
      /\ locks \in [Account -> StateId \union {NoState}] /\ states \in [StateId -> RefreshState]
      /\ \A r \in Request : pc[r] \in InRefresh => st[r] \in StateId
      /\ deniedAt \in [Account -> Nat]
    BY DEF TypeInv, TypeOK, HoldsPointer
<1> USE <1>t DEF DenialInv
<1>1. ASSUME NEW r \in Request, InnerStep(r) PROVE DenialInv'
    <2>1. Inner(r) /\ RecordsDenial(r)
        BY <1>1, InnerSteps, InnerRecords
    <2>2. /\ \A a \in Account : deniedAt'[a] >= deniedAt[a] /\ deniedAt'[a] <= now
          /\ now' = now
        <3>1. now' = now /\ (deniedAt' = deniedAt \/ deniedAt' = [deniedAt EXCEPT ![acct[r]] = now])
            BY <2>1 DEF RecordsDenial, Inner
        <3>2. QED
            BY <3>1
    <2>3. ASSUME NEW s \in StateId, NEW a \in Account, Backed(states[s], deniedAt[a]),
                 s = st[r] /\ pc[r] \in InRefresh => a = acct[r]
          PROVE  Backed(states'[s], deniedAt'[a])
        <3>1. states[s].errAt \in Nat
            BY DEF RefreshState
        <3>2. QED
            BY <2>1, <2>2, <2>3, <3>1 DEF Backed, RecordsDenial
    <2>4. ASSUME NEW a \in Account, locks'[a] # NoState
          PROVE  Backed(states'[locks[a]], deniedAt'[a])
        BY <2>1, <2>3, <2>4 DEF Inner, OwnInv
    <2>5. ASSUME NEW q \in Request, pc'[q] \in InRefresh
          PROVE  Backed(states'[st[q]], deniedAt'[acct[q]])
        BY <2>1, <2>3, <2>5 DEF Inner, OwnInv
    <2>6. QED
        BY <2>1, <2>2, <2>4, <2>5 DEF Inner, Backed
<1>2. ASSUME NEW r \in Request, Dispatch(r) \/ Return(r) PROVE DenialInv'
    <2>1. \A q \in Request :
            pc'[q] \in InRefresh =>
                pc[q] \in InRefresh /\ acct'[q] = acct[q] /\ st'[q] = st[q]
        BY <1>2 DEF Dispatch, Return, Finish
    <2>2. UNCHANGED <<now, locks, states, deniedAt>>
        BY <1>2 DEF Dispatch, Return, managerVars, historyVars
    <2>3. QED
        BY <2>1, <2>2 DEF Backed
<1>3. ASSUME NEW r \in Request, NEW s \in StateId, NEW kept \in SUBSET Account,
             pc' = [pc EXCEPT ![r] = "lock"], st' = [st EXCEPT ![r] = s],
             UNCHANGED <<now, acct, deniedAt>>,
             locks' = LocksWith(kept, acct[r], s),
             Backed(states'[s], deniedAt'[acct[r]]),
             \A t \in StateId \ {s} : states'[t] = states[t],
             s = locks[acct[r]] \/ Unreferenced(s)
      PROVE  DenialInv'
    <2>1. ASSUME NEW t \in StateId, t # s, NEW b \in Account, Backed(states[t], deniedAt[b])
          PROVE  Backed(states'[t], deniedAt'[b])
        BY <1>3, <2>1 DEF Backed
    <2>2. ASSUME NEW b \in Account, locks'[b] # NoState
          PROVE  Backed(states'[locks'[b]], deniedAt'[b])
        <3>1. CASE b = acct[r]
            BY <1>3, <3>1 DEF LocksWith, Backed
        <3>2. CASE b # acct[r]
            <4>1. locks'[b] = locks[b] /\ locks[b] \in StateId
                BY <1>3, <2>2, <3>2 DEF LocksWith
            <4>2. locks[b] # s
                BY <1>3, <3>2, <4>1 DEF OwnInv, Unreferenced
            <4>3. Backed(states'[locks[b]], deniedAt'[b])
                BY <2>1, <4>1, <4>2
            <4>4. QED
                BY <4>1, <4>3 DEF Backed
        <3>3. QED
            BY <3>1, <3>2
    <2>3. ASSUME NEW q \in Request, pc'[q] \in InRefresh
          PROVE  Backed(states'[st'[q]], deniedAt'[acct[q]])
        <3>1. CASE st'[q] = s
            <4>1. acct[q] = acct[r]
                BY <1>3, <2>3, <3>1 DEF OwnInv, Unreferenced
            <4>2. QED
                BY <1>3, <3>1, <4>1 DEF Backed
        <3>2. CASE st'[q] # s
            <4>1. q # r /\ pc[q] \in InRefresh /\ st'[q] = st[q] /\ st[q] \in StateId
                BY <1>3, <2>3, <3>2
            <4>2. Backed(states'[st[q]], deniedAt'[acct[q]])
                BY <2>1, <3>2, <4>1
            <4>3. QED
                BY <4>1, <4>2 DEF Backed
        <3>3. QED
            BY <3>1, <3>2
    <2>4. QED
        BY <1>3, <2>2, <2>3 DEF Backed
<1>4. ASSUME NEW r \in Request, GetStateHit(r) PROVE DenialInv'
    <2>1. locks[acct[r]] \in StateId /\ Kept \in SUBSET Account
        BY <1>4 DEF GetStateHit, Kept, Tracked
    <2>2. \A s \in RefreshState : /\ [s EXCEPT !.seenAt = now].err = s.err
                                  /\ [s EXCEPT !.seenAt = now].errAt = s.errAt
        BY DEF RefreshState
    <2>3. /\ states'[locks[acct[r]]].err = states[locks[acct[r]]].err
          /\ states'[locks[acct[r]]].errAt = states[locks[acct[r]]].errAt
          /\ \A t \in StateId \ {locks[acct[r]]} : states'[t] = states[t]
        BY <1>4, <2>1, <2>2 DEF GetStateHit
    <2>4. UNCHANGED <<now, acct, deniedAt>> /\ pc' = [pc EXCEPT ![r] = "lock"]
        BY <1>4 DEF GetStateHit, StateRequested, Finish, historyVars
    <2>5. Backed(states[locks[acct[r]]], deniedAt[acct[r]])
        BY <2>1
    <2>6. QED
        BY <1>3, <1>4, <2>1, <2>3, <2>4, <2>5 DEF GetStateHit, Backed
<1>5. ASSUME NEW r \in Request, GetStateMiss(r) PROVE DenialInv'
    <2>1. /\ \A victim : Kept \ {victim} \in SUBSET Account
          /\ Kept \in SUBSET Account
        BY DEF Kept, Tracked
    <2>2. PICK s \in StateId :
            /\ Unreferenced(s)
            /\ states' = [states EXCEPT ![s] = NewRefreshState]
            /\ st' = [st EXCEPT ![r] = s]
            /\ \E kept \in SUBSET Account : locks' = LocksWith(kept, acct[r], s)
        BY <1>5, <2>1 DEF GetStateMiss
    <2>3. states'[s].err = "none" /\ \A t \in StateId \ {s} : states'[t] = states[t]
        BY <2>2 DEF NewRefreshState
    <2>4. UNCHANGED <<now, acct, deniedAt>> /\ pc' = [pc EXCEPT ![r] = "lock"]
        BY <1>5 DEF GetStateMiss, StateRequested, Finish, historyVars
    <2>5. QED
        BY <1>3, <2>2, <2>3, <2>4 DEF Backed
<1>6. CASE UNCHANGED <<now, managerVars, requestVars, historyVars>>
    BY <1>6 DEF managerVars, requestVars, historyVars, Backed
<1>7. CASE Tick
    BY <1>7 DEF Tick, managerVars, requestVars, historyVars, Backed
<1>8. CASE Crash
    BY <1>8 DEF Crash
<1>9. QED
    BY <1>1, <1>2, <1>4, <1>5, <1>6, <1>7, <1>8, StepKinds

\* Session keys belong to session_key accounts, a grant carries a token, and
\* whoever goes on to forward without a token has no session key either.
TokenInv ==
    /\ \A a \in Account : a \notin SessionAccount => core[a].sk = FALSE
    /\ \A r \in Request :
         /\ acct[r] \notin SessionAccount => creds[r].sk = FALSE
         /\ reply[r].kind = "granted" => reply[r].at # 0
         /\ pc[r] = "forward" => creds[r].at # 0 \/ creds[r].sk = FALSE

LEMMA MergeKeepsToken ==
    ASSUME NEW c \in Credentials, NEW u \in Update
    PROVE  /\ Merge(c, u).sk = c.sk
           /\ u.at # 0 => Merge(c, u).at # 0
BY DEF Merge, Credentials, Update

LEMMA TokenStep ==
    ASSUME TypeInv, TokenInv, [Next]_vars
    PROVE  TokenInv'
<1> USE ConstantsAssumption
<1> USE DEF TypeInv, TypeOK, HoldsPointer, TokenInv, Finish
<1>1. CASE UNCHANGED vars
    BY <1>1 DEF vars, requestVars
<1>2. ASSUME NEW r \in Request, Dispatch(r) PROVE TokenInv'
    BY <1>2 DEF Dispatch
<1>3. ASSUME NEW r \in Request, Ensure(r) PROVE TokenInv'
    <2>1. CASE EnsureValid(r)
        BY <2>1 DEF EnsureValid, NeedsNoRefresh, NeedsExchange
    <2>2. CASE EnsureMissingKey(r)
        BY <2>2 DEF EnsureMissingKey
    <2>3. CASE GetStateHit(r) \/ GetStateMiss(r)
        BY <2>3 DEF GetStateHit, GetStateMiss, StateRequested
    <2>4. QED
        BY <1>3, <2>1, <2>2, <2>3 DEF Ensure
<1>4. ASSUME NEW r \in Request, Acquire(r) PROVE TokenInv'
    <2>1. CASE ReuseRemembered(r)
        <3> DEFINE merged == Merge(creds[r], Remembered(st[r]))
        <3>1. st[r] \in StateId /\ Remembered(st[r]).at # 0
            BY <2>1 DEF ReuseRemembered, Locks, Fresh, Remembered
        <3>2. merged.at # 0 /\ merged.sk = creds[r].sk
            BY <3>1, RememberedType, MergeKeepsToken
        <3>3. creds' = [creds EXCEPT ![r] = merged]
            BY <2>1 DEF ReuseRemembered
        <3> HIDE DEF merged
        <3>4. QED
            BY <2>1, <3>2, <3>3 DEF ReuseRemembered
    <2>2. CASE RefuseInCooldown(r) \/ StartCall(r)
        BY <2>2 DEF RefuseInCooldown, StartCall
    <2>3. QED
        BY <1>4, <2>1, <2>2 DEF Acquire
<1>5. ASSUME NEW r \in Request, Endpoint(r) PROVE TokenInv'
    <2>1. PICK answer : Answer(r, answer) /\ (answer.kind = "granted" => answer.at # 0)
        <3>1. CASE EndpointGrants(r)
            BY <3>1 DEF EndpointGrants, Failure
        <3>2. CASE EndpointDenies(r) \/ EndpointFails(r)
            BY <3>2 DEF EndpointDenies, EndpointFails, Failure
        <3>3. QED
            BY <1>5, <3>1, <3>2 DEF Endpoint
    <2>2. QED
        BY <2>1 DEF Answer
<1>6. NoReply.kind # "granted"
    BY DEF NoReply, Failure
<1>7. ASSUME NEW r \in Request, Receive(r) PROVE TokenInv'
    <2>1. CASE ExchangeGranted(r) \/ RefreshGranted(r)
        <3>1. PICK kept : Adopt(r, kept)
            BY <2>1 DEF ExchangeGranted, RefreshGranted
        <3>2. reply[r].at # 0
            BY <2>1 DEF ExchangeGranted, RefreshGranted, Replied
        <3>3. creds'[r].at # 0 /\ creds'[r].sk = creds[r].sk
            BY <3>1, <3>2 DEF Adopt
        <3>4. QED
            BY <1>6, <3>1, <3>3 DEF Adopt
    <2>2. CASE ExchangeFailed(r) \/ RefreshDenied(r) \/ RefreshExhausted(r)
        BY <1>6, <2>2 DEF ExchangeFailed, RefreshDenied, RefreshExhausted, GiveUp
    <2>3. CASE RefreshRetried(r)
        BY <1>6, <2>3 DEF RefreshRetried
    <2>4. QED
        BY <1>7, <2>1, <2>2, <2>3 DEF Receive
<1>8. ASSUME NEW r \in Request, Backoff(r) PROVE TokenInv'
    BY <1>8 DEF Backoff, BackoffElapsed, BackoffCancelled
<1>9. NoCredentials.sk = FALSE
    BY DEF NoCredentials
<1>10. ASSUME NEW r \in Request, Return(r), \A a \in Account : core'[a].sk = core[a].sk
       PROVE  TokenInv'
    BY <1>9, <1>10 DEF Return
<1>11. ASSUME NEW r \in Request, Forward(r) PROVE TokenInv'
    <2>1. CASE ForwardWithoutToken(r)
        BY <2>1 DEF ForwardWithoutToken
    <2>2. CASE ForwardCompletes(r)
        <3>1. Merge(core[acct[r]], updated[r]).sk = core[acct[r]].sk
            BY MergeKeepsToken
        <3>2. QED
            BY <1>10, <2>2, <3>1 DEF ForwardCompletes
    <2>3. CASE ForwardFails(r) \/ ReturnError(r)
        BY <1>10, <2>3 DEF ForwardFails, ReturnError
    <2>4. QED
        BY <1>11, <2>1, <2>2, <2>3 DEF Forward
<1>12. CASE Tick
    BY <1>12 DEF Tick, requestVars
<1>13. ASSUME NEW a \in Account, Revoke(a) \/ Relogin(a) \/ AdminRefresh(a) PROVE TokenInv'
    <2>1. UNCHANGED <<now, requestVars, historyVars>> /\ \A b \in Account : core'[b].sk = core[b].sk
        BY <1>13, SMTT(30) DEF Revoke, Relogin, AdminRefresh
    <2>2. QED
        BY <2>1 DEF requestVars
<1>14. CASE Crash
    BY <1>6, <1>9, <1>14 DEF Crash
<1>15. QED
    BY <1>1, <1>2, <1>3, <1>4, <1>5, <1>7, <1>8, <1>11, <1>12, <1>13, <1>14 DEF Next

CondemnInv == TypeInv /\ OwnInv /\ DenialInv /\ TokenInv

\* The verdict "dead" of one request in one step, see DeadOnlyIfDenied.
Condemned(r) ==
    pc[r] # "dead" /\ pc'[r] = "dead" =>
        \/ creds[r].at = 0 /\ ~creds[r].sk
        \/ deniedAt'[acct[r]] # 0 /\ now - deniedAt'[acct[r]] < Cooldown

LEMMA CondemnedStep ==
    ASSUME CondemnInv, [Next]_vars, NEW q \in Request
    PROVE  Condemned(q)
<1> USE ConstantsAssumption
<1> USE DEF CondemnInv, TypeInv, TypeOK, HoldsPointer, Condemned, Finish
<1>1. CASE UNCHANGED vars
    BY <1>1 DEF vars, requestVars
<1>2. ASSUME NEW r \in Request, Dispatch(r) \/ Return(r) PROVE Condemned(q)
    BY <1>2 DEF Dispatch, Return
<1>3. ASSUME NEW r \in Request, Ensure(r) PROVE Condemned(q)
    <2>1. CASE EnsureMissingKey(r)
        BY <2>1 DEF EnsureMissingKey, NeedsExchange
    <2>2. CASE EnsureValid(r) \/ GetStateHit(r) \/ GetStateMiss(r)
        BY <2>2 DEF EnsureValid, GetStateHit, GetStateMiss, StateRequested
    <2>3. QED
        BY <1>3, <2>1, <2>2 DEF Ensure
<1>4. ASSUME NEW r \in Request, Acquire(r) PROVE Condemned(q)
    <2>1. CASE RefuseInCooldown(r)
        <3>1. /\ st[r] \in StateId
              /\ Backed(states[st[r]], deniedAt[acct[r]])
              /\ states[st[r]].err = "denied" /\ now - states[st[r]].errAt < Cooldown
            BY <2>1 DEF RefuseInCooldown, Locks, CoolingDown, DenialInv
        <3>2. states[st[r]].errAt \in Nat
            BY <3>1 DEF RefreshState
        <3>3. deniedAt[acct[r]] # 0 /\ now - deniedAt[acct[r]] < Cooldown
            BY <3>1, <3>2 DEF Backed
        <3>4. QED
            BY <2>1, <3>3 DEF RefuseInCooldown, historyVars
    <2>2. CASE ReuseRemembered(r) \/ StartCall(r)
        BY <2>2 DEF ReuseRemembered, StartCall
    <2>3. QED
        BY <1>4, <2>1, <2>2 DEF Acquire
<1>5. ASSUME NEW r \in Request, Endpoint(r) PROVE Condemned(q)
    <2>1. PICK answer : Answer(r, answer)
        BY <1>5 DEF Endpoint, EndpointGrants, EndpointDenies, EndpointFails
    <2>2. QED
        BY <2>1 DEF Answer
<1>6. ASSUME NEW r \in Request, reply[r].kind = "denied", GiveUp(r, "dead") PROVE Condemned(q)
    <2>1. deniedAt'[acct[r]] = now /\ now # 0
        BY <1>6 DEF GiveUp, DenialInv
    <2>2. QED
        BY <1>6, <2>1 DEF GiveUp
<1>7. ASSUME NEW r \in Request, Receive(r) PROVE Condemned(q)
    <2>1. CASE ExchangeGranted(r) \/ RefreshGranted(r)
        BY <2>1 DEF ExchangeGranted, RefreshGranted, Adopt
    <2>2. CASE ExchangeFailed(r)
        <3>1. CASE Replied(r, "denied") /\ GiveUp(r, "dead")
            BY <1>6, <3>1 DEF Replied
        <3>2. CASE GiveUp(r, "transient")
            BY <3>2 DEF GiveUp
        <3>3. QED
            BY <2>2, <3>1, <3>2 DEF ExchangeFailed
    <2>3. CASE RefreshDenied(r)
        BY <1>6, <2>3 DEF RefreshDenied, Replied
    <2>4. CASE RefreshExhausted(r)
        BY <2>4 DEF RefreshExhausted, GiveUp
    <2>5. CASE RefreshRetried(r)
        BY <2>5 DEF RefreshRetried
    <2>6. QED
        BY <1>7, <2>1, <2>2, <2>3, <2>4, <2>5 DEF Receive
<1>8. ASSUME NEW r \in Request, Backoff(r) PROVE Condemned(q)
    BY <1>8 DEF Backoff, BackoffElapsed, BackoffCancelled
<1>9. ASSUME NEW r \in Request, Forward(r) PROVE Condemned(q)
    <2>1. CASE ForwardWithoutToken(r)
        BY <2>1 DEF ForwardWithoutToken, TokenInv
    <2>2. CASE Return(r)
        BY <1>2, <2>2
    <2>3. QED
        BY <1>9, <2>1, <2>2 DEF Forward, ForwardCompletes, ForwardFails, ReturnError
<1>10. CASE Tick \/ (\E a \in Account : Revoke(a) \/ Relogin(a) \/ AdminRefresh(a))
    BY <1>10 DEF Tick, Revoke, Relogin, AdminRefresh, requestVars
<1>11. CASE Crash
    BY <1>11 DEF Crash
<1>12. QED
    BY <1>1, <1>2, <1>3, <1>4, <1>5, <1>7, <1>8, <1>9, <1>10, <1>11 DEF Next

\* token_manager.go, doRefresh and ensureValidToken: only the endpoint's own
\* refusal, received for this very account less than a cooldown ago, or the
\* lack of any credential makes a request report that the account is dead.
\* State objects that are evicted, created again or shared between requests
\* never carry the refusal of one account to another.
THEOREM CondemnsOnlyIfDenied == Spec => DeadOnlyIfDenied
<1>1. Init => CondemnInv
    <2>1. ASSUME Init PROVE OwnInv /\ DenialInv
        BY <2>1, ConstantsAssumption DEF Init, OwnInv, DenialInv
    <2>2. ASSUME Init PROVE TokenInv
        <3>1. ASSUME NEW a \in Account, a \notin SessionAccount PROVE core[a].sk = FALSE
            BY <2>2, <3>1 DEF Init, StoredCredentials
        <3>2. QED
            BY <2>2, <3>1 DEF Init, TokenInv, NoReply, Failure, NoCredentials
    <2>3. QED
        BY <2>1, <2>2, InitType DEF CondemnInv, Init, TypeInv, HoldsPointer
<1>2. CondemnInv /\ [Next]_vars => CondemnInv'
    BY StepType, OwnStep, DenialStep, TokenStep DEF CondemnInv
<1>3. CondemnInv /\ [Next]_vars =>
        [\A r \in Request :
           pc[r] # "dead" /\ pc'[r] = "dead" =>
              \/ creds[r].at = 0 /\ ~creds[r].sk
              \/ deniedAt'[acct[r]] # 0 /\ now - deniedAt'[acct[r]] < Cooldown]_vars
    BY CondemnedStep DEF Condemned
<1>4. QED
    BY <1>1, <1>2, <1>3, PTL DEF Spec, DeadOnlyIfDenied

-----------------------------------------------------------------------------
(* The cap of the table.                                                    *)

TableInv == IsFiniteSet(Tracked) /\ Cardinality(Tracked) <= MaxEntries

\* The table after a lookup holds what was kept and the account asked for.
LEMMA TrackedAfterLookup ==
    ASSUME TypeInv, NEW a \in Account, NEW s \in StateId, NEW kept \in SUBSET Tracked,
           locks' = LocksWith(kept, a, s)
    PROVE  Tracked' = kept \union {a}
BY ConstantsAssumption DEF Tracked, LocksWith, TypeInv, TypeOK

LEMMA KeptBounded ==
    ASSUME TableInv
    PROVE  /\ Kept \subseteq Tracked /\ IsFiniteSet(Kept)
           /\ Cardinality(Kept) \in Nat /\ Cardinality(Kept) <= MaxEntries
<1>1. Kept \subseteq Tracked
    BY DEF Kept
<1>2. /\ IsFiniteSet(Kept) /\ Cardinality(Kept) <= Cardinality(Tracked)
      /\ Cardinality(Kept) \in Nat /\ Cardinality(Tracked) \in Nat
    BY <1>1, FS_Subset, FS_CardinalityType DEF TableInv
<1>3. QED
    BY <1>1, <1>2, ConstantsAssumption DEF TableInv

LEMMA TableStep ==
    ASSUME TypeInv, TableInv, [Next]_vars
    PROVE  TableInv'
<1> USE ConstantsAssumption
<1>1. ASSUME locks' = locks PROVE TableInv'
    BY <1>1 DEF TableInv, Tracked
<1>2. ASSUME NEW r \in Request, GetStateHit(r) PROVE TableInv'
    <2>1. acct[r] \in Account /\ acct[r] \in Kept /\ locks[acct[r]] \in StateId
        BY <1>2 DEF GetStateHit, Kept, Tracked, TypeInv, TypeOK
    <2>2. Tracked' = Kept \union {acct[r]}
        BY <1>2, <2>1, KeptBounded, TrackedAfterLookup DEF GetStateHit
    <2>3. Tracked' = Kept
        BY <2>1, <2>2
    <2>4. QED
        BY <2>3, KeptBounded DEF TableInv
<1>3. ASSUME NEW r \in Request, GetStateMiss(r) PROVE TableInv'
    <2>1. PICK s \in StateId :
            IF TableFull
            THEN \E victim \in Oldest : locks' = LocksWith(Kept \ {victim}, acct[r], s)
            ELSE locks' = LocksWith(Kept, acct[r], s)
        BY <1>3 DEF GetStateMiss
    <2>2. acct[r] \in Account
        BY DEF TypeInv, TypeOK
    <2>3. ASSUME NEW kept \in SUBSET Kept, locks' = LocksWith(kept, acct[r], s),
                 IsFiniteSet(kept), Cardinality(kept) \in Nat, Cardinality(kept) < MaxEntries
          PROVE  TableInv'
        <3>1. Tracked' = kept \union {acct[r]}
            BY <2>2, <2>3, KeptBounded, TrackedAfterLookup
        <3>2. /\ IsFiniteSet(kept \union {acct[r]})
              /\ \/ Cardinality(kept \union {acct[r]}) = Cardinality(kept)
                 \/ Cardinality(kept \union {acct[r]}) = Cardinality(kept) + 1
            BY <2>3, FS_AddElement
        <3>3. QED
            BY <2>3, <3>1, <3>2 DEF TableInv
    <2>4. CASE TableFull
        <3>1. PICK victim \in Oldest : locks' = LocksWith(Kept \ {victim}, acct[r], s)
            BY <2>1, <2>4
        <3>2. victim \in Kept
            BY DEF Oldest
        <3>3. /\ IsFiniteSet(Kept \ {victim})
              /\ Cardinality(Kept \ {victim}) = Cardinality(Kept) - 1
            BY <3>2, KeptBounded, FS_RemoveElement
        <3>4. Cardinality(Kept \ {victim}) \in Nat
            BY <3>3, FS_CardinalityType
        <3>5. QED
            BY <2>3, <3>1, <3>3, <3>4, KeptBounded
    <2>5. CASE ~TableFull
        BY <2>1, <2>3, <2>5, KeptBounded DEF TableFull
    <2>6. QED
        BY <2>4, <2>5
<1>4. CASE Crash
    <2>1. Tracked' = {}
        BY <1>4 DEF Crash, Tracked
    <2>2. QED
        BY <2>1, FS_EmptySet DEF TableInv
<1>5. ASSUME NEW r \in Request, InnerStep(r) PROVE TableInv'
    BY <1>1, <1>5, InnerSteps DEF Inner
<1>6. ASSUME NEW r \in Request, Dispatch(r) \/ Return(r) PROVE TableInv'
    BY <1>1, <1>6 DEF Dispatch, Return, managerVars
<1>7. CASE UNCHANGED <<now, managerVars, requestVars, historyVars>> \/ Tick
    BY <1>1, <1>7 DEF Tick, managerVars
<1>8. QED
    BY <1>2, <1>3, <1>4, <1>5, <1>6, <1>7, StepKinds

\* getState: the table never holds more than tokenStateMaxEntries state
\* objects, however many accounts Core schedules and whatever is still in use.
THEOREM TableKeepsToCap == Spec => []TableBounded
<1>1. Init => TypeInv /\ TableInv
    <2>1. ASSUME Init PROVE Tracked = {}
        BY <2>1 DEF Init, Tracked
    <2>2. ASSUME Init PROVE TableInv
        BY <2>1, <2>2, FS_EmptySet, ConstantsAssumption DEF TableInv
    <2>3. ASSUME Init PROVE TypeInv
        BY <2>3, InitType DEF Init, TypeInv, HoldsPointer
    <2>4. QED
        BY <2>2, <2>3
<1>2. TypeInv /\ TableInv /\ [Next]_vars => TypeInv' /\ TableInv'
    BY StepType, TableStep
<1>3. TableInv => TableBounded
    BY DEF TableInv, TableBounded
<1>4. QED
    BY <1>1, <1>2, <1>3, PTL DEF Spec

-----------------------------------------------------------------------------
(* What a state object remembers.                                           *)

\* The refresh token a request will remember with the grant it has received.
Keeps(r) == IF NeedsExchange(r) THEN reply[r].rt ELSE KeptRefreshToken(r)

\* What arrived as a grant is one: its access token and the refresh token that
\* will be remembered with it were current together.
AnswerInv ==
    \A r \in Request :
        Replied(r, "granted") => <<reply[r].at, Keeps(r)>> \in grants[acct[r]]

GrantInv == TypeInv /\ OwnInv /\ AnswerInv /\ RememberedIsOneGrant


\* Nothing takes a grant out of the history.
LEMMA GrantsGrow ==
    ASSUME TypeInv, [Next]_vars
    PROVE  \A a \in Account : grants[a] \subseteq grants'[a]
<1>1. ASSUME NEW r \in Request, EndpointGrants(r) PROVE \A a \in Account : grants[a] \subseteq grants'[a]
    <2>1. PICK rotates \in BOOLEAN : Grant(r, rotates)
        BY <1>1 DEF EndpointGrants
    <2>2. QED
        BY <2>1 DEF Grant, TypeInv, TypeOK
<1>2. ASSUME NEW a \in Account, Relogin(a) PROVE \A b \in Account : grants[b] \subseteq grants'[b]
    BY <1>2 DEF Relogin, TypeInv, TypeOK
<1>3. ASSUME NEW a \in Account, AdminRefresh(a)
      PROVE  \A b \in Account : grants[b] \subseteq grants'[b]
    BY <1>3 DEF AdminRefresh, TypeInv, TypeOK
<1>4. ASSUME NEW r \in Request, Receive(r) \/ Backoff(r) PROVE grants' = grants
    BY <1>4
    DEF Receive, Backoff, ExchangeGranted, ExchangeFailed, RefreshGranted, RefreshDenied,
        RefreshRetried, RefreshExhausted, BackoffElapsed, BackoffCancelled, Adopt, GiveUp,
        endpointVars
<1>5. ASSUME NEW r \in Request,
             Dispatch(r) \/ Ensure(r) \/ Acquire(r) \/ Forward(r) \/ EndpointDenies(r) \/ EndpointFails(r)
      PROVE  grants' = grants
    BY <1>5
    DEF Dispatch, Ensure, Acquire, Forward, EnsureValid, EnsureMissingKey, GetStateHit,
        GetStateMiss, StateRequested, ReuseRemembered, RefuseInCooldown, StartCall,
        EndpointDenies, EndpointFails, ForwardWithoutToken, ForwardCompletes, ForwardFails,
        ReturnError, Return, endpointVars
<1>6. ASSUME Tick \/ Crash \/ (\E a \in Account : Revoke(a)) \/ UNCHANGED vars PROVE grants' = grants
    BY <1>6 DEF Tick, Crash, Revoke, vars, endpointVars
<1>7. QED
    BY <1>1, <1>2, <1>3, <1>4, <1>5, <1>6 DEF Next, Endpoint

\* The endpoint answers with the grant it has issued.
LEMMA AnswersWithItsGrant ==
    ASSUME TypeInv, NEW r \in Request, EndpointGrants(r), Replied(r, "granted")'
    PROVE  <<reply[r].at, Keeps(r)>>' \in grants'[acct'[r]]
<1> DEFINE new == issued[acct[r]] + 1
<1>1. /\ acct[r] \in Account /\ issued[acct[r]] \in Nat /\ creds[r].rt \in Nat /\ new # 0
      /\ grants \in [Account -> SUBSET (Nat \X Nat)]
      /\ reply \in [Request -> Reply]
    BY DEF TypeInv, TypeOK, Credentials
<1>2. PICK rotates \in BOOLEAN, life \in Lifetimes :
        /\ Grant(r, rotates)
        /\ \/ Answer(r, [kind |-> "granted", at |-> new, rt |-> IF rotates THEN new ELSE 0,
                         life |-> life])
           \/ Answer(r, Failure("failed"))
    BY DEF EndpointGrants
<1>3. Answer(r, [kind |-> "granted", at |-> new, rt |-> IF rotates THEN new ELSE 0, life |-> life])
    <2>1. CASE Answer(r, Failure("failed"))
        <3>1. reply'[r].kind = "failed"
            BY <1>1, <2>1 DEF Answer, Failure
        <3>2. QED
            BY <3>1 DEF Replied
    <2>2. QED
        BY <1>2, <2>1
<1>4. /\ acct' = acct /\ creds' = creds
      /\ reply'[r] = [kind |-> "granted", at |-> new, rt |-> IF rotates THEN new ELSE 0, life |-> life]
    BY <1>1, <1>3 DEF Answer
<1>5. <<new, IF rotates THEN new ELSE IF NeedsExchange(r) THEN 0 ELSE creds[r].rt>>
        \in grants'[acct[r]]
    BY <1>1, <1>2 DEF Grant
<1>6. NeedsExchange(r)' <=> NeedsExchange(r)
    BY <1>4 DEF NeedsExchange
<1>7. CASE rotates
    <2>1. reply'[r].rt = new /\ reply'[r].at = new
        BY <1>4, <1>7
    <2>2. Keeps(r)' = new
        BY <1>1, <2>1 DEF Keeps, KeptRefreshToken
    <2>3. QED
        BY <1>4, <1>5, <1>7, <2>1, <2>2
<1>8. CASE ~rotates
    <2>1. reply'[r].rt = 0 /\ reply'[r].at = new
        BY <1>4, <1>8
    <2>2. Keeps(r)' = IF NeedsExchange(r) THEN 0 ELSE creds[r].rt
        BY <1>4, <1>6, <2>1 DEF Keeps, KeptRefreshToken
    <2>3. QED
        BY <1>4, <1>5, <1>8, <2>1, <2>2
<1>9. QED
    BY <1>7, <1>8

\* A reply is answered for as long as the request has not acted on it.
LEMMA AnswerStep ==
    ASSUME TypeInv, AnswerInv, [Next]_vars
    PROVE  AnswerInv'
<1> SUFFICES ASSUME NEW q \in Request, Replied(q, "granted")'
             PROVE  <<reply[q].at, Keeps(q)>>' \in grants'[acct'[q]]
    BY DEF AnswerInv
<1>1. ASSUME Replied(q, "granted"), acct'[q] = acct[q], creds'[q] = creds[q], reply'[q] = reply[q]
      PROVE  <<reply[q].at, Keeps(q)>>' \in grants'[acct'[q]]
    <2>1. <<reply[q].at, Keeps(q)>> \in grants[acct[q]] /\ acct[q] \in Account
        BY <1>1 DEF AnswerInv, TypeInv, TypeOK
    <2>2. Keeps(q)' = Keeps(q)
        BY <1>1 DEF Keeps, KeptRefreshToken, NeedsExchange
    <2>3. QED
        BY <1>1, <2>1, <2>2, GrantsGrow
<1>t. pc \in [Request -> {"idle", "ensure", "forward", "dead", "transient"} \union InRefresh]
    BY DEF TypeInv, TypeOK
<1>2. ASSUME NEW r \in Request, r # q, pc'[q] = pc[q], acct'[q] = acct[q], creds'[q] = creds[q],
             reply'[q] = reply[q]
      PROVE  <<reply[q].at, Keeps(q)>>' \in grants'[acct'[q]]
    BY <1>1, <1>2 DEF Replied
<1>3. ASSUME NEW r \in Request, NEW p, pc' = [pc EXCEPT ![r] = p], p # "replied"
      PROVE  r # q /\ pc'[q] = pc[q]
    BY <1>t, <1>3 DEF Replied
<1>4. ASSUME NEW r \in Request, Dispatch(r) \/ Ensure(r) \/ Acquire(r) \/ Forward(r)
      PROVE  <<reply[q].at, Keeps(q)>>' \in grants'[acct'[q]]
    <2>1. PICK p : pc' = [pc EXCEPT ![r] = p] /\ p # "replied"
        BY <1>4
        DEF Dispatch, Ensure, Acquire, Forward, EnsureValid, EnsureMissingKey, GetStateHit,
            GetStateMiss, StateRequested, ReuseRemembered, RefuseInCooldown, StartCall,
            ForwardWithoutToken, ForwardCompletes, ForwardFails, ReturnError, Return, Finish
    <2>2. r # q /\ pc'[q] = pc[q]
        BY <1>3, <2>1
    <2>3. acct'[q] = acct[q] /\ creds'[q] = creds[q] /\ reply'[q] = reply[q]
        BY <1>4, <2>2
        DEF Dispatch, Ensure, Acquire, Forward, EnsureValid, EnsureMissingKey, GetStateHit,
            GetStateMiss, StateRequested, ReuseRemembered, RefuseInCooldown, StartCall,
            ForwardWithoutToken, ForwardCompletes, ForwardFails, ReturnError, Return,
            TypeInv, TypeOK
    <2>4. QED
        BY <1>2, <2>2, <2>3
<1>5. ASSUME NEW r \in Request, Receive(r) \/ Backoff(r)
      PROVE  <<reply[q].at, Keeps(q)>>' \in grants'[acct'[q]]
    <2>1. PICK p : pc' = [pc EXCEPT ![r] = p] /\ p # "replied"
        BY <1>5
        DEF Receive, Backoff, ExchangeGranted, ExchangeFailed, RefreshGranted, RefreshDenied,
            RefreshRetried, RefreshExhausted, BackoffElapsed, BackoffCancelled, Adopt, GiveUp,
            Finish
    <2>2. r # q /\ pc'[q] = pc[q]
        BY <1>3, <2>1
    <2>3. acct'[q] = acct[q] /\ creds'[q] = creds[q] /\ reply'[q] = reply[q]
        BY <1>5, <2>2
        DEF Receive, Backoff, ExchangeGranted, ExchangeFailed, RefreshGranted, RefreshDenied,
            RefreshRetried, RefreshExhausted, BackoffElapsed, BackoffCancelled, Adopt, GiveUp,
            TypeInv, TypeOK
    <2>4. QED
        BY <1>2, <2>2, <2>3
<1>6. ASSUME NEW r \in Request, NEW answer, Answer(r, answer), r # q
      PROVE  <<reply[q].at, Keeps(q)>>' \in grants'[acct'[q]]
    <2>1. pc'[q] = pc[q] /\ acct'[q] = acct[q] /\ creds'[q] = creds[q] /\ reply'[q] = reply[q]
        BY <1>6 DEF Answer, Finish, TypeInv, TypeOK
    <2>2. QED
        BY <1>2, <1>6, <2>1
<1>7. ASSUME NEW r \in Request, EndpointGrants(r)
      PROVE  <<reply[q].at, Keeps(q)>>' \in grants'[acct'[q]]
    <2>1. CASE r = q
        BY <1>7, <2>1, AnswersWithItsGrant
    <2>2. CASE r # q
        BY <1>6, <1>7, <2>2 DEF EndpointGrants
    <2>3. QED
        BY <2>1, <2>2
<1>8. ASSUME NEW r \in Request, EndpointDenies(r) \/ EndpointFails(r)
      PROVE  <<reply[q].at, Keeps(q)>>' \in grants'[acct'[q]]
    <2>1. PICK kind \in {"denied", "failed"} : Answer(r, Failure(kind))
        BY <1>8 DEF EndpointDenies, EndpointFails
    <2>2. CASE r = q
        <3>1. reply'[q].kind = kind
            BY <2>1, <2>2 DEF Answer, Failure, TypeInv, TypeOK
        <3>2. QED
            BY <3>1 DEF Replied
    <2>3. QED
        BY <1>6, <2>1, <2>2
<1>9. CASE Tick \/ (\E a \in Account : Revoke(a) \/ Relogin(a) \/ AdminRefresh(a)) \/ UNCHANGED vars
    BY <1>1, <1>9 DEF Tick, Revoke, Relogin, AdminRefresh, vars, requestVars, Replied
<1>10. CASE Crash
    BY <1>10 DEF Crash, Replied
<1>11. QED
    BY <1>4, <1>5, <1>7, <1>8, <1>9, <1>10 DEF Next, Endpoint


\* An entry that stays where it is with the tokens it has remains a grant.
LEMMA SameEntryStays ==
    ASSUME GrantInv, [Next]_vars, NEW a \in Account, NEW s \in StateId, locks[a] = s,
           states'[s].at = states[s].at, states'[s].rt = states[s].rt, states'[s].at # 0
    PROVE  <<states'[s].at, states'[s].rt>> \in grants'[a]
<1>1. <<states[s].at, states[s].rt>> \in grants[a]
    BY ConstantsAssumption DEF GrantInv, RememberedIsOneGrant
<1>2. QED
    BY <1>1, GrantsGrow DEF GrantInv

\* A granted reply changes the object of the request's account only, and makes
\* it remember what was granted.
LEMMA AdoptedIsOneGrant ==
    ASSUME GrantInv, [Next]_vars, NEW r \in Request, Replied(r, "granted"), Adopt(r, Keeps(r)),
           NEW a \in Account, NEW s \in StateId, locks[a] = s, states'[s].at # 0
    PROVE  <<states'[s].at, states'[s].rt>> \in grants'[a]
<1>1. /\ st[r] \in StateId /\ acct[r] \in Account /\ states \in [StateId -> RefreshState]
      /\ pc[r] \in InRefresh
    BY DEF GrantInv, TypeInv, TypeOK, HoldsPointer, Replied
<1>2. states' = [states EXCEPT ![st[r]] = [at |-> reply[r].at, rt |-> Keeps(r),
                     exp |-> now + reply[r].life, err |-> "none", errAt |-> 0,
                     seenAt |-> @.seenAt]]
    BY DEF Adopt, Remember
<1>3. CASE s = st[r]
    <2>1. a = acct[r]
        BY <1>1, <1>3 DEF GrantInv, OwnInv
    <2>2. states'[s].at = reply[r].at /\ states'[s].rt = Keeps(r)
        BY <1>1, <1>2, <1>3
    <2>3. <<reply[r].at, Keeps(r)>> \in grants[acct[r]]
        BY DEF GrantInv, AnswerInv
    <2>4. QED
        BY <1>1, <2>1, <2>2, <2>3, GrantsGrow DEF GrantInv
<1>4. CASE s # st[r]
    <2>1. states'[s] = states[s]
        BY <1>1, <1>2, <1>4
    <2>2. QED
        BY <2>1, SameEntryStays
<1>5. QED
    BY <1>3, <1>4

LEMMA RememberStep ==
    ASSUME GrantInv, [Next]_vars
    PROVE  RememberedIsOneGrant'
<1> SUFFICES ASSUME NEW a \in Account, locks'[a] # NoState, states'[locks'[a]].at # 0
             PROVE  <<states'[locks'[a]].at, states'[locks'[a]].rt>> \in grants'[a]
    BY DEF RememberedIsOneGrant
<1> DEFINE Goal == <<states'[locks'[a]].at, states'[locks'[a]].rt>> \in grants'[a]
<1>t. /\ TypeInv /\ OwnInv
      /\ locks \in [Account -> StateId \union {NoState}] /\ states \in [StateId -> RefreshState]
      /\ acct \in [Request -> Account]
    BY DEF GrantInv, TypeInv, TypeOK
<1>1. ASSUME locks' = locks, states' = states PROVE Goal
    BY <1>t, <1>1, SameEntryStays
<1>2. ASSUME NEW r \in Request,
             Dispatch(r) \/ EnsureValid(r) \/ EnsureMissingKey(r) \/ Acquire(r) \/ Endpoint(r)
               \/ Backoff(r) \/ RefreshRetried(r) \/ ExchangeFailed(r) \/ Forward(r)
      PROVE  Goal
    <2>1. locks' = locks /\ states' = states
        BY <1>2
        DEF Dispatch, EnsureValid, EnsureMissingKey, Acquire, ReuseRemembered, RefuseInCooldown,
            StartCall, Endpoint, EndpointGrants, EndpointDenies, EndpointFails, Answer, Backoff,
            BackoffElapsed, BackoffCancelled, RefreshRetried, ExchangeFailed, GiveUp, Forward,
            ForwardWithoutToken, ForwardCompletes, ForwardFails, ReturnError, Return, managerVars
    <2>2. QED
        BY <1>1, <2>1
<1>3. ASSUME NEW r \in Request, RefreshDenied(r) \/ RefreshExhausted(r) PROVE Goal
    <2>1. PICK err \in {"denied", "failed"} : RecordError(r, err)
        BY <1>3 DEF RefreshDenied, RefreshExhausted
    <2>2. locks' = locks
        BY <1>3 DEF RefreshDenied, RefreshExhausted, GiveUp
    <2>3. \A s \in StateId : states'[s].at = states[s].at /\ states'[s].rt = states[s].rt
        <3>1. \A t \in Nat : \A e \in RefreshState :
                /\ [e EXCEPT !.err = err, !.errAt = t].at = e.at
                /\ [e EXCEPT !.err = err, !.errAt = t].rt = e.rt
            BY DEF RefreshState
        <3>2. QED
            BY <1>t, <2>1, <3>1 DEF RecordError, RefreshState
    <2>4. locks[a] \in StateId
        BY <1>t, <2>2
    <2>5. QED
        BY <2>2, <2>3, <2>4, SameEntryStays
<1>4. ASSUME NEW r \in Request, ExchangeGranted(r) \/ RefreshGranted(r) PROVE Goal
    <2>1. Replied(r, "granted") /\ Adopt(r, Keeps(r))
        BY <1>4 DEF ExchangeGranted, RefreshGranted, Keeps
    <2>2. locks' = locks /\ locks[a] \in StateId
        BY <1>t, <2>1 DEF Adopt
    <2>3. QED
        BY <2>1, <2>2, AdoptedIsOneGrant
<1>5. ASSUME NEW r \in Request, GetStateHit(r) PROVE Goal
    <2>1. locks'[a] = locks[a] /\ locks[a] \in StateId
        BY <1>t, <1>5 DEF GetStateHit, LocksWith
    <2>2. \A s \in StateId : states'[s].at = states[s].at /\ states'[s].rt = states[s].rt
        <3>1. locks[acct[r]] \in StateId
            BY <1>t, <1>5 DEF GetStateHit, Kept, Tracked
        <3>2. QED
            BY <1>t, <1>5, <3>1 DEF GetStateHit, RefreshState
    <2>3. QED
        BY <2>1, <2>2, SameEntryStays
<1>6. ASSUME NEW r \in Request, GetStateMiss(r) PROVE Goal
    <2>1. PICK s \in StateId :
            /\ Unreferenced(s)
            /\ states' = [states EXCEPT ![s] = NewRefreshState]
            /\ \E kept \in SUBSET Account : locks' = LocksWith(kept, acct[r], s)
        <3>1. \A victim : Kept \ {victim} \in SUBSET Account /\ Kept \in SUBSET Account
            BY DEF Kept, Tracked
        <3>2. QED
            BY <1>6, <3>1 DEF GetStateMiss
    <2>2. CASE a = acct[r]
        <3>1. states'[locks'[a]].at = 0
            BY <1>t, <2>1, <2>2 DEF LocksWith, NewRefreshState
        <3>2. QED
            BY <3>1
    <2>3. CASE a # acct[r]
        <3>1. locks'[a] = locks[a] /\ locks[a] \in StateId /\ locks[a] # s
            BY <1>t, <2>1, <2>3 DEF LocksWith, Unreferenced
        <3>2. states'[locks[a]] = states[locks[a]]
            BY <1>t, <2>1, <3>1
        <3>3. QED
            BY <3>1, <3>2, SameEntryStays
    <2>4. QED
        BY <2>2, <2>3
<1>7. CASE Tick \/ (\E b \in Account : Revoke(b) \/ Relogin(b) \/ AdminRefresh(b)) \/ UNCHANGED vars
    BY <1>1, <1>7 DEF Tick, Revoke, Relogin, AdminRefresh, vars, managerVars
<1>8. CASE Crash
    BY <1>8 DEF Crash
<1>9. QED
    BY <1>2, <1>3, <1>4, <1>5, <1>6, <1>7, <1>8 DEF Next, Ensure, Receive

\* rememberToken: whatever answers leave out, whichever requests share an
\* account and whatever is evicted in between, a state object of the table
\* holds an access token and the refresh token that was current with it.
THEOREM RemembersOneGrant == Spec => []RememberedIsOneGrant
<1>1. Init => GrantInv
    <2>1. ASSUME Init PROVE OwnInv /\ AnswerInv /\ RememberedIsOneGrant
        BY <2>1, ConstantsAssumption DEF Init, OwnInv, AnswerInv, Replied, RememberedIsOneGrant
    <2>2. QED
        BY <2>1, InitType DEF GrantInv, Init, TypeInv, HoldsPointer
<1>2. GrantInv /\ [Next]_vars => GrantInv'
    BY StepType, OwnStep, AnswerStep, RememberStep DEF GrantInv
<1>3. GrantInv => RememberedIsOneGrant
    BY DEF GrantInv
<1>4. QED
    BY <1>1, <1>2, <1>3, PTL DEF Spec

-----------------------------------------------------------------------------
(* No refresh before its time, where nothing is forgotten too early.        *)

\* A state object that is not looked up any more is forgotten no earlier than
\* the refresh window of the token in it opens.
LongMemory == \A life \in Lifetimes : life + RequestSpan <= IdleTTL + Skew + 1

\* A grant that may still be used is in the state object of its account, which
\* has been looked up late enough to be kept until the grant has to be replaced.
Remembers(a) ==
    /\ locks[a] # NoState
    /\ states[locks[a]].at # 0
    /\ states[locks[a]].exp = lastGrant[a].exp
    /\ lastGrant[a].exp <= states[locks[a]].seenAt + IdleTTL + Skew + 1

FreshInv == \A a \in Account : OutsideWindow(lastGrant[a].exp) => Remembers(a)

\* No object has been looked up in the future, and a grant in flight expires in
\* a time the endpoint grants.
ClockInv ==
    /\ \A s \in StateId : states[s].seenAt <= now
    /\ \A r \in Request : reply[r].kind = "granted" => reply[r].life \in Lifetimes

StaleInv == RefreshInv /\ OwnInv /\ TokenInv /\ ClockInv /\ FreshInv

LEMMA SeenStep ==
    ASSUME TypeInv, \A s \in StateId : states[s].seenAt <= now, [Next]_vars
    PROVE  (\A s \in StateId : states[s].seenAt <= now)'
<1>t. /\ now \in Nat /\ states \in [StateId -> RefreshState]
      /\ locks \in [Account -> StateId \union {NoState}] /\ acct \in [Request -> Account]
      /\ \A s \in StateId : states[s].seenAt \in Nat
    BY DEF TypeInv, TypeOK, RefreshState
<1>1. ASSUME NEW r \in Request, InnerStep(r)
      PROVE  \A s \in StateId : states'[s].seenAt <= now'
    BY <1>1, InnerSteps DEF Inner
<1>2. ASSUME NEW r \in Request, GetStateHit(r)
      PROVE  \A s \in StateId : states'[s].seenAt <= now'
    <2>1. \A s \in RefreshState : [s EXCEPT !.seenAt = now].seenAt = now
        BY DEF RefreshState
    <2>2. states' = [states EXCEPT ![locks[acct[r]]].seenAt = now] /\ now' = now
        BY <1>2 DEF GetStateHit, StateRequested
    <2>3. QED
        BY <1>t, <2>1, <2>2
<1>3. ASSUME NEW r \in Request, GetStateMiss(r)
      PROVE  \A s \in StateId : states'[s].seenAt <= now'
    <2>1. PICK s \in StateId : states' = [states EXCEPT ![s] = NewRefreshState]
        BY <1>3 DEF GetStateMiss
    <2>2. now' = now /\ NewRefreshState.seenAt = now
        BY <1>3 DEF GetStateMiss, StateRequested, NewRefreshState
    <2>3. QED
        BY <1>t, <2>1, <2>2
<1>4. ASSUME NEW r \in Request, Dispatch(r) \/ Return(r)
      PROVE  \A s \in StateId : states'[s].seenAt <= now'
    BY <1>4 DEF Dispatch, Return, managerVars
<1>5. CASE UNCHANGED <<now, managerVars, requestVars, historyVars>> \/ Tick
    BY <1>t, <1>5 DEF Tick, managerVars
<1>6. CASE Crash
    BY <1>t, <1>6 DEF Crash
<1>7. QED
    BY <1>1, <1>2, <1>3, <1>4, <1>5, <1>6, StepKinds

\* Where the reply of a request comes from.
LEMMA ReplySources ==
    ASSUME TypeInv, [Next]_vars, NEW q \in Request
    PROVE  \/ reply'[q] = reply[q]
           \/ reply'[q] \in {NoReply, Failure("denied"), Failure("failed")}
           \/ /\ EndpointGrants(q)
              /\ \E rotates \in BOOLEAN, life \in Lifetimes :
                   /\ Grant(q, rotates)
                   /\ reply'[q] = [kind |-> "granted", at |-> issued[acct[q]] + 1,
                          rt |-> IF rotates THEN issued[acct[q]] + 1 ELSE 0, life |-> life]
<1> DEFINE Goal == \/ reply'[q] = reply[q]
                   \/ reply'[q] \in {NoReply, Failure("denied"), Failure("failed")}
                   \/ /\ EndpointGrants(q)
                      /\ \E rotates \in BOOLEAN, life \in Lifetimes :
                           /\ Grant(q, rotates)
                           /\ reply'[q] = [kind |-> "granted", at |-> issued[acct[q]] + 1,
                                  rt |-> IF rotates THEN issued[acct[q]] + 1 ELSE 0,
                                  life |-> life]
<1>t. reply \in [Request -> Reply]
    BY DEF TypeInv, TypeOK
<1>0. ASSUME NEW r \in Request, NEW answer, reply' = [reply EXCEPT ![r] = answer],
             answer \in {NoReply, Failure("denied"), Failure("failed")}
      PROVE  Goal
    BY <1>t, <1>0
<1>1. ASSUME NEW r \in Request, EndpointGrants(r) PROVE Goal
    <2>1. PICK rotates \in BOOLEAN, life \in Lifetimes :
            /\ Grant(r, rotates)
            /\ \/ Answer(r, [kind |-> "granted", at |-> issued[acct[r]] + 1,
                             rt |-> IF rotates THEN issued[acct[r]] + 1 ELSE 0, life |-> life])
               \/ Answer(r, Failure("failed"))
        BY <1>1 DEF EndpointGrants
    <2>2. CASE Answer(r, Failure("failed"))
        BY <1>0, <2>2 DEF Answer
    <2>3. CASE Answer(r, [kind |-> "granted", at |-> issued[acct[r]] + 1,
                          rt |-> IF rotates THEN issued[acct[r]] + 1 ELSE 0, life |-> life])
        <3>1. reply' = [reply EXCEPT ![r] = [kind |-> "granted", at |-> issued[acct[r]] + 1,
                          rt |-> IF rotates THEN issued[acct[r]] + 1 ELSE 0, life |-> life]]
            BY <2>3 DEF Answer
        <3>2. CASE r = q
            BY <1>1, <1>t, <2>1, <3>1, <3>2
        <3>3. CASE r # q
            BY <1>t, <3>1, <3>3
        <3>4. QED
            BY <3>2, <3>3
    <2>4. QED
        BY <2>1, <2>2, <2>3
<1>2. ASSUME NEW r \in Request, EndpointDenies(r) \/ EndpointFails(r) PROVE Goal
    BY <1>0, <1>2 DEF EndpointDenies, EndpointFails, Answer
<1>3. ASSUME NEW r \in Request, Receive(r) PROVE Goal
    <2>1. reply' = [reply EXCEPT ![r] = NoReply]
        BY <1>3
        DEF Receive, ExchangeGranted, ExchangeFailed, RefreshGranted, RefreshDenied,
            RefreshRetried, RefreshExhausted, Adopt, GiveUp
    <2>2. QED
        BY <1>0, <2>1
<1>4. ASSUME NEW r \in Request, Dispatch(r) \/ Ensure(r) \/ Acquire(r) \/ Backoff(r) \/ Forward(r)
      PROVE  reply' = reply
    BY <1>4
    DEF Dispatch, Ensure, Acquire, Backoff, Forward, EnsureValid, EnsureMissingKey, GetStateHit,
        GetStateMiss, StateRequested, ReuseRemembered, RefuseInCooldown, StartCall,
        BackoffElapsed, BackoffCancelled, ForwardWithoutToken, ForwardCompletes, ForwardFails,
        ReturnError, Return
<1>5. CASE UNCHANGED vars \/ Tick \/ \E a \in Account : Revoke(a) \/ Relogin(a) \/ AdminRefresh(a)
    BY <1>5 DEF vars, requestVars, Tick, Revoke, Relogin, AdminRefresh
<1>6. CASE Crash
    BY <1>6 DEF Crash
<1>7. QED
    BY <1>1, <1>2, <1>3, <1>4, <1>5, <1>6 DEF Next, Endpoint

LEMMA ClockStep ==
    ASSUME TypeInv, ClockInv, [Next]_vars
    PROVE  ClockInv'
<1>1. (\A s \in StateId : states[s].seenAt <= now)'
    BY SeenStep DEF ClockInv
<1>2. ASSUME NEW r \in Request, reply'[r].kind = "granted" PROVE reply'[r].life \in Lifetimes
    <2>1. \A answer \in {NoReply, Failure("denied"), Failure("failed")} : answer.kind # "granted"
        BY DEF NoReply, Failure
    <2>2. CASE reply'[r] = reply[r]
        BY <1>2, <2>2 DEF ClockInv
    <2>3. CASE \E rotates \in BOOLEAN, life \in Lifetimes :
                 /\ Grant(r, rotates)
                 /\ reply'[r] = [kind |-> "granted", at |-> issued[acct[r]] + 1,
                        rt |-> IF rotates THEN issued[acct[r]] + 1 ELSE 0, life |-> life]
        BY <2>3
    <2>4. QED
        BY <1>2, <2>1, <2>2, <2>3, ReplySources
<1>3. QED
    BY <1>1, <1>2 DEF ClockInv

\* Only a grant changes the tokens a state object remembers, once it is there.
LEMMA TokensKept ==
    ASSUME TypeInv, NEW r \in Request, InnerStep(r), ~ExchangeGranted(r), ~RefreshGranted(r)
    PROVE  /\ lastGrant' = lastGrant
           /\ \A s \in StateId : /\ states'[s].at = states[s].at
                                 /\ states'[s].rt = states[s].rt
                                 /\ states'[s].exp = states[s].exp
<1>1. ASSUME states' = states, lastGrant' = lastGrant
      PROVE  /\ lastGrant' = lastGrant
             /\ \A s \in StateId : /\ states'[s].at = states[s].at
                                   /\ states'[s].rt = states[s].rt
                                   /\ states'[s].exp = states[s].exp
    BY <1>1
<1>2. CASE EnsureValid(r) \/ EnsureMissingKey(r) \/ ForwardWithoutToken(r) \/ Acquire(r)
    BY <1>1, <1>2
    DEF EnsureValid, EnsureMissingKey, ForwardWithoutToken, Acquire, ReuseRemembered,
        RefuseInCooldown, StartCall, managerVars, historyVars
<1>3. CASE Endpoint(r)
    BY <1>1, <1>3
    DEF Endpoint, EndpointGrants, EndpointDenies, EndpointFails, Answer, managerVars, historyVars
<1>4. CASE Backoff(r) \/ ExchangeFailed(r) \/ RefreshRetried(r)
    BY <1>1, <1>4
    DEF Backoff, BackoffElapsed, BackoffCancelled, ExchangeFailed, GiveUp, RefreshRetried,
        managerVars, historyVars
<1>5. CASE RefreshDenied(r) \/ RefreshExhausted(r)
    <2>1. PICK err \in {"denied", "failed"} : RecordError(r, err)
        BY <1>5 DEF RefreshDenied, RefreshExhausted
    <2>2. \A s \in RefreshState : /\ [s EXCEPT !.err = err, !.errAt = now].at = s.at
                                  /\ [s EXCEPT !.err = err, !.errAt = now].rt = s.rt
                                  /\ [s EXCEPT !.err = err, !.errAt = now].exp = s.exp
        BY DEF RefreshState
    <2>3. \A s \in StateId : /\ states'[s].at = states[s].at
                             /\ states'[s].rt = states[s].rt
                             /\ states'[s].exp = states[s].exp
        BY <2>1, <2>2 DEF RecordError, TypeInv, TypeOK
    <2>4. QED
        BY <1>5, <2>3 DEF RefreshDenied, RefreshExhausted, GiveUp
<1>6. QED
    BY <1>2, <1>3, <1>4, <1>5 DEF InnerStep, Receive

\* What a request does with a grant, in the object of its account.
LEMMA Adopted ==
    ASSUME RefreshInv, OwnInv, TokenInv, NEW r \in Request, ExchangeGranted(r) \/ RefreshGranted(r)
    PROVE  LET s == locks[acct[r]]
           IN  /\ Replied(r, "granted") /\ Adopt(r, Keeps(r))
               /\ acct[r] \in Account /\ s \in StateId /\ s = st[r]
               /\ states'[s].at = reply[r].at /\ reply[r].at # 0
               /\ states'[s].rt = Keeps(r)
               /\ states'[s].exp = now + reply[r].life
               /\ states'[s].seenAt = states[s].seenAt
               /\ states[s].seenAt >= since[r] /\ now - since[r] <= RequestSpan
               /\ \A b \in Account \ {acct[r]} :
                    locks[b] # NoState => states'[locks[b]] = states[locks[b]]
               /\ lastGrant' = [lastGrant EXCEPT
                                  ![acct[r]] = [at |-> reply[r].at, exp |-> now + reply[r].life]]
<1> USE DEF RefreshInv, TypeInv, TypeOK
<1>1. Replied(r, "granted") /\ Adopt(r, Keeps(r))
    BY DEF ExchangeGranted, RefreshGranted, Keeps
<1>2. /\ acct[r] \in Account /\ st[r] \in StateId /\ st[r] = locks[acct[r]]
      /\ states[st[r]].seenAt >= since[r] /\ now - since[r] <= RequestSpan
    BY <1>1 DEF HoldsPointer, CurrentInv, SpanInv, Replied
<1>3. states' = [states EXCEPT ![st[r]] = [at |-> reply[r].at, rt |-> Keeps(r),
                     exp |-> now + reply[r].life, err |-> "none", errAt |-> 0,
                     seenAt |-> @.seenAt]]
    BY <1>1 DEF Adopt, Remember
<1>4. reply[r].at # 0
    BY <1>1 DEF TokenInv, Replied
<1>5. ASSUME NEW b \in Account \ {acct[r]}, locks[b] # NoState
      PROVE  states'[locks[b]] = states[locks[b]]
    BY <1>1, <1>2, <1>3, <1>5 DEF OwnInv, Replied
<1>6. lastGrant' = [lastGrant EXCEPT
                      ![acct[r]] = [at |-> reply[r].at, exp |-> now + reply[r].life]]
    BY <1>1 DEF Adopt
<1>7. QED
    BY <1>1, <1>2, <1>3, <1>4, <1>5, <1>6

LEMMA FreshIsKept ==
    ASSUME TypeInv, NEW a \in Account, OutsideWindow(lastGrant[a].exp), Remembers(a)
    PROVE  a \in Kept /\ locks[a] \in StateId
<1>1. /\ now \in Nat /\ IdleTTL \in Nat /\ Skew \in Nat /\ lastGrant[a].exp \in Nat
      /\ locks[a] \in StateId /\ states[locks[a]].seenAt \in Nat
    BY ConstantsAssumption DEF TypeInv, TypeOK, RefreshState, Remembers
<1>2. now - states[locks[a]].seenAt <= IdleTTL
    BY <1>1 DEF OutsideWindow, Remembers
<1>3. QED
    BY <1>1, <1>2 DEF Kept, Tracked, Remembers

LEMMA FreshStep ==
    ASSUME RoomForAll, LongMemory, StaleInv, [Next]_vars
    PROVE  FreshInv'
<1> SUFFICES ASSUME NEW a \in Account, OutsideWindow(lastGrant[a].exp)' PROVE Remembers(a)'
    BY DEF FreshInv
<1>t. /\ TypeInv /\ now \in Nat /\ Skew \in Nat /\ IdleTTL \in Nat /\ RequestSpan \in Nat
      /\ states \in [StateId -> RefreshState] /\ lastGrant \in [Account -> [at : Nat, exp : Nat]]
      /\ locks \in [Account -> StateId \union {NoState}] /\ acct \in [Request -> Account]
      /\ NoState \notin StateId
    BY ConstantsAssumption DEF StaleInv, RefreshInv, TypeInv, TypeOK
<1>1. ASSUME locks' = locks, lastGrant'[a] = lastGrant[a], now' \in {now, now + 1},
             \A s \in StateId : /\ states'[s].at = states[s].at
                                /\ states'[s].exp = states[s].exp
                                /\ states'[s].seenAt = states[s].seenAt
      PROVE  Remembers(a)'
    <2>1. OutsideWindow(lastGrant[a].exp)
        BY <1>t, <1>1 DEF OutsideWindow
    <2>2. Remembers(a) /\ locks[a] \in StateId
        BY <1>t, <2>1 DEF StaleInv, FreshInv, Remembers
    <2>3. QED
        BY <1>1, <2>2 DEF Remembers
<1>2. ASSUME NEW r \in Request, ExchangeGranted(r) \/ RefreshGranted(r) PROVE Remembers(a)'
    <2> DEFINE s == locks[acct[r]]
    <2>1. /\ Replied(r, "granted") /\ Adopt(r, Keeps(r))
          /\ acct[r] \in Account /\ s \in StateId
          /\ states'[s].at = reply[r].at /\ reply[r].at # 0
          /\ states'[s].exp = now + reply[r].life
          /\ states'[s].seenAt = states[s].seenAt
          /\ states[s].seenAt >= since[r] /\ now - since[r] <= RequestSpan
          /\ \A b \in Account \ {acct[r]} : locks[b] # NoState => states'[locks[b]] = states[locks[b]]
          /\ lastGrant' = [lastGrant EXCEPT
                             ![acct[r]] = [at |-> reply[r].at, exp |-> now + reply[r].life]]
        BY <1>2, Adopted DEF StaleInv
    <2>2. locks' = locks /\ now' = now
        BY <2>1 DEF Adopt
    <2>3. CASE a = acct[r]
        <3>1. reply[r].life \in Lifetimes
            BY <2>1 DEF StaleInv, ClockInv, Replied
        <3>2. lastGrant'[a].exp = now + reply[r].life
            BY <1>t, <2>1, <2>3
        <3>3. since[r] \in Nat /\ states[s].seenAt \in Nat /\ reply[r].life \in Nat
            BY <1>t, <2>1 DEF TypeInv, TypeOK, RefreshState, Reply
        <3>4. lastGrant'[a].exp <= states'[s].seenAt + IdleTTL + Skew + 1
            BY <1>t, <2>1, <3>1, <3>2, <3>3 DEF LongMemory
        <3>5. QED
            BY <1>t, <2>1, <2>2, <2>3, <3>2, <3>4 DEF Remembers
    <2>4. CASE a # acct[r]
        <3>1. lastGrant'[a] = lastGrant[a]
            BY <1>t, <2>1, <2>4
        <3>2. Remembers(a)
            BY <2>2, <3>1 DEF StaleInv, FreshInv, OutsideWindow
        <3>3. QED
            BY <2>1, <2>2, <2>4, <3>1, <3>2 DEF Remembers
    <2>5. QED
        BY <2>3, <2>4
<1>3. ASSUME NEW r \in Request, InnerStep(r) PROVE Remembers(a)'
    <2>1. CASE ExchangeGranted(r) \/ RefreshGranted(r)
        BY <1>2, <2>1
    <2>2. CASE ~ExchangeGranted(r) /\ ~RefreshGranted(r)
        BY <1>t, <1>1, <1>3, <2>2, TokensKept, InnerSteps DEF Inner
    <2>3. QED
        BY <2>1, <2>2
<1>4. ASSUME NEW r \in Request, NEW s \in StateId,
             locks' = LocksWith(Kept, acct[r], s), lastGrant' = lastGrant, now' = now,
             acct[r] \in Kept => s = locks[acct[r]],
             acct[r] \notin Kept => Unreferenced(s),
             \A t \in StateId \ {s} : states'[t] = states[t],
             acct[r] \in Kept => /\ states'[s].at = states[s].at
                                 /\ states'[s].exp = states[s].exp
                                 /\ states'[s].seenAt = now
      PROVE  Remembers(a)'
    <2>1. Remembers(a) /\ a \in Kept /\ locks[a] \in StateId
        BY <1>t, <1>4, FreshIsKept DEF StaleInv, FreshInv, OutsideWindow
    <2>2. locks'[a] = locks[a]
        BY <1>4, <2>1 DEF LocksWith
    <2>3. CASE locks[a] = s
        <3>1. acct[r] \in Kept
            BY <1>4, <2>3 DEF Unreferenced
        <3>2. lastGrant[a].exp <= now + IdleTTL + Skew + 1
            <4>1. OutsideWindow(lastGrant[a].exp)' /\ lastGrant[a].exp \in Nat
                BY <1>t
            <4>2. states[s].seenAt \in Nat /\ states[s].seenAt <= now
                BY <1>t, <2>1, <2>3 DEF RefreshState, StaleInv, ClockInv
            <4>3. QED
                BY <1>t, <2>1, <2>3, <4>1, <4>2 DEF Remembers
        <3>3. QED
            BY <1>4, <2>1, <2>2, <2>3, <3>1, <3>2 DEF Remembers
    <2>4. CASE locks[a] # s
        BY <1>4, <2>1, <2>2, <2>4 DEF Remembers
    <2>5. QED
        BY <2>3, <2>4
<1>5. ASSUME NEW r \in Request, GetStateHit(r) PROVE Remembers(a)'
    <2>1. locks[acct[r]] \in StateId
        BY <1>t, <1>5 DEF GetStateHit, Kept, Tracked
    <2>2. \A s \in RefreshState : /\ [s EXCEPT !.seenAt = now].at = s.at
                                  /\ [s EXCEPT !.seenAt = now].exp = s.exp
                                  /\ [s EXCEPT !.seenAt = now].seenAt = now
        BY DEF RefreshState
    <2>3. /\ states'[locks[acct[r]]].at = states[locks[acct[r]]].at
          /\ states'[locks[acct[r]]].exp = states[locks[acct[r]]].exp
          /\ states'[locks[acct[r]]].seenAt = now
          /\ \A t \in StateId \ {locks[acct[r]]} : states'[t] = states[t]
        BY <1>t, <1>5, <2>1, <2>2 DEF GetStateHit
    <2>4. QED
        BY <1>4, <1>5, <2>1, <2>3 DEF GetStateHit, StateRequested, historyVars
<1>6. ASSUME NEW r \in Request, GetStateMiss(r) PROVE Remembers(a)'
    <2>1. ~TableFull
        BY <1>t, <1>6, NewEntryHasRoom DEF GetStateMiss
    <2>2. PICK s \in StateId :
            /\ Unreferenced(s)
            /\ states' = [states EXCEPT ![s] = NewRefreshState]
            /\ locks' = LocksWith(Kept, acct[r], s)
        BY <1>6, <2>1 DEF GetStateMiss
    <2>3. acct[r] \notin Kept /\ lastGrant' = lastGrant /\ now' = now
        BY <1>6 DEF GetStateMiss, StateRequested, historyVars
    <2>4. \A t \in StateId \ {s} : states'[t] = states[t]
        BY <1>t, <2>2
    <2>5. QED
        BY <1>4, <2>2, <2>3, <2>4
<1>7. ASSUME NEW r \in Request, Dispatch(r) \/ Return(r) PROVE Remembers(a)'
    BY <1>1, <1>7 DEF Dispatch, Return, managerVars, historyVars
<1>8. CASE UNCHANGED <<now, managerVars, requestVars, historyVars>> \/ Tick
    BY <1>1, <1>8 DEF Tick, managerVars, historyVars
<1>9. CASE Crash
    <2>1. now' = now /\ lastGrant'[a].exp = 0
        BY <1>9 DEF Crash
    <2>2. QED
        BY <1>t, <2>1 DEF OutsideWindow
<1>10. QED
    BY <1>t, <1>3, <1>5, <1>6, <1>7, <1>8, <1>9, StepKinds

\* A request goes from "lock" to "calling" by StartCall only.
LEMMA CallStarts ==
    ASSUME TypeInv, [Next]_vars, NEW q \in Request, pc[q] = "lock", pc'[q] = "calling"
    PROVE  StartCall(q)
<1>1. pc \in [Request -> {"idle", "ensure", "forward", "dead", "transient"} \union InRefresh]
    BY DEF TypeInv, TypeOK
<1>2. ASSUME NEW r \in Request, BackoffElapsed(r) PROVE FALSE
    BY <1>1, <1>2 DEF BackoffElapsed, Finish
<1>3. ASSUME NEW r \in Request, StartCall(r) PROVE r = q
    BY <1>1, <1>3 DEF StartCall, Locks, Finish
<1>4. ASSUME NEW r \in Request, NEW p, p # "calling", pc' = [pc EXCEPT ![r] = p]
      PROVE  FALSE
    BY <1>1, <1>4
<1>5. ASSUME NEW r \in Request, Next, ~BackoffElapsed(r), ~StartCall(r),
             Dispatch(r) \/ Ensure(r) \/ Acquire(r) \/ Endpoint(r) \/ Receive(r)
               \/ Backoff(r) \/ Forward(r)
      PROVE  \E p : p # "calling" /\ pc' = [pc EXCEPT ![r] = p]
    <2>1. CASE Dispatch(r) \/ Ensure(r) \/ Forward(r)
        BY <2>1
        DEF Dispatch, Ensure, Forward, EnsureValid, EnsureMissingKey, GetStateHit,
            GetStateMiss, StateRequested, ForwardWithoutToken, ForwardCompletes,
            ForwardFails, ReturnError, Return, Finish
    <2>2. CASE Acquire(r) \/ Endpoint(r)
        BY <1>5, <2>2
        DEF Acquire, ReuseRemembered, RefuseInCooldown, Endpoint, EndpointGrants,
            EndpointDenies, EndpointFails, Answer, Finish
    <2>3. CASE Receive(r) \/ Backoff(r)
        BY <1>5, <2>3
        DEF Receive, ExchangeGranted, ExchangeFailed, RefreshGranted, RefreshDenied,
            RefreshRetried, RefreshExhausted, Adopt, GiveUp, Backoff, BackoffCancelled,
            Finish
    <2>4. QED
        BY <1>5, <2>1, <2>2, <2>3
<1>6. ASSUME UNCHANGED vars \/ Tick \/ Crash
             \/ \E a \in Account : Revoke(a) \/ Relogin(a) \/ AdminRefresh(a)
      PROVE  FALSE
    BY <1>6 DEF vars, requestVars, Tick, Crash, Revoke, Relogin, AdminRefresh
<1>7. QED
    BY <1>2, <1>3, <1>4, <1>5, <1>6 DEF Next

\* Double-check in doRefresh: while the table keeps what is in use and for as
\* long as it is worth something, nobody calls the token endpoint for an account
\* whose newest grant is still outside the refresh window, whatever fails,
\* is revoked or restarted, and however old the copy a request carries.
THEOREM RefreshesWhenStale ==
    ASSUME RoomForAll, LongMemory
    PROVE  Spec => RefreshOnlyWhenStale
<1>1. ASSUME Init PROVE StaleInv
    <2>1. RefreshInv
        BY <1>1, InitType
        DEF Init, RefreshInv, TypeInv, HoldsPointer, MutexInv, SpanInv, CurrentInv
    <2>2. OwnInv
        BY <1>1, ConstantsAssumption DEF Init, OwnInv
    <2>3. TokenInv
        <3>1. ASSUME NEW a \in Account, a \notin SessionAccount PROVE core[a].sk = FALSE
            BY <1>1, <3>1 DEF Init, StoredCredentials
        <3>2. QED
            BY <1>1, <3>1 DEF Init, TokenInv, NoReply, Failure, NoCredentials
    <2>4. FreshInv /\ ClockInv
        BY <1>1, ConstantsAssumption
        DEF Init, FreshInv, ClockInv, OutsideWindow, NoReply, Failure
    <2>5. QED
        BY <2>1, <2>2, <2>3, <2>4 DEF StaleInv
<1>2. StaleInv /\ [Next]_vars => StaleInv'
    BY StepType, MutexStep, SpanStep, CurrentStep, OwnStep, TokenStep, ClockStep, FreshStep
    DEF StaleInv, RefreshInv
<1>3. ASSUME StaleInv, [Next]_vars, NEW q \in Request, pc[q] = "lock", pc'[q] = "calling"
      PROVE  ~OutsideWindow(lastGrant[acct[q]].exp)
    <2>0. TypeInv
        BY <1>3 DEF StaleInv, RefreshInv
    <2>1. StartCall(q)
        BY <1>3, <2>0, CallStarts
    <2>2. ~Fresh(st[q]) /\ st[q] = locks[acct[q]] /\ acct[q] \in Account
        BY <1>3, <2>0, <2>1
        DEF StartCall, StaleInv, RefreshInv, CurrentInv, TypeInv, TypeOK
    <2>3. ~Remembers(acct[q]) \/ ~OutsideWindow(lastGrant[acct[q]].exp)
        BY <2>2 DEF Remembers, Fresh, Outlives, OutsideWindow
    <2>4. QED
        BY <1>3, <2>2, <2>3 DEF StaleInv, FreshInv
<1>4. StaleInv /\ [Next]_vars =>
        [\A r \in Request :
           pc[r] = "lock" /\ pc'[r] = "calling" => ~OutsideWindow(lastGrant[acct[r]].exp)]_vars
    BY <1>3
<1>5. Init => StaleInv
    BY <1>1
<1>6. QED
    BY <1>2, <1>4, <1>5, PTL DEF Spec, RefreshOnlyWhenStale

-----------------------------------------------------------------------------
(* Sharing an account never kills it, where nothing but a reply gets lost.  *)

\* Nothing is revoked, restarted or refreshed by hand and no upstream call
\* fails; tokens outlive the requests that carry them and a state object is
\* remembered until those have ended.
Gentle ==
    /\ Faults \subseteq {"lost"}
    /\ \A life \in Lifetimes : life > Skew + 2 * RequestSpan
    /\ 2 * RequestSpan <= IdleTTL

Runs(r, a) == pc[r] # "idle" /\ acct[r] = a

\* By now every request has returned that was dispatched while the one which
\* was dispatched at s and brought the newest grant could still be running.
Over(s) == now > s + 2 * RequestSpan

\* Credentials, or a state object, with the newest grant, whose refresh token is k.
HoldsGrant(c, a, k) == c.at = lastGrant[a].at /\ c.rt = k /\ c.exp = lastGrant[a].exp

\* Before the first grant everybody works with what Core has stored.
Untouched(a) ==
    /\ locks[a] # NoState => states[locks[a]].at = 0 /\ states[locks[a]].rt = 0
    /\ \A r \in Request : Runs(r, a) => updated[r] = NoUpdate /\ creds[r] = core[a]
    /\ a \in SessionAccount => core[a].at = 0 /\ core[a].rt = 0
    /\ a \notin SessionAccount => issued[a] >= 1
    /\ core[a].at <= issued[a]
    /\ core[a].at = issued[a] /\ core[a].rt # 0 => core[a].rt \in live[a]

\* The state object remembers the newest grant until nobody can be left with
\* an older one.
MemoryOK(a, s, k) ==
    IF locks[a] = NoState THEN Over(s)
    ELSE \/ HoldsGrant(states[locks[a]], a, k) /\ states[locks[a]].seenAt >= s
         \/ states[locks[a]].at = 0 /\ states[locks[a]].rt = 0 /\ Over(s)

\* The request that brought the newest grant is about to hand it to Core.
Granter(p, a, s) ==
    Runs(p, a) /\ pc[p] = "forward" /\ since[p] = s /\ creds[p].at # 0 /\ updated[p].at # 0

CoreOK(a, s, k) == HoldsGrant(core[a], a, k) \/ \E p \in Request : Granter(p, a, s)

\* What the outcome of a request may tell Core.
UpdateOK(r, a, k) ==
    /\ updated[r].at = lastGrant[a].at /\ updated[r].exp = lastGrant[a].exp
    /\ updated[r].rt = k \/ (updated[r].rt = 0 /\ core[a].rt = k)

\* Requests with an older copy are from the time of the newest grant, and the
\* token endpoint is only called when these have returned.
CopyOK(r, a, s, k) ==
    /\ HoldsGrant(creds[r], a, k) \/ since[r] <= s + RequestSpan
    /\ pc[r] \in Critical => Over(s)
    /\ updated[r] = NoUpdate \/ (since[r] <= s + RequestSpan /\ UpdateOK(r, a, k))
    /\ k = 0 => creds[r].rt = 0

Newest(a, s, k) ==
    /\ s <= now /\ lastGrant[a].exp > s + Skew + 2 * RequestSpan
    /\ MemoryOK(a, s, k) /\ CoreOK(a, s, k)
    /\ \A r \in Request : Runs(r, a) => CopyOK(r, a, s, k)
    /\ k = 0 => core[a].rt = 0
    /\ lastGrant[a].at <= issued[a]
    /\ lastGrant[a].at = issued[a] /\ k # 0 => k \in live[a]

AccountInv(a) ==
    IF lastGrant[a].at = 0 THEN Untouched(a) ELSE \E s, k \in Nat : Newest(a, s, k)

NewestInv == \A a \in Account : AccountInv(a)

\* What is under way: the endpoint's answers, and what it was asked with.
FlightOK(r) ==
    /\ pc[r] = "idle" => updated[r] = NoUpdate
    /\ reply[r].kind # "none" => pc[r] = "replied"
    /\ pc[r] \in InRefresh /\ ~NeedsExchange(r) => creds[r].rt # 0
    /\ Replied(r, "granted") =>
         reply[r].at = issued[acct[r]] /\ (Keeps(r) # 0 => Keeps(r) \in live[acct[r]])

FlightInv == \A r \in Request : FlightOK(r)

SharedInv ==
    RefreshInv /\ OwnInv /\ TokenInv /\ ClockInv /\ FlightInv /\ NewestInv /\ NoSpuriousDenial

\* A step that does not concern account a, up to a request of it that returns
\* without a token or leaves the critical section.
SameData(a) ==
    /\ lastGrant'[a] = lastGrant[a] /\ core'[a] = core[a]
    /\ issued'[a] = issued[a] /\ live'[a] = live[a]
    /\ now' \in {now, now + 1}

SameRuns(a) ==
    /\ \A q \in Request :
         Runs(q, a)' => /\ Runs(q, a) /\ (pc'[q] \in Critical => pc[q] \in Critical)
                        /\ creds'[q] = creds[q] /\ updated'[q] = updated[q]
                        /\ since'[q] = since[q]
    /\ \A q \in Request :
         Runs(q, a) /\ pc[q] = "forward" /\ creds[q].at # 0 => Runs(q, a)' /\ pc'[q] = "forward"

SameMemory(a) ==
    /\ locks'[a] = locks[a]
    /\ locks[a] # NoState => /\ states'[locks[a]].at = states[locks[a]].at
                             /\ states'[locks[a]].rt = states[locks[a]].rt
                             /\ states'[locks[a]].exp = states[locks[a]].exp
                             /\ states'[locks[a]].seenAt >= states[locks[a]].seenAt

\* The entry is dropped, and may have been replaced by a new one.
Forgotten(a) ==
    /\ a \notin Kept
    /\ locks'[a] = NoState \/ (states'[locks'[a]].at = 0 /\ states'[locks'[a]].rt = 0)

LEMMA MemoryLasts ==
    ASSUME Gentle, TypeInv, TypeInv', NEW a \in Account, SameData(a),
           SameMemory(a) \/ Forgotten(a), NEW s \in Nat, NEW k \in Nat, MemoryOK(a, s, k)
    PROVE  MemoryOK(a, s, k)'
<1>1. /\ now \in Nat /\ now' \in {now, now + 1} /\ RequestSpan \in Nat /\ IdleTTL \in Nat
      /\ 2 * RequestSpan <= IdleTTL
      /\ locks[a] # NoState => locks[a] \in StateId /\ states[locks[a]].seenAt \in Nat
      /\ locks'[a] # NoState => locks'[a] \in StateId /\ states'[locks'[a]].seenAt \in Nat
    BY ConstantsAssumption DEF TypeInv, TypeOK, RefreshState, SameData, Gentle
<1>2. Over(s) => Over(s)'
    BY <1>1 DEF Over
<1>3. CASE SameMemory(a)
    BY <1>1, <1>2, <1>3 DEF MemoryOK, SameMemory, SameData, HoldsGrant
<1>4. CASE Forgotten(a)
    <2>1. Over(s)
        <3>1. CASE locks[a] = NoState
            BY <3>1 DEF MemoryOK
        <3>2. CASE locks[a] # NoState
            <4>1. now - states[locks[a]].seenAt > IdleTTL
                BY <1>1, <1>4, <3>2 DEF Forgotten, Kept, Tracked
            <4>2. CASE states[locks[a]].seenAt >= s
                BY <1>1, <3>2, <4>1, <4>2 DEF Over
            <4>3. CASE ~(states[locks[a]].seenAt >= s)
                BY <3>2, <4>3 DEF MemoryOK
            <4>4. QED
                BY <4>2, <4>3
        <3>3. QED
            BY <3>1, <3>2
    <2>2. QED
        BY <1>2, <1>4, <2>1 DEF MemoryOK, Forgotten
<1>5. QED
    BY <1>3, <1>4

LEMMA Undisturbed ==
    ASSUME Gentle, TypeInv, TypeInv', NEW a \in Account, AccountInv(a), SameData(a), SameRuns(a),
           SameMemory(a) \/ Forgotten(a)
    PROVE  AccountInv(a)'
<1>1. CASE lastGrant[a].at = 0
    <2>1. Untouched(a)
        BY <1>1 DEF AccountInv
    <2>2. locks'[a] # NoState => states'[locks'[a]].at = 0 /\ states'[locks'[a]].rt = 0
        BY <2>1 DEF Untouched, SameMemory, Forgotten
    <2>3. \A r \in Request : Runs(r, a)' => updated'[r] = NoUpdate /\ creds'[r] = core'[a]
        BY <2>1 DEF Untouched, SameRuns, SameData
    <2>4. Untouched(a)'
        BY <2>1, <2>2, <2>3 DEF Untouched, SameData
    <2>5. QED
        BY <1>1, <2>4 DEF AccountInv, SameData
<1>2. CASE lastGrant[a].at # 0
    <2>1. PICK s \in Nat, k \in Nat : Newest(a, s, k)
        BY <1>2 DEF AccountInv
    <2>2. now \in Nat /\ now' \in {now, now + 1} /\ RequestSpan \in Nat
        BY ConstantsAssumption DEF TypeInv, TypeOK, SameData
    <2>3. MemoryOK(a, s, k)'
        BY <2>1, MemoryLasts DEF Newest
    <2>4. CoreOK(a, s, k)'
        <3>1. CASE HoldsGrant(core[a], a, k)
            BY <3>1 DEF CoreOK, HoldsGrant, SameData
        <3>2. ASSUME NEW p \in Request, Granter(p, a, s) PROVE Granter(p, a, s)'
            BY <3>2 DEF Granter, SameRuns
        <3>3. QED
            BY <2>1, <3>1, <3>2 DEF Newest, CoreOK
    <2>5. ASSUME NEW r \in Request, Runs(r, a)' PROVE CopyOK(r, a, s, k)'
        <3>1. /\ Runs(r, a) /\ (pc'[r] \in Critical => pc[r] \in Critical)
              /\ creds'[r] = creds[r] /\ updated'[r] = updated[r] /\ since'[r] = since[r]
            BY <2>5 DEF SameRuns
        <3>2. CopyOK(r, a, s, k)
            BY <2>1, <3>1 DEF Newest
        <3>3. Over(s) => Over(s)'
            BY <2>2 DEF Over
        <3>4. QED
            BY <3>1, <3>2, <3>3 DEF CopyOK, HoldsGrant, UpdateOK, SameData
    <2>6. Newest(a, s, k)'
        BY <2>1, <2>2, <2>3, <2>4, <2>5 DEF Newest, SameData
    <2>7. QED
        BY <1>2, <2>6 DEF AccountInv, SameData
<1>3. QED
    BY <1>1, <1>2

RequestStep(r) ==
    \/ Dispatch(r) \/ Ensure(r) \/ Acquire(r) \/ Endpoint(r) \/ Receive(r) \/ Backoff(r)
    \/ ForwardWithoutToken(r) \/ Return(r)

\* A step of one request leaves the others alone.
LEMMA OthersSame ==
    ASSUME TypeInv, NEW r \in Request, RequestStep(r), NEW q \in Request, q # r
    PROVE  /\ pc'[q] = pc[q] /\ acct'[q] = acct[q] /\ creds'[q] = creds[q]
           /\ updated'[q] = updated[q] /\ since'[q] = since[q] /\ st'[q] = st[q]
           /\ reply'[q] = reply[q]
<1> USE DEF TypeInv, TypeOK
<1>1. CASE Dispatch(r) \/ Ensure(r) \/ Return(r) \/ ForwardWithoutToken(r)
    BY <1>1
    DEF Dispatch, Ensure, EnsureValid, EnsureMissingKey, GetStateHit, GetStateMiss,
        StateRequested, Return, ForwardWithoutToken, Finish
<1>2. CASE Acquire(r) \/ Backoff(r)
    BY <1>2
    DEF Acquire, ReuseRemembered, RefuseInCooldown, StartCall, Backoff, BackoffElapsed,
        BackoffCancelled, Finish
<1>3. CASE Endpoint(r)
    <2>1. PICK answer : Answer(r, answer)
        BY <1>3 DEF Endpoint, EndpointGrants, EndpointDenies, EndpointFails
    <2>2. QED
        BY <2>1 DEF Answer, Finish
<1>4. CASE Receive(r)
    BY <1>4
    DEF Receive, ExchangeGranted, ExchangeFailed, RefreshGranted, RefreshDenied, RefreshRetried,
        RefreshExhausted, Adopt, GiveUp, Finish
<1>5. QED
    BY <1>1, <1>2, <1>3, <1>4 DEF RequestStep

LEMMA OtherRuns ==
    ASSUME TypeInv, NEW r \in Request, RequestStep(r), NEW a \in Account,
           ~Runs(r, a), ~Runs(r, a)'
    PROVE  SameRuns(a)
<1>1. ASSUME NEW q \in Request, Runs(q, a)'
      PROVE  /\ Runs(q, a) /\ (pc'[q] \in Critical => pc[q] \in Critical)
             /\ creds'[q] = creds[q] /\ updated'[q] = updated[q] /\ since'[q] = since[q]
    <2>1. q # r
        BY <1>1
    <2>2. QED
        BY <1>1, <2>1, OthersSame DEF Runs
<1>2. ASSUME NEW q \in Request, Runs(q, a), pc[q] = "forward"
      PROVE  Runs(q, a)' /\ pc'[q] = "forward"
    <2>1. q # r
        BY <1>2
    <2>2. QED
        BY <1>2, <2>1, OthersSame DEF Runs
<1>3. QED
    BY <1>1, <1>2 DEF SameRuns

\* The steps that change nothing a grant consists of.
QuietStep(r) ==
    \/ EnsureValid(r) \/ EnsureMissingKey(r) \/ RefuseInCooldown(r)
    \/ EndpointDenies(r) \/ EndpointFails(r)
    \/ ExchangeFailed(r) \/ RefreshDenied(r) \/ RefreshExhausted(r) \/ RefreshRetried(r)
    \/ Backoff(r) \/ ForwardWithoutToken(r)

LEMMA QuietSteps ==
    ASSUME TypeInv, NEW r \in Request, QuietStep(r) \/ StartCall(r), NEW a \in Account
    PROVE  /\ SameData(a) /\ SameMemory(a)
           /\ acct' = acct /\ since' = since /\ creds' = creds /\ updated' = updated
           /\ pc[r] # "idle" /\ pc'[r] # "idle" /\ ~(pc[r] = "forward" /\ creds[r].at # 0)
           /\ QuietStep(r) => SameRuns(a)
<1> USE DEF TypeInv, TypeOK
<1>1. InnerStep(r) /\ ~ExchangeGranted(r) /\ ~RefreshGranted(r)
    BY DEF QuietStep, InnerStep, Acquire, Endpoint, Receive, EnsureValid, EnsureMissingKey,
           RefuseInCooldown, EndpointDenies, EndpointFails, ExchangeFailed, RefreshDenied,
           RefreshExhausted, RefreshRetried, Backoff, BackoffElapsed, BackoffCancelled,
           ForwardWithoutToken, StartCall, Locks, ExchangeGranted, RefreshGranted, Replied
<1>2. Inner(r) /\ RequestStep(r)
    BY <1>1, InnerSteps DEF InnerStep, RequestStep, Ensure
<1>3. UNCHANGED <<creds, updated, core, issued, live>>
    BY DEF QuietStep, EnsureValid, EnsureMissingKey, RefuseInCooldown, EndpointDenies,
           EndpointFails, Answer, ExchangeFailed, RefreshDenied, RefreshExhausted, RefreshRetried,
           GiveUp, Backoff, BackoffElapsed, BackoffCancelled, ForwardWithoutToken, StartCall,
           endpointVars
<1>4. SameData(a)
    BY <1>1, <1>2, <1>3, TokensKept DEF SameData, Inner
<1>5. SameMemory(a)
    <2>1. locks' = locks /\ (locks[a] # NoState => locks[a] \in StateId /\ states[locks[a]].seenAt \in Nat)
        BY <1>2 DEF Inner, RefreshState
    <2>2. QED
        BY <1>1, <1>2, <2>1, TokensKept DEF SameMemory, Inner
<1>6. acct' = acct /\ since' = since /\ pc[r] # "idle"
    BY <1>2 DEF Inner
<1>7. pc'[r] # "idle"
    BY <1>2 DEF Inner
<1>8. ~(pc[r] = "forward" /\ creds[r].at # 0)
    BY DEF QuietStep, EnsureValid, EnsureMissingKey, RefuseInCooldown, Locks, EndpointDenies,
           EndpointFails, ExchangeFailed, RefreshDenied, RefreshExhausted, RefreshRetried, Replied,
           Backoff, BackoffElapsed, BackoffCancelled, ForwardWithoutToken, StartCall
<1>9. ASSUME QuietStep(r), pc'[r] \in Critical PROVE pc[r] \in Critical
    BY <1>9
    DEF QuietStep, EnsureValid, EnsureMissingKey, RefuseInCooldown, EndpointDenies,
        EndpointFails, Answer, ExchangeFailed, RefreshDenied, RefreshExhausted, RefreshRetried,
        Replied, GiveUp, Backoff, BackoffElapsed, BackoffCancelled, ForwardWithoutToken, Finish
<1>10. ASSUME QuietStep(r) PROVE SameRuns(a)
    <2>1. ASSUME NEW q \in Request
          PROVE  /\ Runs(q, a)' => Runs(q, a) /\ (pc'[q] \in Critical => pc[q] \in Critical)
                 /\ Runs(q, a) /\ pc[q] = "forward" /\ creds[q].at # 0 =>
                      Runs(q, a)' /\ pc'[q] = "forward"
        <3>1. CASE q = r
            BY <1>6, <1>7, <1>8, <1>9, <1>10, <3>1 DEF Runs
        <3>2. CASE q # r
            BY <1>2, <3>2, OthersSame DEF Runs
        <3>3. QED
            BY <3>1, <3>2
    <2>2. QED
        BY <1>3, <1>6, <2>1 DEF SameRuns
<1>11. QED
    BY <1>3, <1>4, <1>5, <1>6, <1>7, <1>8, <1>10

\* A call starts when what is remembered cannot be used any more.
LEMMA CallIsOver ==
    ASSUME RefreshInv, NEW r \in Request, Locks(r), ~Fresh(st[r]), lastGrant[acct[r]].at # 0,
           NEW s \in Nat, NEW k \in Nat, Newest(acct[r], s, k)
    PROVE  Over(s)
<1>1. /\ acct[r] \in Account /\ st[r] \in StateId /\ st[r] = locks[acct[r]]
      /\ now \in Nat /\ Skew \in Nat /\ RequestSpan \in Nat /\ lastGrant[acct[r]].exp \in Nat
      /\ st[r] # NoState
    BY ConstantsAssumption
    DEF RefreshInv, TypeInv, TypeOK, HoldsPointer, CurrentInv, Locks
<1>2. CASE HoldsGrant(states[st[r]], acct[r], k)
    <2>1. ~Outlives(lastGrant[acct[r]].exp)
        BY <1>2 DEF Fresh, HoldsGrant
    <2>2. QED
        BY <1>1, <2>1 DEF Outlives, Newest, Over
<1>3. CASE ~HoldsGrant(states[st[r]], acct[r], k)
    BY <1>1, <1>3 DEF Newest, MemoryOK
<1>4. QED
    BY <1>2, <1>3

\* When everything older is over, whoever still runs has the newest grant.
LEMMA OverIsNewest ==
    ASSUME RefreshInv, NEW a \in Account, NEW s \in Nat, NEW k \in Nat, Newest(a, s, k), Over(s)
    PROVE  /\ HoldsGrant(core[a], a, k)
           /\ \A r \in Request : Runs(r, a) => HoldsGrant(creds[r], a, k) /\ updated[r] = NoUpdate
<1>1. now \in Nat /\ RequestSpan \in Nat /\ \A r \in Request : since[r] \in Nat
    BY ConstantsAssumption DEF RefreshInv, TypeInv, TypeOK
<1>2. ASSUME NEW r \in Request, Runs(r, a) PROVE ~(since[r] <= s + RequestSpan)
    BY <1>1, <1>2 DEF RefreshInv, SpanInv, Runs, Over
<1>3. ASSUME NEW r \in Request, Granter(r, a, s) PROVE FALSE
    BY <1>1, <1>2, <1>3 DEF Granter
<1>4. HoldsGrant(core[a], a, k)
    BY <1>3 DEF Newest, CoreOK
<1>5. QED
    BY <1>2, <1>4 DEF Newest, CopyOK

LEMMA StartedNewest ==
    ASSUME Gentle, SharedInv, TypeInv', NEW r \in Request, StartCall(r), NEW a \in Account
    PROVE  AccountInv(a)'
<1>1. /\ SameData(a) /\ SameMemory(a)
      /\ acct' = acct /\ since' = since /\ creds' = creds /\ updated' = updated
      /\ pc[r] # "idle" /\ pc'[r] # "idle" /\ ~(pc[r] = "forward" /\ creds[r].at # 0)
      /\ TypeInv /\ AccountInv(a) /\ RequestStep(r)
    BY QuietSteps DEF SharedInv, RefreshInv, NewestInv, RequestStep, Acquire
<1>2. CASE acct[r] # a
    <2>1. SameRuns(a)
        BY <1>1, <1>2, OtherRuns DEF Runs
    <2>2. QED
        BY <1>1, <2>1, Undisturbed
<1>3. CASE acct[r] = a
    <2>1. \A q \in Request : Runs(q, a)' <=> Runs(q, a)
        BY <1>1, OthersSame DEF Runs
    <2>2. CASE lastGrant[a].at = 0
        <3>1. Untouched(a)
            BY <1>1, <2>2 DEF AccountInv
        <3>2. Untouched(a)'
            BY <1>1, <2>1, <3>1 DEF Untouched, SameData, SameMemory
        <3>3. QED
            BY <1>1, <2>2, <3>2 DEF AccountInv, SameData
    <2>3. CASE lastGrant[a].at # 0
        <3>1. PICK s \in Nat, k \in Nat : Newest(a, s, k)
            BY <1>1, <2>3 DEF AccountInv
        <3>2. Over(s)
            BY <1>3, <2>3, <3>1, CallIsOver DEF SharedInv, StartCall
        <3>3. MemoryOK(a, s, k)'
            BY <1>1, <3>1, MemoryLasts DEF Newest
        <3>4. HoldsGrant(core[a], a, k)
              /\ \A q \in Request : Runs(q, a) => HoldsGrant(creds[q], a, k) /\ updated[q] = NoUpdate
            BY <3>1, <3>2, OverIsNewest DEF SharedInv
        <3>5. now' = now
            BY DEF StartCall
        <3>6. ASSUME NEW q \in Request, Runs(q, a)' PROVE CopyOK(q, a, s, k)'
            BY <1>1, <2>1, <3>1, <3>2, <3>4, <3>5, <3>6
            DEF CopyOK, HoldsGrant, SameData, Over
        <3>7. CoreOK(a, s, k)'
            BY <1>1, <3>4 DEF CoreOK, HoldsGrant, SameData
        <3>8. Newest(a, s, k)'
            BY <1>1, <3>1, <3>3, <3>5, <3>6, <3>7 DEF Newest, SameData
        <3>9. QED
            BY <1>1, <2>3, <3>8 DEF AccountInv, SameData
    <2>4. QED
        BY <2>2, <2>3
<1>4. QED
    BY <1>2, <1>3

LEMMA DispatchedNewest ==
    ASSUME Gentle, SharedInv, TypeInv', NEW r \in Request, Dispatch(r), NEW a \in Account
    PROVE  AccountInv(a)'
<1>1. PICK b \in Account : acct' = [acct EXCEPT ![r] = b] /\ creds' = [creds EXCEPT ![r] = core[b]]
    BY DEF Dispatch
<1>2. /\ TypeInv /\ AccountInv(a) /\ RequestStep(r) /\ ~Runs(r, a)
      /\ now \in Nat /\ RequestSpan \in Nat /\ now' = now
      /\ pc'[r] = "ensure" /\ acct'[r] = b /\ creds'[r] = core[b] /\ since'[r] = now
      /\ updated'[r] = NoUpdate
    <2>1. TypeInv /\ AccountInv(a) /\ RequestStep(r)
        BY DEF SharedInv, RefreshInv, NewestInv, RequestStep
    <2>2. pc[r] = "idle" /\ updated[r] = NoUpdate
        BY DEF SharedInv, FlightInv, FlightOK, Dispatch
    <2>3. /\ now' = now /\ pc'[r] = "ensure" /\ acct'[r] = b /\ creds'[r] = core[b]
          /\ since'[r] = now /\ updated' = updated
        BY <1>1, <2>1 DEF Dispatch, Finish, TypeInv, TypeOK
    <2>4. now \in Nat /\ RequestSpan \in Nat
        BY <2>1, ConstantsAssumption DEF TypeInv, TypeOK
    <2>5. QED
        BY <2>1, <2>2, <2>3, <2>4 DEF Runs
<1>3. SameData(a) /\ SameMemory(a)
    <2>1. UNCHANGED <<now, lastGrant, core, issued, live, locks, states>>
        BY DEF Dispatch, managerVars, endpointVars, historyVars
    <2>2. locks[a] # NoState => states[locks[a]].seenAt \in Nat
        BY <1>2 DEF TypeInv, TypeOK, RefreshState
    <2>3. QED
        BY <2>1, <2>2 DEF SameData, SameMemory
<1>4. CASE a # b
    <2>1. SameRuns(a)
        BY <1>2, <1>4, OtherRuns DEF Runs
    <2>2. QED
        BY <1>2, <1>3, <2>1, Undisturbed
<1>5. CASE a = b
    <2>1. \A q \in Request : q # r => /\ Runs(q, a)' <=> Runs(q, a)
                                      /\ pc'[q] = pc[q] /\ creds'[q] = creds[q]
                                      /\ updated'[q] = updated[q] /\ since'[q] = since[q]
        BY <1>2, OthersSame DEF Runs
    <2>2. CASE lastGrant[a].at = 0
        <3>1. Untouched(a)
            BY <1>2, <2>2 DEF AccountInv
        <3>2. \A q \in Request : Runs(q, a)' => updated'[q] = NoUpdate /\ creds'[q] = core'[a]
            BY <1>2, <1>3, <1>5, <2>1, <3>1 DEF Untouched, SameData
        <3>3. Untouched(a)'
            BY <1>3, <3>1, <3>2 DEF Untouched, SameData, SameMemory
        <3>4. QED
            BY <1>3, <2>2, <3>3 DEF AccountInv, SameData
    <2>3. CASE lastGrant[a].at # 0
        <3>1. PICK s \in Nat, k \in Nat : Newest(a, s, k)
            BY <1>2, <2>3 DEF AccountInv
        <3>2. MemoryOK(a, s, k)'
            BY <1>2, <1>3, <3>1, MemoryLasts DEF Newest
        <3>3. ASSUME NEW p \in Request, Granter(p, a, s)
              PROVE  Granter(p, a, s)' /\ now <= s + RequestSpan
            <4>1. p # r
                BY <1>2, <3>3 DEF Granter
            <4>2. now - s <= RequestSpan
                BY <3>3 DEF Granter, Runs, SharedInv, RefreshInv, SpanInv
            <4>3. QED
                BY <1>2, <2>1, <3>3, <4>1, <4>2 DEF Granter
        <3>4. CoreOK(a, s, k)'
            BY <1>3, <3>1, <3>3 DEF Newest, CoreOK, HoldsGrant, SameData
        <3>5. CopyOK(r, a, s, k)'
            <4>1. HoldsGrant(core[a], a, k) \/ now <= s + RequestSpan
                BY <3>1, <3>3 DEF Newest, CoreOK
            <4>2. QED
                BY <1>2, <1>3, <1>5, <3>1, <4>1 DEF CopyOK, HoldsGrant, SameData, Newest
        <3>6. ASSUME NEW q \in Request, q # r, Runs(q, a)' PROVE CopyOK(q, a, s, k)'
            BY <1>2, <1>3, <2>1, <3>1, <3>6
            DEF Newest, CopyOK, UpdateOK, HoldsGrant, SameData, Over
        <3>7. Newest(a, s, k)'
            BY <1>2, <1>3, <3>1, <3>2, <3>4, <3>5, <3>6 DEF Newest, SameData
        <3>8. QED
            BY <1>3, <2>3, <3>7 DEF AccountInv, SameData
    <2>4. QED
        BY <2>2, <2>3
<1>6. QED
    BY <1>4, <1>5

\* Credentials that hold the grant already are not changed by merging it.
LEMMA MergeHeld ==
    ASSUME NEW c \in Credentials, NEW u \in Update,
           c.at = u.at, c.rt = u.rt, c.exp = u.exp
    PROVE  Merge(c, u) = c
BY DEF Merge, Credentials, Update

LEMMA MergeFields ==
    ASSUME NEW c \in Credentials, NEW u \in Update
    PROVE  /\ u.at # 0 => Merge(c, u).at = u.at
           /\ u.exp # 0 => Merge(c, u).exp = u.exp
           /\ u.rt # 0 => Merge(c, u).rt = u.rt
           /\ u.rt = 0 => Merge(c, u).rt = c.rt
BY DEF Merge, Credentials, Update

LEMMA MergeNothing ==
    ASSUME NEW c \in Credentials
    PROVE  Merge(c, NoUpdate) = c
BY DEF Merge, Credentials, NoUpdate

LEMMA ReusedNewest ==
    ASSUME Gentle, SharedInv, TypeInv', NEW r \in Request, ReuseRemembered(r), NEW a \in Account
    PROVE  AccountInv(a)'
<1> DEFINE offer  == Remembered(st[r])
           merged == Merge(creds[r], offer)
<1>1. /\ TypeInv /\ AccountInv(a) /\ RequestStep(r) /\ pc[r] = "lock"
      /\ creds \in [Request -> Credentials] /\ updated \in [Request -> Update]
    BY DEF SharedInv, RefreshInv, NewestInv, RequestStep, Acquire, ReuseRemembered, Locks,
           TypeInv, TypeOK
<1>2. /\ now' = now /\ acct' = acct /\ since' = since
      /\ UNCHANGED <<lastGrant, core, issued, live, locks, states>>
    BY DEF ReuseRemembered, managerVars, endpointVars, historyVars
<1>3. SameData(a) /\ SameMemory(a)
    <2>1. locks[a] # NoState => states[locks[a]].seenAt \in Nat
        BY <1>1 DEF TypeInv, TypeOK, RefreshState
    <2>2. QED
        BY <1>2, <2>1 DEF SameData, SameMemory
<1>4. CASE acct[r] # a
    <2>1. SameRuns(a)
        BY <1>1, <1>2, <1>4, OtherRuns DEF Runs
    <2>2. QED
        BY <1>1, <1>3, <2>1, Undisturbed
<1>5. CASE acct[r] = a
    <2>1. /\ st[r] \in StateId /\ st[r] = locks[a] /\ st[r] # NoState
          /\ offer \in Update /\ states[st[r]].at # 0
          /\ offer.at = states[st[r]].at /\ offer.rt = states[st[r]].rt
          /\ offer.exp = states[st[r]].exp
        BY <1>1, <1>5, RememberedType, ConstantsAssumption
        DEF SharedInv, RefreshInv, CurrentInv, HoldsPointer, TypeInv, ReuseRemembered, Fresh,
            Remembered
    <2>2. lastGrant[a].at # 0
        BY <1>1, <2>1 DEF AccountInv, Untouched
    <2>3. PICK s \in Nat, k \in Nat : Newest(a, s, k)
        BY <1>1, <2>2 DEF AccountInv
    <2>4. HoldsGrant(states[st[r]], a, k)
        BY <2>1, <2>3 DEF Newest, MemoryOK
    <2>5. /\ offer.at = lastGrant[a].at /\ offer.rt = k /\ offer.exp = lastGrant[a].exp
          /\ offer.exp # 0 /\ Runs(r, a) /\ CopyOK(r, a, s, k)
        <3>1. lastGrant[a].exp # 0
            BY <2>3, ConstantsAssumption DEF Newest
        <3>2. QED
            BY <1>1, <1>5, <2>1, <2>3, <2>4, <3>1 DEF HoldsGrant, Runs, Newest
    <2>6. HoldsGrant(merged, a, k)
        <3>1. creds[r] \in Credentials
            BY <1>1
        <3>2. merged.at = offer.at /\ merged.exp = offer.exp
              /\ merged.rt = IF offer.rt = 0 THEN creds[r].rt ELSE offer.rt
            BY <2>1, <2>2, <2>5, <3>1, MergeFields
        <3>3. QED
            BY <2>5, <3>2 DEF HoldsGrant, CopyOK
    <2>7. merged # creds[r] => since[r] <= s + RequestSpan
        <3>1. HoldsGrant(creds[r], a, k) => merged = creds[r]
            BY <1>1, <2>1, <2>5, MergeHeld DEF HoldsGrant
        <3>2. QED
            BY <2>5, <3>1 DEF CopyOK
    <2>8. /\ creds'[r] = merged /\ pc'[r] = "forward"
          /\ updated'[r] = IF merged = creds[r] THEN NoUpdate ELSE offer
        BY <1>1 DEF ReuseRemembered, Finish, TypeInv, TypeOK
    <2> HIDE DEF offer, merged
    <2>9. CopyOK(r, a, s, k)'
        <3>1. k = 0 => creds'[r].rt = 0
            BY <2>6, <2>8 DEF HoldsGrant
        <3>2. UpdateOK(r, a, k)' \/ updated'[r] = NoUpdate
            BY <1>2, <2>5, <2>8 DEF UpdateOK
        <3>3. QED
            BY <1>2, <2>6, <2>7, <2>8, <3>1, <3>2 DEF CopyOK, HoldsGrant
    <2>10. \A q \in Request : q # r => /\ Runs(q, a)' <=> Runs(q, a)
                                       /\ pc'[q] = pc[q] /\ creds'[q] = creds[q]
                                       /\ updated'[q] = updated[q] /\ since'[q] = since[q]
        BY <1>1, OthersSame DEF Runs
    <2>11. CoreOK(a, s, k)'
        <3>1. ASSUME NEW p \in Request, Granter(p, a, s) PROVE Granter(p, a, s)'
            <4>1. p # r
                BY <1>1, <3>1 DEF Granter
            <4>2. QED
                BY <2>10, <3>1, <4>1 DEF Granter
        <3>2. QED
            BY <1>2, <2>3, <3>1 DEF Newest, CoreOK, HoldsGrant
    <2>12. ASSUME NEW q \in Request, q # r, Runs(q, a)' PROVE CopyOK(q, a, s, k)'
        BY <1>2, <2>3, <2>10, <2>12 DEF Newest, CopyOK, UpdateOK, HoldsGrant, Over
    <2>13. MemoryOK(a, s, k)'
        BY <1>1, <1>3, <2>3, MemoryLasts DEF Newest
    <2>14. Newest(a, s, k)'
        BY <1>2, <2>3, <2>9, <2>11, <2>12, <2>13 DEF Newest
    <2>15. QED
        BY <1>2, <2>2, <2>14 DEF AccountInv
<1>6. QED
    BY <1>4, <1>5

LEMMA LookedUpNewest ==
    ASSUME RoomForAll, Gentle, SharedInv, TypeInv', NEW r \in Request,
           GetStateHit(r) \/ GetStateMiss(r), NEW a \in Account
    PROVE  AccountInv(a)'
<1>1. /\ TypeInv /\ AccountInv(a) /\ RequestStep(r)
      /\ locks \in [Account -> StateId \union {NoState}] /\ states \in [StateId -> RefreshState]
      /\ acct[r] \in Account /\ NoState \notin StateId /\ now \in Nat
    BY ConstantsAssumption
    DEF SharedInv, RefreshInv, NewestInv, RequestStep, Ensure, TypeInv, TypeOK
<1>2. /\ pc[r] = "ensure" /\ pc'[r] = "lock" /\ now' = now
      /\ UNCHANGED <<acct, creds, updated, since, lastGrant, core, issued, live>>
    BY <1>1 DEF GetStateHit, GetStateMiss, StateRequested, Finish, endpointVars, historyVars,
                TypeInv, TypeOK
<1>3. SameData(a)
    BY <1>2 DEF SameData
<1>4. SameRuns(a)
    BY <1>1, <1>2, OthersSame DEF SameRuns, Runs
<1>5. CASE GetStateHit(r)
    <2>1. /\ acct[r] \in Kept /\ locks[acct[r]] \in StateId
          /\ locks' = LocksWith(Kept, acct[r], locks[acct[r]])
          /\ states' = [states EXCEPT ![locks[acct[r]]].seenAt = now]
        BY <1>1, <1>5 DEF GetStateHit, Kept, Tracked
    <2>2. CASE a \in Kept
        <3>1. locks'[a] = locks[a] /\ locks[a] \in StateId
            BY <1>1, <2>1, <2>2 DEF LocksWith, Kept, Tracked
        <3>2. \A o \in RefreshState : /\ [o EXCEPT !.seenAt = now].at = o.at
                                      /\ [o EXCEPT !.seenAt = now].rt = o.rt
                                      /\ [o EXCEPT !.seenAt = now].exp = o.exp
                                      /\ [o EXCEPT !.seenAt = now].seenAt = now
            BY DEF RefreshState
        <3>3. states[locks[a]].seenAt <= now /\ states[locks[a]].seenAt \in Nat
            BY <1>1, <3>1 DEF SharedInv, ClockInv, RefreshState
        <3>4. SameMemory(a)
            BY <1>1, <2>1, <3>1, <3>2, <3>3 DEF SameMemory
        <3>5. QED
            BY <1>1, <1>3, <1>4, <3>4, Undisturbed
    <2>3. CASE a \notin Kept
        <3>1. locks'[a] = NoState
            BY <2>1, <2>3 DEF LocksWith
        <3>2. QED
            BY <1>1, <1>3, <1>4, <2>3, <3>1, Undisturbed DEF Forgotten
    <2>4. QED
        BY <2>2, <2>3
<1>6. CASE GetStateMiss(r)
    <2>1. ~TableFull /\ acct[r] \notin Kept
        BY <1>1, <1>6, NewEntryHasRoom DEF GetStateMiss
    <2>2. PICK s \in StateId :
            /\ Unreferenced(s)
            /\ states' = [states EXCEPT ![s] = NewRefreshState]
            /\ locks' = LocksWith(Kept, acct[r], s)
        BY <1>6, <2>1 DEF GetStateMiss
    <2>3. CASE a \in Kept
        <3>1. locks'[a] = locks[a] /\ locks[a] \in StateId /\ locks[a] # s
            BY <1>1, <2>1, <2>2, <2>3 DEF LocksWith, Kept, Tracked, Unreferenced
        <3>2. states'[locks[a]] = states[locks[a]] /\ states[locks[a]].seenAt \in Nat
            BY <1>1, <2>2, <3>1 DEF RefreshState
        <3>3. SameMemory(a)
            BY <3>1, <3>2 DEF SameMemory
        <3>4. QED
            BY <1>1, <1>3, <1>4, <3>3, Undisturbed
    <2>4. CASE a \notin Kept
        <3>1. locks'[a] = NoState \/ locks'[a] = s
            BY <2>2, <2>4 DEF LocksWith
        <3>2. states'[s].at = 0 /\ states'[s].rt = 0
            BY <1>1, <2>2 DEF NewRefreshState
        <3>3. QED
            BY <1>1, <1>3, <1>4, <2>4, <3>1, <3>2, Undisturbed DEF Forgotten
    <2>5. QED
        BY <2>3, <2>4
<1>7. QED
    BY <1>5, <1>6

\* A grant leaves more issued than anybody has received.
LEMMA GrantedNewest ==
    ASSUME Gentle, SharedInv, TypeInv', NEW r \in Request, EndpointGrants(r), NEW a \in Account
    PROVE  AccountInv(a)'
<1>1. PICK rotates, answer : Grant(r, rotates) /\ Answer(r, answer)
    BY DEF EndpointGrants
<1>2. /\ TypeInv /\ AccountInv(a) /\ RequestStep(r) /\ pc[r] = "calling"
      /\ now \in Nat /\ issued[a] \in Nat /\ core[a].at \in Nat /\ lastGrant[a].at \in Nat
      /\ acct[r] \in Account /\ issued \in [Account -> Nat] /\ live \in [Account -> SUBSET Nat]
    BY DEF SharedInv, RefreshInv, NewestInv, RequestStep, Endpoint, EndpointGrants, TypeInv,
           TypeOK, Credentials
<1>3. /\ pc'[r] = "replied"
      /\ UNCHANGED <<now, acct, creds, updated, since, lastGrant, core, locks, states>>
    BY <1>1, <1>2 DEF Answer, Finish, managerVars, historyVars, TypeInv, TypeOK
<1>4. SameMemory(a)
    <2>1. locks[a] # NoState => states[locks[a]].seenAt \in Nat
        BY <1>2 DEF TypeInv, TypeOK, RefreshState
    <2>2. QED
        BY <1>3, <2>1 DEF SameMemory
<1>5. SameRuns(a)
    BY <1>2, <1>3, OthersSame DEF SameRuns, Runs
<1>6. CASE acct[r] # a
    <2>1. issued'[a] = issued[a] /\ live'[a] = live[a]
        BY <1>1, <1>2, <1>6 DEF Grant
    <2>2. QED
        BY <1>2, <1>3, <1>4, <1>5, <2>1, Undisturbed DEF SameData
<1>7. CASE acct[r] = a
    <2>1. issued'[a] = issued[a] + 1
        BY <1>1, <1>2, <1>7 DEF Grant
    <2>2. \A q \in Request : /\ Runs(q, a)' <=> Runs(q, a)
                             /\ pc'[q] \in Critical => pc[q] \in Critical
                             /\ pc[q] = "forward" => pc'[q] = "forward"
        BY <1>2, <1>3, OthersSame DEF Runs
    <2>3. CASE lastGrant[a].at = 0
        <3>1. Untouched(a)
            BY <1>2, <2>3 DEF AccountInv
        <3>2. Untouched(a)'
            BY <1>2, <1>3, <2>1, <2>2, <3>1 DEF Untouched
        <3>3. QED
            BY <1>3, <2>3, <3>2 DEF AccountInv
    <2>4. CASE lastGrant[a].at # 0
        <3>1. PICK s \in Nat, k \in Nat : Newest(a, s, k)
            BY <1>2, <2>4 DEF AccountInv
        <3>2. MemoryOK(a, s, k)'
            BY <1>3, <3>1 DEF Newest, MemoryOK, HoldsGrant, Over
        <3>3. CoreOK(a, s, k)'
            <4>1. ASSUME NEW p \in Request, Granter(p, a, s) PROVE Granter(p, a, s)'
                BY <1>3, <2>2, <4>1 DEF Granter
            <4>2. QED
                BY <1>3, <3>1, <4>1 DEF Newest, CoreOK, HoldsGrant
        <3>4. ASSUME NEW q \in Request, Runs(q, a)' PROVE CopyOK(q, a, s, k)'
            BY <1>3, <2>2, <3>1, <3>4 DEF Newest, CopyOK, UpdateOK, HoldsGrant, Over
        <3>5. Newest(a, s, k)'
            BY <1>2, <1>3, <2>1, <3>1, <3>2, <3>3, <3>4 DEF Newest
        <3>6. QED
            BY <1>3, <2>4, <3>5 DEF AccountInv
    <2>5. QED
        BY <2>3, <2>4
<1>8. QED
    BY <1>6, <1>7

\* What the request that has got a grant finds: nobody else has anything to
\* tell Core, and the grant's refresh token is what Core will have.
LEMMA BeforeAdopted ==
    ASSUME SharedInv, NEW r \in Request, Replied(r, "granted"), NEW a \in Account, a = acct[r]
    PROVE  /\ Keeps(r) = IF reply[r].rt = 0 THEN core[a].rt ELSE reply[r].rt
           /\ \A q \in Request : Runs(q, a) => updated[q] = NoUpdate /\ creds[q].rt = core[a].rt
<1>1. Runs(r, a) /\ pc[r] \in Critical /\ AccountInv(a)
    BY DEF Replied, Runs, SharedInv, NewestInv
<1>2. CASE lastGrant[a].at = 0
    <2>1. Untouched(a)
        BY <1>1, <1>2 DEF AccountInv
    <2>2. QED
        BY <1>1, <2>1 DEF Untouched, Keeps, KeptRefreshToken, NeedsExchange
<1>3. CASE lastGrant[a].at # 0
    <2>1. PICK s \in Nat, k \in Nat : Newest(a, s, k)
        BY <1>1, <1>3 DEF AccountInv
    <2>2. Over(s)
        BY <1>1, <2>1 DEF Newest, CopyOK
    <2>3. /\ HoldsGrant(core[a], a, k)
          /\ \A q \in Request : Runs(q, a) => HoldsGrant(creds[q], a, k) /\ updated[q] = NoUpdate
        BY <2>1, <2>2, OverIsNewest DEF SharedInv
    <2>4. ~NeedsExchange(r)
        BY <1>1, <1>3, <2>3 DEF NeedsExchange, HoldsGrant
    <2>5. QED
        BY <1>1, <2>3, <2>4 DEF Keeps, KeptRefreshToken, HoldsGrant
<1>4. QED
    BY <1>2, <1>3

LEMMA AdoptedNewest ==
    ASSUME Gentle, SharedInv, TypeInv', NEW r \in Request, ExchangeGranted(r) \/ RefreshGranted(r),
           NEW a \in Account
    PROVE  AccountInv(a)'
<1>1. /\ TypeInv /\ AccountInv(a) /\ RequestStep(r) /\ RefreshInv /\ OwnInv /\ TokenInv
      /\ now \in Nat /\ Skew \in Nat /\ RequestSpan \in Nat /\ since[r] \in Nat
      /\ \A q \in Request : since[q] \in Nat
    BY ConstantsAssumption
    DEF SharedInv, RefreshInv, NewestInv, RequestStep, Receive, TypeInv, TypeOK
<1> DEFINE s == locks[acct[r]]
<1>2. /\ Replied(r, "granted") /\ Adopt(r, Keeps(r))
      /\ acct[r] \in Account /\ s \in StateId /\ s = st[r]
      /\ states'[s].at = reply[r].at /\ reply[r].at # 0
      /\ states'[s].rt = Keeps(r)
      /\ states'[s].exp = now + reply[r].life
      /\ states'[s].seenAt = states[s].seenAt
      /\ states[s].seenAt >= since[r] /\ now - since[r] <= RequestSpan
      /\ \A b \in Account \ {acct[r]} : locks[b] # NoState => states'[locks[b]] = states[locks[b]]
      /\ lastGrant' = [lastGrant EXCEPT ![acct[r]] = [at |-> reply[r].at, exp |-> now + reply[r].life]]
    BY <1>1, Adopted
<1>3. UNCHANGED <<now, locks, acct, since, core, issued, live>>
    BY <1>2 DEF Adopt, endpointVars
<1>4. /\ pc[r] = "replied" /\ pc'[r] = "forward"
      /\ creds'[r] = [at |-> reply[r].at, rt |-> Keeps(r), exp |-> now + reply[r].life,
                      sk |-> creds[r].sk]
      /\ updated'[r] = [at |-> reply[r].at, rt |-> reply[r].rt, exp |-> now + reply[r].life]
    BY <1>1, <1>2 DEF Adopt, Replied, Finish, TypeInv, TypeOK
<1> HIDE DEF s
<1>5. CASE acct[r] # a
    <2>1. SameRuns(a)
        BY <1>1, <1>3, <1>5, OtherRuns DEF Runs
    <2>2. SameData(a)
        BY <1>1, <1>2, <1>3, <1>5 DEF SameData, TypeInv, TypeOK
    <2>3. SameMemory(a)
        <3>1. locks[a] # NoState => /\ states'[locks[a]] = states[locks[a]]
                                    /\ states[locks[a]].seenAt \in Nat
            BY <1>1, <1>2, <1>5 DEF TypeInv, TypeOK, RefreshState
        <3>2. QED
            BY <1>3, <3>1 DEF SameMemory
    <2>4. QED
        BY <1>1, <2>1, <2>2, <2>3, Undisturbed
<1>6. CASE acct[r] = a
    <2>3. PICK k \in Nat, t \in Nat : k = Keeps(r) /\ t = since[r]
        <3>1. reply[r].rt \in Nat /\ core[a].rt \in Nat
            BY <1>1 DEF TypeInv, TypeOK, Reply, Credentials
        <3>2. Keeps(r) = IF reply[r].rt = 0 THEN core[a].rt ELSE reply[r].rt
            BY <1>2, <1>6, BeforeAdopted
        <3>3. Keeps(r) \in Nat
            BY <3>1, <3>2
        <3>4. QED
            BY <1>1, <3>3
    <2>1. lastGrant'[a].at = reply[r].at /\ lastGrant'[a].exp = now + reply[r].life
        BY <1>1, <1>2, <1>6 DEF TypeInv, TypeOK
    <2>2. /\ k = IF reply[r].rt = 0 THEN core[a].rt ELSE reply[r].rt
          /\ \A q \in Request : Runs(q, a) => updated[q] = NoUpdate /\ creds[q].rt = core[a].rt
        BY <1>2, <1>6, <2>3, BeforeAdopted
    <2>4. reply[r].at = issued[a] /\ (k # 0 => k \in live[a])
        BY <1>2, <1>6, <2>3 DEF SharedInv, FlightInv, FlightOK
    <2>5. t <= now /\ now + reply[r].life > t + Skew + 2 * RequestSpan
        <3>1. reply[r].life \in Lifetimes /\ reply[r].life \in Nat
            BY <1>1, <1>2 DEF SharedInv, ClockInv, Replied, TypeInv, TypeOK, Reply
        <3>2. since[r] <= now
            BY <1>4 DEF SharedInv, RefreshInv, SpanInv
        <3>3. QED
            BY <1>1, <2>3, <3>1, <3>2 DEF Gentle
    <2>6. MemoryOK(a, t, k)'
        <3>1. HoldsGrant(states[locks[a]], a, k)' /\ states'[locks[a]].seenAt >= t
            BY <1>2, <1>3, <1>6, <2>1, <2>3 DEF HoldsGrant, s
        <3>2. QED
            BY <1>3, <3>1, <1>2, <1>6, ConstantsAssumption DEF MemoryOK, s
    <2>7. CoreOK(a, t, k)'
        <3>1. Granter(r, a, t)'
            BY <1>2, <1>3, <1>4, <1>6, <2>3 DEF Granter, Runs
        <3>2. QED
            BY <3>1 DEF CoreOK
    <2>8. CopyOK(r, a, t, k)'
        <3>1. HoldsGrant(creds[r], a, k)'
            BY <1>4, <2>1, <2>3 DEF HoldsGrant
        <3>2. UpdateOK(r, a, k)'
            BY <1>3, <1>4, <2>1, <2>2, <2>3 DEF UpdateOK
        <3>3. since'[r] <= t + RequestSpan
            BY <1>1, <1>3, <2>3
        <3>4. QED
            BY <1>3, <1>4, <2>3, <3>1, <3>2, <3>3 DEF CopyOK
    <2>9. ASSUME NEW q \in Request, q # r, Runs(q, a)' PROVE CopyOK(q, a, t, k)'
        <3>1. /\ Runs(q, a) /\ pc'[q] = pc[q] /\ creds'[q] = creds[q]
              /\ updated'[q] = updated[q] /\ since'[q] = since[q]
            BY <1>1, <2>9, OthersSame DEF Runs
        <3>2. pc[q] \notin Critical
            BY <1>1, <1>2, <1>4, <1>6, <2>9, <3>1
            DEF SharedInv, RefreshInv, MutexInv, CurrentInv, Runs
        <3>3. since[q] <= t + RequestSpan
            <4>1. since[q] <= now
                BY <3>1 DEF SharedInv, RefreshInv, SpanInv, Runs
            <4>2. QED
                BY <1>1, <1>2, <2>3, <4>1
        <3>4. updated[q] = NoUpdate /\ (k = 0 => creds[q].rt = 0)
            BY <2>2, <3>1
        <3>5. QED
            BY <1>3, <3>1, <3>2, <3>3, <3>4 DEF CopyOK
    <2>10. k = 0 => core[a].rt = 0
        BY <2>2
    <2>11. Newest(a, t, k)'
        <3>1. t <= now' /\ lastGrant'[a].exp > t + Skew + 2 * RequestSpan
            BY <1>3, <2>1, <2>5
        <3>2. \A q \in Request : Runs(q, a)' => CopyOK(q, a, t, k)'
            BY <2>8, <2>9
        <3>3. /\ k = 0 => core'[a].rt = 0
              /\ lastGrant'[a].at <= issued'[a]
              /\ lastGrant'[a].at = issued'[a] /\ k # 0 => k \in live'[a]
            <4>1. issued[a] \in Nat
                BY <1>1 DEF TypeInv, TypeOK
            <4>2. QED
                BY <1>3, <2>1, <2>4, <2>10, <4>1
        <3>4. QED
            BY <2>6, <2>7, <3>1, <3>2, <3>3 DEF Newest
    <2>12. QED
        BY <1>2, <2>1, <2>11 DEF AccountInv
<1>7. QED
    BY <1>5, <1>6

\* Forward has returned: of all it knew, only Core may have learned something.
LEMMA ReturnSame ==
    ASSUME TypeInv, NEW r \in Request, Return(r), NEW a \in Account
    PROVE  /\ pc[r] # "idle" => ~Runs(r, a)'
           /\ UNCHANGED <<now, locks, states, lastGrant, issued, live, reply>>
           /\ SameMemory(a) /\ RequestStep(r)
           /\ pc'[r] = "idle" /\ updated'[r] = NoUpdate
           /\ \A q \in Request : q # r => /\ Runs(q, a)' <=> Runs(q, a)
                                          /\ pc'[q] = pc[q] /\ creds'[q] = creds[q]
                                          /\ updated'[q] = updated[q] /\ since'[q] = since[q]
<1>1. UNCHANGED <<now, locks, states, lastGrant, issued, live, reply>>
    BY DEF Return, managerVars, endpointVars, historyVars
<1>2. pc'[r] = "idle" /\ updated'[r] = NoUpdate
    BY DEF Return, Finish, TypeInv, TypeOK
<1>3. locks[a] # NoState => states[locks[a]].seenAt \in Nat
    BY DEF TypeInv, TypeOK, RefreshState
<1>4. RequestStep(r)
    BY DEF RequestStep
<1>5. QED
    BY <1>1, <1>2, <1>3, <1>4, OthersSame DEF SameMemory, Runs

LEMMA ErrorNewest ==
    ASSUME Gentle, SharedInv, TypeInv', NEW r \in Request, ReturnError(r), NEW a \in Account
    PROVE  AccountInv(a)'
<1>1. TypeInv /\ AccountInv(a) /\ Return(r) /\ core' = core /\ pc[r] \in {"dead", "transient"}
    BY DEF SharedInv, RefreshInv, NewestInv, ReturnError
<1>2. SameData(a) /\ SameMemory(a)
    BY <1>1, ReturnSame DEF SameData
<1>3. ASSUME NEW q \in Request
      PROVE  /\ Runs(q, a)' => /\ Runs(q, a) /\ (pc'[q] \in Critical => pc[q] \in Critical)
                               /\ creds'[q] = creds[q] /\ updated'[q] = updated[q]
                               /\ since'[q] = since[q]
             /\ Runs(q, a) /\ pc[q] = "forward" => Runs(q, a)' /\ pc'[q] = "forward"
    <2>1. CASE q = r
        BY <1>1, <2>1, ReturnSame
    <2>2. CASE q # r
        BY <1>1, <2>2, ReturnSame
    <2>3. QED
        BY <2>1, <2>2
<1>4. SameRuns(a)
    BY <1>3 DEF SameRuns
<1>5. QED
    BY <1>1, <1>2, <1>4, Undisturbed

\* The outcome of a request that has an older copy tells Core nothing, any
\* other one tells it the newest grant or what it knows.
LEMMA CompletedNewest ==
    ASSUME Gentle, SharedInv, TypeInv', NEW r \in Request, ForwardCompletes(r), NEW a \in Account
    PROVE  AccountInv(a)'
<1>1. /\ TypeInv /\ AccountInv(a) /\ Return(r) /\ pc[r] = "forward"
      /\ acct[r] \in Account /\ core[a] \in Credentials /\ updated[r] \in Update
      /\ core'[a] = IF a = acct[r] THEN Merge(core[a], updated[r]) ELSE core[a]
    BY DEF SharedInv, RefreshInv, NewestInv, ForwardCompletes, TypeInv, TypeOK
<1>2. /\ UNCHANGED <<now, locks, states, lastGrant, issued, live, reply>>
      /\ SameMemory(a) /\ RequestStep(r) /\ ~Runs(r, a)'
      /\ \A q \in Request : q # r => /\ Runs(q, a)' <=> Runs(q, a)
                                     /\ pc'[q] = pc[q] /\ creds'[q] = creds[q]
                                     /\ updated'[q] = updated[q] /\ since'[q] = since[q]
    BY <1>1, ReturnSame
<1>3. CASE a # acct[r]
    <2>1. SameRuns(a)
        BY <1>1, <1>2, <1>3, OtherRuns DEF Runs
    <2>2. SameData(a)
        BY <1>1, <1>2, <1>3 DEF SameData
    <2>3. QED
        BY <1>1, <1>2, <2>1, <2>2, Undisturbed
<1>4. CASE a = acct[r]
    <2>1. Runs(r, a)
        BY <1>1, <1>4 DEF Runs
    <2>2. updated[r] = NoUpdate => core'[a] = core[a]
        BY <1>1, MergeNothing
    <2>3. CASE lastGrant[a].at = 0
        <3>1. Untouched(a)
            BY <1>1, <2>3 DEF AccountInv
        <3>2. core'[a] = core[a]
            BY <2>1, <2>2, <3>1 DEF Untouched
        <3>3. \A q \in Request : Runs(q, a)' => updated'[q] = NoUpdate /\ creds'[q] = core'[a]
            BY <1>2, <3>1, <3>2 DEF Untouched
        <3>4. Untouched(a)'
            BY <1>2, <3>1, <3>2, <3>3 DEF Untouched
        <3>5. QED
            BY <1>2, <2>3, <3>4 DEF AccountInv
    <2>4. CASE lastGrant[a].at # 0
        <3>1. PICK s \in Nat, k \in Nat : Newest(a, s, k)
            BY <1>1, <2>4 DEF AccountInv
        <3>2. CopyOK(r, a, s, k)
            BY <2>1, <3>1 DEF Newest
        <3>3. lastGrant[a].exp # 0
            <4>1. Skew \in Nat /\ RequestSpan \in Nat
                BY ConstantsAssumption
            <4>2. QED
                BY <3>1, <4>1 DEF Newest
        <3>4. ASSUME updated[r] # NoUpdate PROVE HoldsGrant(core'[a], a, k)
            <4>1. UpdateOK(r, a, k)
                BY <3>2, <3>4 DEF CopyOK
            <4>2. core'[a] = Merge(core[a], updated[r])
                BY <1>1, <1>4
            <4>3. core'[a].at = lastGrant[a].at /\ core'[a].exp = lastGrant[a].exp
                BY <1>1, <2>4, <3>3, <4>1, <4>2, MergeFields DEF UpdateOK
            <4>4. core'[a].rt = k
                BY <1>1, <3>1, <4>1, <4>2, MergeFields DEF UpdateOK, Newest
            <4>5. QED
                BY <4>3, <4>4 DEF HoldsGrant
        <3>5. /\ core[a].rt = k => core'[a].rt = k
              /\ k = 0 => core'[a].rt = 0
            BY <2>2, <3>1, <3>4 DEF HoldsGrant, Newest
        <3>6. CoreOK(a, s, k)'
            <4>1. CASE updated[r] # NoUpdate
                BY <1>2, <3>4, <4>1 DEF CoreOK, HoldsGrant
            <4>2. CASE updated[r] = NoUpdate
                <5>1. ASSUME NEW p \in Request, Granter(p, a, s) PROVE Granter(p, a, s)'
                    <6>1. p # r
                        BY <4>2, <5>1 DEF Granter, NoUpdate
                    <6>2. QED
                        BY <1>2, <5>1, <6>1 DEF Granter
                <5>2. QED
                    BY <1>2, <2>2, <3>1, <4>2, <5>1 DEF Newest, CoreOK, HoldsGrant
            <4>3. QED
                BY <4>1, <4>2
        <3>7. ASSUME NEW q \in Request, Runs(q, a)' PROVE CopyOK(q, a, s, k)'
            <4>1. q # r
                BY <1>2, <3>7
            <4>2. CopyOK(q, a, s, k)
                BY <1>2, <3>1, <3>7, <4>1 DEF Newest
            <4>3. UpdateOK(q, a, k) => UpdateOK(q, a, k)'
                BY <1>2, <3>5, <4>1 DEF UpdateOK
            <4>4. QED
                BY <1>2, <4>1, <4>2, <4>3 DEF CopyOK, HoldsGrant, Over
        <3>8. MemoryOK(a, s, k)'
            BY <1>2, <3>1 DEF Newest, MemoryOK, HoldsGrant, Over
        <3>9. Newest(a, s, k)'
            BY <1>2, <3>1, <3>5, <3>6, <3>7, <3>8 DEF Newest
        <3>10. QED
            BY <1>2, <2>4, <3>9 DEF AccountInv
    <2>5. QED
        BY <2>3, <2>4
<1>5. QED
    BY <1>3, <1>4

\* What can happen where nothing but a reply gets lost.
GentleStep(r) ==
    \/ QuietStep(r) \/ Dispatch(r) \/ GetStateHit(r) \/ GetStateMiss(r)
    \/ ReuseRemembered(r) \/ StartCall(r) \/ EndpointGrants(r)
    \/ ExchangeGranted(r) \/ RefreshGranted(r) \/ ForwardCompletes(r) \/ ReturnError(r)

LEMMA GentleSteps ==
    ASSUME Gentle, [Next]_vars
    PROVE  (\E r \in Request : GentleStep(r)) \/ Tick \/ UNCHANGED vars
<1>1. ~("revoke" \in Faults) /\ ~("admin" \in Faults) /\ ~("crash" \in Faults)
      /\ ~("neterr" \in Faults)
    BY DEF Gentle
<1>2. /\ ~Crash /\ \A r \in Request : ~ForwardFails(r)
      /\ \A a \in Account : ~Revoke(a) /\ ~Relogin(a) /\ ~AdminRefresh(a)
    BY <1>1 DEF Crash, ForwardFails, Revoke, Relogin, AdminRefresh
<1>3. QED
    BY <1>2 DEF Next, Ensure, Acquire, Endpoint, Receive, Forward, GentleStep, QuietStep

LEMMA NewestStep ==
    ASSUME RoomForAll, Gentle, SharedInv, TypeInv', [Next]_vars
    PROVE  NewestInv'
<1> SUFFICES ASSUME NEW a \in Account PROVE AccountInv(a)'
    BY DEF NewestInv
<1>1. TypeInv /\ AccountInv(a)
    BY DEF SharedInv, RefreshInv, NewestInv
<1>2. ASSUME NEW r \in Request, QuietStep(r) PROVE AccountInv(a)'
    BY <1>1, <1>2, QuietSteps, Undisturbed
<1>3. ASSUME NEW r \in Request, GentleStep(r) PROVE AccountInv(a)'
    BY <1>2, <1>3, DispatchedNewest, LookedUpNewest, ReusedNewest, StartedNewest, GrantedNewest,
       AdoptedNewest, CompletedNewest, ErrorNewest
    DEF GentleStep
<1>4. CASE Tick \/ UNCHANGED vars
    <2>1. UNCHANGED <<managerVars, requestVars, core, endpointVars, historyVars>>
          /\ now' \in {now, now + 1}
        BY <1>4 DEF Tick, vars
    <2>2. SameData(a) /\ SameRuns(a)
        BY <2>1 DEF SameData, SameRuns, Runs, requestVars, endpointVars, historyVars
    <2>3. SameMemory(a)
        <3>1. locks[a] # NoState => states[locks[a]].seenAt \in Nat
            BY <1>1 DEF TypeInv, TypeOK, RefreshState
        <3>2. QED
            BY <2>1, <3>1 DEF SameMemory, managerVars
    <2>4. QED
        BY <1>1, <2>2, <2>3, Undisturbed
<1>5. QED
    BY <1>3, <1>4, GentleSteps

\* Two requests inside the critical section work for different accounts.
LEMMA CriticalApart ==
    ASSUME RefreshInv, NEW r \in Request, NEW q \in Request, q # r,
           pc[r] \in Critical, pc[q] \in Critical
    PROVE  acct[q] # acct[r]
BY DEF RefreshInv, MutexInv, CurrentInv, InRefresh

\* Nothing but a grant to the account, or its own steps, disturbs a request.
LEMMA FlightApart ==
    ASSUME SharedInv, NEW r \in Request, GentleStep(r), NEW q \in Request, q # r
    PROVE  /\ pc'[q] = pc[q] /\ acct'[q] = acct[q] /\ creds'[q] = creds[q]
           /\ updated'[q] = updated[q] /\ reply'[q] = reply[q]
           /\ pc[q] = "replied" => /\ issued'[acct[q]] = issued[acct[q]]
                                   /\ live'[acct[q]] = live[acct[q]]
<1>1. TypeInv /\ RequestStep(r)
    BY DEF SharedInv, RefreshInv, GentleStep, QuietStep, RequestStep, Ensure, Acquire, Endpoint,
           Receive, ForwardCompletes, ReturnError
<1>2. CASE EndpointGrants(r)
    <2>1. PICK rotates \in BOOLEAN : Grant(r, rotates)
        BY <1>2 DEF EndpointGrants
    <2>2. pc[q] = "replied" => acct[q] # acct[r]
        BY <1>2, CriticalApart DEF SharedInv, EndpointGrants, Critical
    <2>3. pc[q] = "replied" => issued'[acct[q]] = issued[acct[q]] /\ live'[acct[q]] = live[acct[q]]
        BY <1>1, <2>1, <2>2 DEF Grant, TypeInv, TypeOK
    <2>4. QED
        BY <1>1, <2>3, OthersSame
<1>3. CASE ~EndpointGrants(r)
    <2>1. issued' = issued /\ live' = live
        BY <1>3
        DEF GentleStep, QuietStep, Dispatch, EnsureValid, EnsureMissingKey, GetStateHit,
            GetStateMiss, StateRequested, ReuseRemembered, RefuseInCooldown, StartCall,
            EndpointDenies, EndpointFails, ExchangeGranted, ExchangeFailed, RefreshGranted,
            RefreshDenied, RefreshExhausted, RefreshRetried, Adopt, GiveUp, Backoff,
            BackoffElapsed, BackoffCancelled, ForwardWithoutToken, ForwardCompletes, ReturnError,
            Return, endpointVars
    <2>2. QED
        BY <1>1, <2>1, OthersSame
<1>4. QED
    BY <1>2, <1>3

\* The answers of the endpoint fit what it has done.
LEMMA FlightStep ==
    ASSUME Gentle, SharedInv, [Next]_vars
    PROVE  FlightInv'
<1> SUFFICES ASSUME NEW q \in Request PROVE FlightOK(q)'
    BY DEF FlightInv
<1>t. /\ TypeInv /\ FlightOK(q) /\ acct[q] \in Account
      /\ pc \in [Request -> {"idle", "ensure", "forward", "dead", "transient"} \union InRefresh]
      /\ creds \in [Request -> Credentials] /\ updated \in [Request -> Update]
      /\ reply \in [Request -> Reply] /\ acct \in [Request -> Account]
      /\ issued \in [Account -> Nat] /\ live \in [Account -> SUBSET Nat]
    BY DEF SharedInv, RefreshInv, FlightInv, TypeInv, TypeOK
<1>1. ASSUME NEW r \in Request, GentleStep(r), q # r PROVE FlightOK(q)'
    <2>1. /\ pc'[q] = pc[q] /\ acct'[q] = acct[q] /\ creds'[q] = creds[q]
          /\ updated'[q] = updated[q] /\ reply'[q] = reply[q]
          /\ pc[q] = "replied" => /\ issued'[acct[q]] = issued[acct[q]]
                                  /\ live'[acct[q]] = live[acct[q]]
        BY <1>1, FlightApart
    <2>2. QED
        BY <1>t, <2>1 DEF FlightOK, NeedsExchange, Replied, Keeps, KeptRefreshToken
<1>2. CASE Dispatch(q) \/ EnsureValid(q) \/ EnsureMissingKey(q) \/ ReuseRemembered(q)
             \/ RefuseInCooldown(q) \/ ForwardWithoutToken(q) \/ BackoffCancelled(q)
    <2>1. /\ pc[q] # "replied" /\ reply' = reply /\ pc'[q] # "replied"
          /\ pc'[q] \notin InRefresh /\ pc'[q] # "idle"
        BY <1>2, <1>t
        DEF Dispatch, EnsureValid, EnsureMissingKey, ReuseRemembered, RefuseInCooldown, Locks,
            ForwardWithoutToken, BackoffCancelled, Finish, InRefresh, Critical
    <2>2. QED
        BY <1>t, <2>1 DEF FlightOK, Replied
<1>3. CASE ForwardCompletes(q) \/ ReturnError(q)
    <2>1. Return(q) /\ pc[q] # "replied"
        BY <1>3 DEF ForwardCompletes, ReturnError
    <2>2. reply' = reply /\ pc'[q] = "idle" /\ updated'[q] = NoUpdate
        BY <1>t, <2>1, ReturnSame
    <2>3. QED
        BY <1>t, <2>1, <2>2 DEF FlightOK, Replied, InRefresh, Critical
<1>4. CASE GetStateHit(q) \/ GetStateMiss(q) \/ StartCall(q) \/ BackoffElapsed(q)
    <2>1. /\ pc[q] # "replied" /\ reply' = reply /\ pc'[q] \in {"lock", "calling"}
          /\ creds' = creds /\ acct' = acct
          /\ ~NeedsExchange(q) => creds[q].rt # 0
        BY <1>4, <1>t
        DEF GetStateHit, GetStateMiss, StateRequested, NeedsNoRefresh, StartCall, Locks,
            BackoffElapsed, Finish, FlightOK, InRefresh, Critical
    <2>2. QED
        BY <1>t, <2>1 DEF FlightOK, Replied, NeedsExchange
<1>5. CASE EndpointDenies(q) \/ EndpointFails(q)
    <2>1. /\ pc[q] = "calling" /\ pc'[q] = "replied" /\ reply'[q].kind \in {"denied", "failed"}
          /\ creds' = creds /\ acct' = acct
        BY <1>5, <1>t DEF EndpointDenies, EndpointFails, Answer, Failure, Finish
    <2>2. QED
        BY <1>t, <2>1 DEF FlightOK, Replied, NeedsExchange, InRefresh, Critical
<1>6. CASE EndpointGrants(q)
    <2>1. /\ pc[q] = "calling" /\ Honoured(q)
          /\ \E rotates \in BOOLEAN, life \in Lifetimes :
               /\ Grant(q, rotates)
               /\ \/ Answer(q, [kind |-> "granted", at |-> issued[acct[q]] + 1,
                                rt |-> IF rotates THEN issued[acct[q]] + 1 ELSE 0, life |-> life])
                  \/ Answer(q, Failure("failed"))
        BY <1>6 DEF EndpointGrants
    <2>2. PICK rotates \in BOOLEAN, life \in Lifetimes :
            /\ Grant(q, rotates)
            /\ \/ Answer(q, [kind |-> "granted", at |-> issued[acct[q]] + 1,
                             rt |-> IF rotates THEN issued[acct[q]] + 1 ELSE 0, life |-> life])
               \/ Answer(q, Failure("failed"))
        BY <2>1
    <2>3. pc'[q] = "replied" /\ creds' = creds /\ acct' = acct
        BY <1>t, <2>2 DEF Answer, Finish
    <2>4. issued'[acct[q]] = issued[acct[q]] + 1
        BY <1>t, <2>2 DEF Grant
    <2>5. CASE Answer(q, Failure("failed"))
        <3>1. reply'[q].kind = "failed"
            BY <1>t, <2>5 DEF Answer, Failure
        <3>2. QED
            BY <1>t, <2>1, <2>3, <3>1 DEF FlightOK, Replied, NeedsExchange, InRefresh, Critical
    <2>6. CASE ~Answer(q, Failure("failed"))
        <3>1. reply'[q] = [kind |-> "granted", at |-> issued[acct[q]] + 1,
                           rt |-> IF rotates THEN issued[acct[q]] + 1 ELSE 0, life |-> life]
            BY <1>t, <2>2, <2>6 DEF Answer
        <3>2. rotates => issued[acct[q]] + 1 \in live'[acct[q]]
            BY <1>t, <2>2 DEF Grant
        <3>3. ~rotates => live'[acct[q]] = live[acct[q]]
            BY <1>t, <2>2 DEF Grant
        <3>4. issued[acct[q]] + 1 # 0
            BY <1>t
        <3>5. Keeps(q)' # 0 => Keeps(q)' \in live'[acct[q]]
            BY <2>1, <2>3, <3>1, <3>2, <3>3, <3>4
            DEF Keeps, KeptRefreshToken, NeedsExchange, Honoured
        <3>6. QED
            BY <1>t, <2>1, <2>3, <2>4, <3>1, <3>5
            DEF FlightOK, Replied, NeedsExchange, InRefresh, Critical
    <2>7. QED
        BY <2>5, <2>6
<1>7. CASE Receive(q)
    <2>1. pc[q] = "replied" /\ reply'[q] = NoReply /\ pc'[q] # "idle" /\ pc'[q] # "replied"
        BY <1>7, <1>t
        DEF Receive, ExchangeGranted, ExchangeFailed, RefreshGranted, RefreshDenied,
            RefreshRetried, RefreshExhausted, Replied, Adopt, GiveUp, Finish
    <2>2. pc'[q] \in InRefresh => creds' = creds /\ acct' = acct
        BY <1>7, <1>t
        DEF Receive, ExchangeGranted, ExchangeFailed, RefreshGranted, RefreshDenied,
            RefreshRetried, RefreshExhausted, Adopt, GiveUp, Finish, InRefresh, Critical
    <2>3. reply'[q].kind = "none"
        BY <2>1 DEF NoReply, Failure
    <2>4. QED
        BY <1>t, <2>1, <2>2, <2>3 DEF FlightOK, Replied, NeedsExchange, InRefresh, Critical
<1>8. CASE Tick \/ UNCHANGED vars
    BY <1>t, <1>8
    DEF Tick, vars, requestVars, endpointVars, FlightOK, Replied, NeedsExchange, Keeps,
        KeptRefreshToken
<1>9. ASSUME GentleStep(q) PROVE FlightOK(q)'
    BY <1>2, <1>3, <1>4, <1>5, <1>6, <1>7, <1>9 DEF GentleStep, QuietStep, Receive, Backoff
<1>10. QED
    BY <1>1, <1>8, <1>9, GentleSteps

\* What a denial says of the account, as long as the denied request has it.
Unreceived(a) == lastGrant[a].at < issued[a] /\ core[a].at < issued[a]

\* A refresh token that is denied is not the newest one issued.
LEMMA DeniedIsOld ==
    ASSUME SharedInv, NEW q \in Request, EndpointDenies(q), ~NeedsExchange(q)
    PROVE  Unreceived(acct[q])'
<1> DEFINE a == acct[q]
<1>1. /\ a \in Account /\ AccountInv(a) /\ Runs(q, a) /\ pc[q] \in Critical
      /\ creds[q].rt # 0 /\ creds[q].rt \notin live[a]
      /\ issued[a] \in Nat /\ core[a].at \in Nat /\ lastGrant[a].at \in Nat
    BY DEF SharedInv, RefreshInv, NewestInv, TypeInv, TypeOK, Credentials, EndpointDenies,
           Honoured, FlightInv, FlightOK, Runs, InRefresh, Critical
<1>2. UNCHANGED <<lastGrant, core, issued, acct>>
    BY DEF EndpointDenies, Answer, endpointVars, historyVars
<1>3. CASE lastGrant[a].at = 0
    <2>1. Untouched(a)
        BY <1>1, <1>3 DEF AccountInv
    <2>2. creds[q] = core[a]
        BY <1>1, <2>1 DEF Untouched
    <2>3. core[a].at < issued[a]
        BY <1>1, <2>1, <2>2 DEF Untouched
    <2>4. QED
        BY <1>1, <1>2, <1>3, <2>3 DEF Unreceived
<1>4. CASE lastGrant[a].at # 0
    <2>1. PICK s \in Nat, k \in Nat : Newest(a, s, k)
        BY <1>1, <1>4 DEF AccountInv
    <2>2. Over(s)
        BY <1>1, <2>1 DEF Newest, CopyOK
    <2>3. HoldsGrant(core[a], a, k) /\ HoldsGrant(creds[q], a, k)
        BY <1>1, <2>1, <2>2, OverIsNewest DEF SharedInv
    <2>4. lastGrant[a].at < issued[a]
        BY <1>1, <2>1, <2>3 DEF Newest, HoldsGrant
    <2>5. QED
        BY <1>2, <2>3, <2>4 DEF Unreceived, HoldsGrant
<1>5. QED
    BY <1>3, <1>4

\* While a denial is on its way, nobody receives a grant for the account, and
\* no outcome tells Core of one.
LEMMA UnreceivedLasts ==
    ASSUME Gentle, SharedInv, NEW q \in Request, pc[q] = "replied", Unreceived(acct[q]),
           NEW r \in Request, GentleStep(r), q # r
    PROVE  Unreceived(acct[q])'
<1> DEFINE a == acct[q]
<1>1. /\ TypeInv /\ a \in Account /\ acct'[q] = a /\ AccountInv(a)
      /\ issued'[a] = issued[a]
      /\ lastGrant \in [Account -> [at : Nat, exp : Nat]] /\ core \in [Account -> Credentials]
      /\ updated[r] \in Update /\ issued[a] \in Nat
    BY FlightApart DEF SharedInv, RefreshInv, NewestInv, TypeInv, TypeOK
<1>2. CASE ExchangeGranted(r) \/ RefreshGranted(r)
    <2>1. acct[r] # a
        BY <1>2, CriticalApart
        DEF SharedInv, ExchangeGranted, RefreshGranted, Replied, Critical
    <2>2. lastGrant'[a] = lastGrant[a] /\ core' = core
        BY <1>1, <1>2, <2>1 DEF ExchangeGranted, RefreshGranted, Adopt
    <2>3. QED
        BY <1>1, <2>2 DEF Unreceived
<1>3. CASE ForwardCompletes(r)
    <2>1. lastGrant' = lastGrant
        BY <1>3 DEF ForwardCompletes, Return, historyVars
    <2>2. CASE acct[r] # a
        <3>1. core'[a] = core[a]
            BY <1>1, <1>3, <2>2 DEF ForwardCompletes
        <3>2. QED
            BY <1>1, <2>1, <3>1 DEF Unreceived
    <2>3. CASE acct[r] = a
        <3>1. core'[a] = Merge(core[a], updated[r]) /\ Runs(r, a)
            BY <1>1, <1>3, <2>3 DEF ForwardCompletes, Runs
        <3>2. updated[r].at \in {0, lastGrant[a].at}
            <4>1. CASE lastGrant[a].at = 0
                BY <1>1, <3>1, <4>1 DEF AccountInv, Untouched, NoUpdate
            <4>2. CASE lastGrant[a].at # 0
                BY <1>1, <3>1, <4>2 DEF AccountInv, Newest, CopyOK, UpdateOK, NoUpdate
            <4>3. QED
                BY <4>1, <4>2
        <3>3. core'[a].at \in {core[a].at, lastGrant[a].at}
            BY <1>1, <3>1, <3>2 DEF Merge, Credentials, Update
        <3>4. QED
            BY <1>1, <2>1, <3>3 DEF Unreceived
    <2>4. QED
        BY <2>2, <2>3
<1>4. CASE ~(ExchangeGranted(r) \/ RefreshGranted(r) \/ ForwardCompletes(r))
    <2>1. lastGrant' = lastGrant /\ core' = core
        BY <1>4
        DEF GentleStep, QuietStep, Dispatch, EnsureValid, EnsureMissingKey, GetStateHit,
            GetStateMiss, StateRequested, ReuseRemembered, RefuseInCooldown, StartCall,
            EndpointGrants, EndpointDenies, EndpointFails, Answer, ExchangeFailed,
            RefreshDenied, RefreshExhausted, RefreshRetried, GiveUp, Backoff,
            BackoffElapsed, BackoffCancelled, ForwardWithoutToken, ReturnError,
            Return, historyVars
    <2>2. QED
        BY <1>1, <2>1 DEF Unreceived
<1>5. QED
    BY <1>2, <1>3, <1>4

LEMMA SpuriousStep ==
    ASSUME Gentle, SharedInv, [Next]_vars
    PROVE  NoSpuriousDenial'
<1> SUFFICES ASSUME NEW q \in Request, reply'[q].kind = "denied", ~NeedsExchange(q)'
             PROVE  Unreceived(acct[q])'
    BY DEF NoSpuriousDenial, Unreceived
<1>t. /\ TypeInv /\ FlightOK(q)
      /\ reply \in [Request -> Reply]
      /\ reply[q].kind = "denied" /\ ~NeedsExchange(q) => Unreceived(acct[q])
    BY DEF SharedInv, RefreshInv, FlightInv, TypeInv, TypeOK, NoSpuriousDenial, Unreceived
<1>1. ASSUME NEW r \in Request, GentleStep(r), q # r PROVE Unreceived(acct[q])'
    <2>1. pc'[q] = pc[q] /\ acct'[q] = acct[q] /\ creds'[q] = creds[q] /\ reply'[q] = reply[q]
        BY <1>1, FlightApart
    <2>2. reply[q].kind = "denied" /\ ~NeedsExchange(q) /\ pc[q] = "replied"
        BY <1>t, <2>1 DEF NeedsExchange, FlightOK
    <2>3. QED
        BY <1>1, <1>t, <2>2, UnreceivedLasts
<1>2. CASE EndpointDenies(q)
    <2>1. ~NeedsExchange(q)
        BY <1>2 DEF EndpointDenies, Answer, NeedsExchange
    <2>2. QED
        BY <1>2, <2>1, DeniedIsOld
<1>3. ASSUME GentleStep(q), ~EndpointDenies(q) PROVE FALSE
    <2>1. pc[q] # "replied" => reply[q].kind # "denied"
        BY <1>t DEF FlightOK
    <2>2. CASE EndpointFails(q)
        BY <1>t, <2>2 DEF EndpointFails, Answer, Failure
    <2>3. CASE EndpointGrants(q)
        BY <1>t, <2>3 DEF EndpointGrants, Answer, Failure
    <2>4. CASE Receive(q)
        <3>1. reply'[q] = NoReply
            BY <1>t, <2>4
            DEF Receive, ExchangeGranted, ExchangeFailed, RefreshGranted, RefreshDenied,
                RefreshRetried, RefreshExhausted, Adopt, GiveUp
        <3>2. QED
            BY <3>1 DEF NoReply, Failure
    <2>5. CASE ~(EndpointFails(q) \/ EndpointGrants(q) \/ Receive(q))
        <3>1. reply' = reply /\ pc[q] # "replied"
            BY <1>3, <2>5
            DEF GentleStep, QuietStep, Dispatch, EnsureValid, EnsureMissingKey, GetStateHit,
                GetStateMiss, StateRequested, ReuseRemembered, RefuseInCooldown, Locks,
                StartCall, Receive, Backoff, BackoffElapsed, BackoffCancelled,
                ForwardWithoutToken, ForwardCompletes, ReturnError, Return
        <3>2. QED
            BY <2>1, <3>1
    <2>6. QED
        BY <2>2, <2>3, <2>4, <2>5
<1>4. CASE Tick \/ UNCHANGED vars
    BY <1>t, <1>4
    DEF Tick, vars, requestVars, endpointVars, historyVars, NeedsExchange, Unreceived
<1>5. QED
    BY <1>1, <1>2, <1>3, <1>4, GentleSteps

LEMMA SharedInit ==
    ASSUME Init
    PROVE  SharedInv
<1>0. TypeInv
    BY InitType DEF Init, TypeInv, HoldsPointer
<1>1. RefreshInv
    BY <1>0 DEF Init, RefreshInv, MutexInv, SpanInv, CurrentInv, InRefresh, Critical
<1>2. OwnInv
    BY ConstantsAssumption DEF Init, OwnInv, InRefresh, Critical
<1>3. \A a \in Account :
        /\ a \notin SessionAccount => core[a].sk = FALSE
        /\ a \in SessionAccount => core[a].at = 0 /\ core[a].rt = 0
        /\ core[a].at <= issued[a]
        /\ a \notin SessionAccount => issued[a] >= 1
        /\ core[a].rt # 0 => core[a].rt \in live[a]
    <2> SUFFICES ASSUME NEW a \in Account
                 PROVE  /\ a \notin SessionAccount => core[a].sk = FALSE
                        /\ a \in SessionAccount => core[a].at = 0 /\ core[a].rt = 0
                        /\ core[a].at <= issued[a]
                        /\ a \notin SessionAccount => issued[a] >= 1
                        /\ core[a].rt # 0 => core[a].rt \in live[a]
        OBVIOUS
    <2>1. /\ core[a] \in StoredCredentials(a)
          /\ live[a] = IF core[a].rt = 0 THEN {} ELSE {core[a].rt}
          /\ issued[a] = IF a \in SessionAccount THEN 0 ELSE 1
        BY DEF Init
    <2>2. CASE a \in SessionAccount
        BY <2>1, <2>2 DEF StoredCredentials
    <2>3. CASE a \notin SessionAccount
        BY <2>1, <2>3 DEF StoredCredentials
    <2>4. QED
        BY <2>2, <2>3
<1>4. TokenInv
    BY <1>3 DEF Init, TokenInv, NoReply, Failure, NoCredentials
<1>5. ClockInv
    BY DEF Init, ClockInv, NoReply, Failure
<1>6. FlightInv
    BY DEF Init, FlightInv, FlightOK, NoReply, Failure, Replied, InRefresh, Critical
<1>7. NewestInv
    <2> SUFFICES ASSUME NEW a \in Account PROVE AccountInv(a)
        BY DEF NewestInv
    <2>1. Untouched(a)
        BY <1>3 DEF Init, Untouched, Runs
    <2>2. QED
        BY <2>1 DEF Init, AccountInv
<1>8. NoSpuriousDenial
    BY DEF Init, NoSpuriousDenial, NoReply, Failure
<1>9. QED
    BY <1>1, <1>2, <1>4, <1>5, <1>6, <1>7, <1>8 DEF SharedInv

LEMMA SharedStep ==
    ASSUME RoomForAll, Gentle, SharedInv, [Next]_vars
    PROVE  SharedInv'
<1>1. TypeInv'
    BY StepType DEF SharedInv, RefreshInv
<1>2. RefreshInv'
    BY <1>1, MutexStep, SpanStep, CurrentStep DEF SharedInv, RefreshInv
<1>3. OwnInv' /\ TokenInv' /\ ClockInv'
    BY OwnStep, TokenStep, ClockStep DEF SharedInv, RefreshInv
<1>4. QED
    BY <1>1, <1>2, <1>3, FlightStep, NewestStep, SpuriousStep DEF SharedInv

\* Sharing an account between goroutines never kills it: where nothing but the
\* replies of the token endpoint gets lost, a refresh is denied only if neither
\* the process nor Core has received the newest tokens, for every number of
\* accounts and requests, and however these interleave.
THEOREM SharingIsHarmless ==
    ASSUME RoomForAll, Gentle
    PROVE  Spec => []NoSpuriousDenial
<1>1. Init => SharedInv
    BY SharedInit
<1>2. SharedInv /\ [Next]_vars => SharedInv'
    BY SharedStep
<1>3. SharedInv => NoSpuriousDenial
    BY DEF SharedInv
<1>4. QED
    BY <1>1, <1>2, <1>3, PTL DEF Spec

\* A waiter takes over the complete remembered credentials, as doRefresh's
\* comment demands: where nothing but a reply gets lost, every call to the
\* token endpoint is made with the refresh token of the newest grant received.
THEOREM CallsWithNewest ==
    ASSUME RoomForAll, Gentle
    PROVE  Spec => CallCarriesNewestToken
<1>1. Init => SharedInv
    BY SharedInit
<1>2. SharedInv /\ [Next]_vars => SharedInv'
    BY SharedStep
<1>3. ASSUME SharedInv, [Next]_vars, NEW q \in Request, pc[q] = "lock", pc'[q] = "calling"
      PROVE  states[st[q]].rt \in {0, creds[q].rt}
    <2> DEFINE a == acct[q]
    <2>1. /\ a \in Account /\ AccountInv(a) /\ Runs(q, a) /\ RefreshInv
          /\ st[q] = locks[a] /\ locks[a] \in StateId /\ locks[a] # NoState
        BY <1>3, ConstantsAssumption
        DEF SharedInv, RefreshInv, NewestInv, TypeInv, TypeOK, HoldsPointer, CurrentInv, Runs,
            InRefresh
    <2>2. Locks(q) /\ ~Fresh(st[q])
        BY <1>3, CallStarts DEF SharedInv, RefreshInv, StartCall
    <2>3. CASE lastGrant[a].at = 0
        BY <2>1, <2>3 DEF AccountInv, Untouched
    <2>4. CASE lastGrant[a].at # 0
        <3>1. PICK s \in Nat, k \in Nat : Newest(a, s, k)
            BY <2>1, <2>4 DEF AccountInv
        <3>2. Over(s)
            BY <2>1, <2>2, <2>4, <3>1, CallIsOver
        <3>3. HoldsGrant(creds[q], a, k)
            BY <2>1, <3>1, <3>2, OverIsNewest
        <3>4. QED
            BY <2>1, <3>1, <3>3 DEF Newest, MemoryOK, HoldsGrant
    <2>5. QED
        BY <2>3, <2>4
<1>4. SharedInv /\ [Next]_vars =>
        [\A r \in Request :
           pc[r] = "lock" /\ pc'[r] = "calling" /\ ~NeedsExchange(r) =>
             states[st[r]].rt \in {0, creds[r].rt}]_vars
    BY <1>3
<1>5. QED
    BY <1>1, <1>2, <1>4, PTL DEF Spec, CallCarriesNewestToken
=============================================================================
