------------------------- MODULE ForwardCallsProofs -------------------------
(***************************************************************************)
(* Theorems about ForwardCalls: what happens to a request over all its      *)
(* attempts, and to an account over all requests, for any accounts,         *)
(* credentials, clients and bounds.                                         *)
(***************************************************************************)
EXTENDS ForwardCalls, SequenceTheorems, TLAPS

USE CallsAssumption

-----------------------------------------------------------------------------
(* Types.                                                                   *)

TypesOK ==
    /\ call \in [Requests -> Call]
    /\ enabled \subseteq Accounts /\ banned \subseteq Accounts /\ forfeited \subseteq Accounts
    /\ stored \in [Accounts -> Nat] /\ newest \in [Accounts -> Nat] /\ expired \in [Accounts -> Nat]
    /\ condemned \in [Accounts -> {"nothing", "messages", "count_tokens"}]
    /\ \A a \in Accounts : expired[a] <= newest[a]

SidecarOK ==
    /\ registry \in Seq([acct : Accounts, tok : Nat]) /\ Len(registry) <= RegistryCap
    /\ jobs \in Seq(Accounts) /\ Len(jobs) <= QueueCap

Kinds == {"success", "client_error", "aborted", "dead", "transient", "rate_limited"}

Final == {"success", "client_error", "aborted"}

\* A type the upstream is asked for, with credentials of its own.
Known(a) == Type[a] \in OAuthTypes \union {"apikey"}

\* A request on its way: its account, what its client got, what it cost.
Underway(c) ==
    /\ c.verdict \in {"none"} /\ c.billed = {}
    /\ c.pc \in {"dispatched", "ensuring", "ready", "streaming"} => c.on \in Accounts
    /\ c.pc # "streaming" => c.got = "nothing"
    /\ c.stream => c.path = "messages"
    /\ c.pc = "ensuring" => c.path = "messages" /\ IsOAuth(c.on)
    /\ c.pc = "ready" => c.path # "models"
    /\ c.pc = "streaming" => c.path = "messages"

\* A messages request that is about to be sent carries a token that is good, as
\* far as the plugin can renew tokens.
Fresh(c) ==
    c.pc = "ready" /\ c.path = "messages" =>
        Known(c.on) /\ (IsOAuth(c.on) /\ c.on \notin Bare => c.tok > expired[c.on])

\* A request that is over.
Over(c) ==
    /\ c.verdict \in {"success", "client_error", "aborted", "failed"}
    /\ IF c.verdict = "success" /\ c.path = "messages"
       THEN c.billed = {c.on} /\ c.got \in Written
       ELSE c.billed = {}
    /\ c.verdict = "failed" => enabled \subseteq c.tried

CallOK(c) == IF c.pc = "done" THEN Over(c) ELSE Underway(c) /\ Fresh(c)

CallsOK == \A r \in Requests : CallOK(call[r])

-----------------------------------------------------------------------------
(* What Core makes of an outcome.                                           *)

SameCall(c, d) ==
    /\ d.path = c.path /\ d.on = c.on /\ d.tried = c.tried /\ d.got = c.got
    /\ d.billed = c.billed

LEMMA EndedCall ==
    ASSUME NEW c \in Call, NEW verdict \in {"success", "client_error", "aborted", "failed"}
    PROVE  LET d == Ended(c, verdict) IN
           d \in Call /\ SameCall(c, d) /\ d.pc = "done" /\ d.verdict = verdict
BY ZenonT(60) DEF Ended, Call, SameCall

LEMMA JudgedCall ==
    ASSUME NEW c \in Call, NEW kind \in Kinds
    PROVE  LET d == Judged(c, kind) IN
           /\ d \in Call /\ SameCall(c, d)
           /\ kind \in Final => d.pc = "done" /\ d.verdict = kind
           /\ kind \notin Final /\ c.got = "nothing" =>
                d.pc = "pending" /\ d.verdict = c.verdict /\ d.stream = c.stream
           /\ kind \notin Final /\ c.got # "nothing" => d.pc = "done" /\ d.verdict = "failed"
<1>1. CASE kind \in Final
  <2>1. Judged(c, kind) = Ended(c, kind)
    BY <1>1 DEF Judged, Final
  <2> QED BY <1>1, <2>1, EndedCall DEF Final
<1>2. CASE kind \notin Final /\ c.got = "nothing"
  <2>1. Judged(c, kind) = [c EXCEPT !.pc = "pending"]
    BY <1>2 DEF Judged, Final
  <2> QED BY <1>2, <2>1 DEF Call, SameCall
<1>3. CASE kind \notin Final /\ c.got # "nothing"
  <2>1. Judged(c, kind) = Ended(c, "failed")
    BY <1>3 DEF Judged, Final
  <2> QED BY <1>3, <2>1, EndedCall
<1> QED BY <1>1, <1>2, <1>3

LEMMA ForgottenCall ==
    ASSUME NEW c \in Call
    PROVE  LET d == [c EXCEPT !.tok = 0, !.renewed = FALSE] IN
           /\ d \in Call /\ SameCall(c, d)
           /\ d.pc = c.pc /\ d.verdict = c.verdict /\ d.stream = c.stream
BY DEF Call, SameCall

\* A step of request r leaves the others as they are.
LEMMA OthersOK ==
    ASSUME TypesOK, CallsOK, NEW r \in Requests, NEW d \in Call,
           call' = [call EXCEPT ![r] = d],
           enabled' \subseteq enabled, UNCHANGED expired,
           CallOK(d)'
    PROVE  CallsOK' /\ call' \in [Requests -> Call]
<1>1. call' \in [Requests -> Call] /\ call'[r] = d
  BY DEF TypesOK
<1>2. ASSUME NEW p \in Requests, p # r PROVE CallOK(call[p])'
  <2>1. call'[p] = call[p] /\ CallOK(call[p])
    BY <1>2 DEF TypesOK, CallsOK
  <2> QED BY <2>1 DEF CallOK, Underway, Fresh, Over
<1>3. CallOK(call[r])'
  BY <1>1 DEF CallOK, Underway, Fresh, Over
<1> QED BY <1>1, <1>2, <1>3 DEF CallsOK

\* A request that has got nothing goes on with another account or is over.
LEMMA ReturnsOK ==
    ASSUME TypesOK, CallsOK, NEW r \in Requests, NEW c \in Call, NEW kind \in Kinds,
           Returns(r, c, kind), UNCHANGED expired,
           c.on \in Accounts, c.verdict = "none",
           c.stream => c.path = "messages",
           kind \in Final \/ c.got = "nothing",
           IF kind = "success" /\ c.path = "messages"
           THEN c.billed = {c.on} /\ c.got \in Written ELSE c.billed = {}
    PROVE  /\ CallsOK'
           /\ call' \in [Requests -> Call] /\ enabled' \subseteq enabled
           /\ condemned' \in [Accounts -> {"nothing", "messages", "count_tokens"}]
                \/ (c.path = "models" /\ kind = "dead")
           /\ \A a \in Accounts : condemned'[a] = "messages" =>
                condemned[a] = "messages" \/ (kind = "dead" /\ a = c.on /\ c.path = "messages")
<1> DEFINE e == Judged(c, kind)
           d == [e EXCEPT !.tok = 0, !.renewed = FALSE]
<1>1. /\ d \in Call
      /\ d.path = c.path /\ d.on = c.on /\ d.tried = c.tried /\ d.got = c.got /\ d.billed = c.billed
      /\ kind \in Final => d.pc = "done" /\ d.verdict = kind
      /\ kind \notin Final => d.pc = "pending" /\ d.verdict = "none" /\ d.stream = c.stream
  <2>1. /\ e \in Call /\ SameCall(c, e)
        /\ kind \in Final => e.pc = "done" /\ e.verdict = kind
        /\ kind \notin Final => e.pc = "pending" /\ e.verdict = "none" /\ e.stream = c.stream
    BY JudgedCall
  <2> HIDE DEF e
  <2>2. /\ d \in Call /\ SameCall(e, d)
        /\ d.pc = e.pc /\ d.verdict = e.verdict /\ d.stream = e.stream
    BY <2>1, ForgottenCall
  <2> HIDE DEF d
  <2> QED BY <2>1, <2>2 DEF SameCall
<1>2. call' = [call EXCEPT ![r] = d]
  BY DEF Returns
<1>3. enabled' \subseteq enabled
  BY DEF Returns
<1> HIDE DEF d
<1>4. CallOK(d)'
  <2>1. CASE kind \in Final
    BY <1>1, <2>1 DEF CallOK, Over, Final
  <2>2. CASE kind \notin Final
    <3>1. d.pc = "pending" /\ d.verdict = "none" /\ d.billed = {} /\ d.got = "nothing"
      BY <1>1, <2>2 DEF Final
    <3> QED BY <1>1, <2>2, <3>1 DEF CallOK, Underway, Fresh
  <2> QED BY <2>1, <2>2
<1>5. CallsOK' /\ call' \in [Requests -> Call]
  BY <1>1, <1>2, <1>3, <1>4, OthersOK
<1>6. /\ condemned' \in [Accounts -> {"nothing", "messages", "count_tokens"}]
           \/ (c.path = "models" /\ kind = "dead")
      /\ \A a \in Accounts : condemned'[a] = "messages" =>
           condemned[a] = "messages" \/ (kind = "dead" /\ a = c.on /\ c.path = "messages")
  <2>1. CASE kind = "dead"
    <3>1. condemned' = [condemned EXCEPT ![c.on] = c.path]
      BY <2>1 DEF Returns
    <3>2. c.path \in {"messages", "count_tokens", "models"}
      BY DEF Call
    <3> QED BY <2>1, <3>1, <3>2 DEF TypesOK
  <2>2. CASE kind # "dead"
    BY <2>2 DEF Returns, TypesOK
  <2> QED BY <2>1, <2>2
<1> QED BY <1>3, <1>5, <1>6

-----------------------------------------------------------------------------
(* The registry and the queue.                                              *)

Entry == [acct : Accounts, tok : Nat]

\* A part of a sequence of entries.
LEMMA PartOK ==
    ASSUME NEW S, NEW live \in Seq(S), NEW m \in 1..(Len(live) + 1), NEW n \in 0..Len(live)
    PROVE  /\ SubSeq(live, m, n) \in Seq(S)
           /\ Len(SubSeq(live, m, n)) = IF m <= n THEN n - m + 1 ELSE 0
<1>1. Len(live) \in Nat
  BY LenProperties
<1>2. \A i \in m..n : live[i] \in S
  BY <1>1, ElementOfSeq
<1> QED BY <1>1, <1>2, SubSeqProperties

LEMMA WithoutOK ==
    ASSUME NEW live \in Seq(Entry), NEW a, KnownIn(live, a)
    PROVE  Without(live, a) \in Seq(Entry) /\ Len(Without(live, a)) = Len(live) - 1
<1> DEFINE i == CHOOSE j \in DOMAIN live : live[j].acct = a
           n == Len(live)
<1>1. n \in Nat /\ DOMAIN live = 1..n
  BY LenProperties
<1>2. i \in 1..n
  BY <1>1 DEF KnownIn
<1>3. Without(live, a) = SubSeq(live, 1, i - 1) \o SubSeq(live, i + 1, n)
  BY DEF Without
<1> HIDE DEF i, n
<1>4. /\ SubSeq(live, 1, i - 1) \in Seq(Entry) /\ Len(SubSeq(live, 1, i - 1)) = i - 1
  <2>1. 1 \in 1..(n + 1) /\ i - 1 \in 0..n /\ (IF 1 <= i - 1 THEN i - 1 - 1 + 1 ELSE 0) = i - 1
    BY <1>1, <1>2
  <2> QED BY <2>1, PartOK DEF n
<1>5. /\ SubSeq(live, i + 1, n) \in Seq(Entry) /\ Len(SubSeq(live, i + 1, n)) = n - i
  <2>1. i + 1 \in 1..(n + 1) /\ n \in 0..n
        /\ (IF i + 1 <= n THEN n - (i + 1) + 1 ELSE 0) = n - i
    BY <1>1, <1>2
  <2> QED BY <2>1, PartOK DEF n
<1>6. /\ Without(live, a) \in Seq(Entry)
      /\ Len(Without(live, a)) = (i - 1) + (n - i)
  BY <1>3, <1>4, <1>5, ConcatProperties
<1> QED BY <1>1, <1>2, <1>6 DEF n

LEMMA OthersFit ==
    ASSUME SidecarOK, NEW a, NEW k \in 0..Len(registry)
    PROVE  Others(a, k) \in Seq(Entry) /\ Len(Others(a, k)) < RegistryCap
<1> DEFINE live == SubSeq(registry, k + 1, Len(registry))
<1>1. registry \in Seq(Entry) /\ Len(registry) \in Nat /\ Len(registry) <= RegistryCap
  BY LenProperties DEF SidecarOK, Entry
<1>2. live \in Seq(Entry) /\ Len(live) \in Nat /\ Len(live) <= RegistryCap
  <2>1. k + 1 \in 1..(Len(registry) + 1) /\ Len(registry) \in 0..Len(registry)
    BY <1>1
  <2>2. live \in Seq(Entry)
        /\ Len(live) = IF k + 1 <= Len(registry) THEN Len(registry) - (k + 1) + 1 ELSE 0
    BY <1>1, <2>1, PartOK
  <2> QED BY <1>1, <2>2
<1>3. Others(a, k) = IF KnownIn(live, a) THEN Without(live, a) ELSE WithRoom(live)
  BY DEF Others
<1> HIDE DEF live
<1>4. CASE KnownIn(live, a)
  BY <1>2, <1>3, <1>4, WithoutOK
<1>5. CASE ~KnownIn(live, a) /\ Len(live) >= RegistryCap
  <2>1. Others(a, k) = Tail(live)
    BY <1>3, <1>5 DEF WithRoom
  <2>2. live # <<>>
    BY <1>5, EmptySeq
  <2> QED BY <1>2, <2>1, <2>2, HeadTailProperties
<1>6. CASE ~KnownIn(live, a) /\ ~(Len(live) >= RegistryCap)
  BY <1>2, <1>3, <1>6 DEF WithRoom
<1> QED BY <1>4, <1>5, <1>6

LEMMA RegisterOK ==
    ASSUME SidecarOK, NEW a \in Accounts, NEW token \in Nat, Register(a, token)
    PROVE  registry' \in Seq(Entry) /\ Len(registry') <= RegistryCap
<1>1. PICK k \in 0..Len(registry) : registry' = Append(Others(a, k), [acct |-> a, tok |-> token])
  BY DEF Register
<1>2. [acct |-> a, tok |-> token] \in Entry
  BY DEF Entry
<1>3. Others(a, k) \in Seq(Entry) /\ Len(Others(a, k)) < RegistryCap
  BY OthersFit
<1>4. registry' \in Seq(Entry) /\ Len(registry') = Len(Others(a, k)) + 1
  BY <1>1, <1>2, <1>3, AppendProperties
<1> QED BY <1>3, <1>4, LenProperties

LEMMA ScheduleOK ==
    ASSUME SidecarOK, NEW a \in Accounts, Schedule(a)
    PROVE  jobs' \in Seq(Accounts) /\ Len(jobs') <= QueueCap
<1>1. jobs \in Seq(Accounts) /\ Len(jobs) \in Nat /\ Len(jobs) <= QueueCap
  BY LenProperties DEF SidecarOK
<1>2. CASE Len(jobs) < QueueCap
  <2>1. jobs' = Append(jobs, a)
    BY <1>2 DEF Schedule
  <2> QED BY <1>1, <1>2, <2>1, AppendProperties
<1>3. CASE ~(Len(jobs) < QueueCap)
  BY <1>1, <1>3 DEF Schedule
<1> QED BY <1>2, <1>3


-----------------------------------------------------------------------------
(* The steps.                                                               *)

Inv == TypesOK /\ SidecarOK /\ CallsOK /\ CondemnedForCause

\* Request r goes on.
LEMMA Moves ==
    ASSUME TypesOK, CallsOK, NEW r \in Requests, NEW d \in Call,
           call' = [call EXCEPT ![r] = d],
           UNCHANGED <<enabled, expired>>,
           d.pc # "done", Underway(d), Fresh(d)
    PROVE  CallsOK' /\ call' \in [Requests -> Call]
<1>1. CallOK(d)'
  BY DEF CallOK, Underway, Fresh
<1> QED BY <1>1, OthersOK

LEMMA CoreStep ==
    ASSUME Inv, NEW r \in Requests, Submit(r) \/ Core(r)
    PROVE  Inv'
<1>1. PICK c \in Call : c = call[r]
  BY DEF Inv, TypesOK
<1>2. CallOK(c)
  BY <1>1 DEF Inv, CallsOK
<1>3. CASE Submit(r)
  <2>1. PICK path \in {"messages", "count_tokens", "models"}, stream \in BOOLEAN,
             client \in Clients \union {{}} :
             /\ IF path = "messages" THEN client \in Clients ELSE ~stream /\ client = {}
             /\ call' = [call EXCEPT ![r].pc = "pending", ![r].path = path,
                                     ![r].stream = stream, ![r].client = client]
    BY <1>3 DEF Submit
  <2> DEFINE d == [c EXCEPT !.pc = "pending", !.path = path, !.stream = stream, !.client = client]
  <2>2. call' = [call EXCEPT ![r] = d]
    BY <1>1, <2>1 DEF Inv, TypesOK
  <2>3. d \in Call
    <3>1. client \in SUBSET Traits
      BY DEF CallsAssumption
    <3> QED BY <3>1 DEF Call
  <2>4. c.pc = "new"
    BY <1>1, <1>3 DEF Submit
  <2>5. d.pc # "done" /\ Underway(d) /\ Fresh(d)
    BY <1>1, <1>2, <2>1, <2>4 DEF Call, CallOK, Underway, Fresh
  <2>6. UNCHANGED <<coreVars, upstreamVars, sidecarVars>>
    BY <1>3 DEF Submit
  <2> HIDE DEF d
  <2>7. CallsOK' /\ call' \in [Requests -> Call]
    BY <2>2, <2>3, <2>5, <2>6, Moves DEF Inv, coreVars, upstreamVars
  <2> QED
    BY <2>6, <2>7 DEF Inv, TypesOK, SidecarOK, CondemnedForCause, Fit, coreVars, upstreamVars,
                      sidecarVars
<1>4. CASE Pick(r)
  <2>1. PICK a \in enabled \ call[r].tried :
             call' = [call EXCEPT ![r].pc = "dispatched", ![r].on = a, ![r].tok = stored[a],
                                  ![r].renewed = FALSE, ![r].tried = @ \union {a}]
    BY <1>4 DEF Pick
  <2>2. PICK token \in Nat : token = stored[a]
    BY <2>1 DEF Inv, TypesOK
  <2> DEFINE d == [c EXCEPT !.pc = "dispatched", !.on = a, !.tok = token, !.renewed = FALSE,
                            !.tried = @ \union {a}]
  <2>3. call' = [call EXCEPT ![r] = d]
    BY <1>1, <2>1, <2>2 DEF Inv, TypesOK
  <2>4. a \in Accounts
    BY <2>1 DEF Inv, TypesOK
  <2>5. d \in Call
    BY <1>1, <2>2, <2>4, ZenonT(60) DEF Call
  <2>6. c.pc = "pending"
    BY <1>1, <1>4 DEF Pick
  <2>7. d.pc # "done" /\ Underway(d) /\ Fresh(d)
    BY <1>1, <1>2, <2>4, <2>6 DEF Call, CallOK, Underway, Fresh
  <2>8. UNCHANGED <<coreVars, upstreamVars, sidecarVars>>
    BY <1>4 DEF Pick
  <2> HIDE DEF d
  <2>9. CallsOK' /\ call' \in [Requests -> Call]
    BY <2>3, <2>5, <2>7, <2>8, Moves DEF Inv, coreVars, upstreamVars
  <2> QED
    BY <2>8, <2>9 DEF Inv, TypesOK, SidecarOK, CondemnedForCause, Fit, coreVars, upstreamVars,
                      sidecarVars
<1>5. CASE NoneLeft(r)
  <2> DEFINE d == Ended(c, "failed")
  <2>1. /\ call' = [call EXCEPT ![r] = d]
        /\ UNCHANGED <<coreVars, upstreamVars, sidecarVars>>
        /\ c.pc = "pending" /\ enabled \subseteq c.tried
    BY <1>1, <1>5 DEF NoneLeft, Inv, TypesOK
  <2>2. d \in Call /\ SameCall(c, d) /\ d.pc = "done" /\ d.verdict = "failed"
    BY EndedCall
  <2> HIDE DEF d
  <2>3. CallOK(d)'
    BY <1>2, <2>1, <2>2 DEF CallOK, Underway, Over, SameCall, coreVars
  <2>4. CallsOK' /\ call' \in [Requests -> Call]
    BY <2>1, <2>2, <2>3, OthersOK DEF Inv, coreVars, upstreamVars
  <2> QED
    BY <2>1, <2>4 DEF Inv, TypesOK, SidecarOK, CondemnedForCause, Fit, coreVars, upstreamVars,
                      sidecarVars
<1> QED BY <1>3, <1>4, <1>5 DEF Core


\* Forward returns: it takes an account out of service only for a cause.
LEMMA ReturnStep ==
    ASSUME Inv, NEW r \in Requests, NEW c \in Call, NEW kind \in Kinds,
           Returns(r, c, kind), UNCHANGED upstreamVars,
           c.on \in Accounts, c.verdict = "none",
           c.stream => c.path = "messages",
           kind \in Final \/ c.got = "nothing",
           IF kind = "success" /\ c.path = "messages"
           THEN c.billed = {c.on} /\ c.got \in Written ELSE c.billed = {},
           kind = "dead" => c.path # "models" /\ (c.path = "messages" => ~Fit(c.on)),
           stored' \in [Accounts -> Nat], SidecarOK'
    PROVE  Inv'
<1>1. UNCHANGED <<newest, expired, banned, forfeited>>
  BY DEF upstreamVars
<1>2. /\ CallsOK'
      /\ call' \in [Requests -> Call] /\ enabled' \subseteq enabled
      /\ condemned' \in [Accounts -> {"nothing", "messages", "count_tokens"}]
      /\ \A a \in Accounts : condemned'[a] = "messages" =>
           condemned[a] = "messages" \/ (kind = "dead" /\ a = c.on /\ c.path = "messages")
  BY <1>1, ReturnsOK DEF Inv
<1>3. CondemnedForCause'
  BY <1>1, <1>2 DEF Inv, CondemnedForCause, Fit
<1>4. TypesOK'
  BY <1>1, <1>2 DEF Inv, TypesOK
<1> QED BY <1>2, <1>3, <1>4 DEF Inv

\* The request goes on, and tells Core nothing.
LEMMA GoOnStep ==
    ASSUME Inv, NEW r \in Requests, NEW d \in Call,
           call' = [call EXCEPT ![r] = d],
           UNCHANGED <<coreVars, expired, banned, forfeited>>,
           d.pc # "done", Underway(d), Fresh(d),
           newest' \in [Accounts -> Nat], \A a \in Accounts : newest[a] <= newest'[a],
           SidecarOK'
    PROVE  Inv'
<1>1. CallsOK' /\ call' \in [Requests -> Call]
  BY Moves DEF Inv, coreVars
<1>2. CondemnedForCause'
  BY DEF Inv, CondemnedForCause, Fit, coreVars
<1>3. TypesOK'
  <2>1. \A a \in Accounts : expired'[a] <= newest'[a]
    BY DEF Inv, TypesOK
  <2> QED BY <1>1, <2>1 DEF Inv, TypesOK, coreVars
<1> QED BY <1>1, <1>2, <1>3 DEF Inv

\* Nothing happens to the registry and the queue.
LEMMA SidecarKept ==
    ASSUME SidecarOK, UNCHANGED sidecarVars
    PROVE  SidecarOK'
BY DEF SidecarOK, sidecarVars

LEMMA RouteStep ==
    ASSUME Inv, NEW r \in Requests, Route(r)
    PROVE  Inv'
<1>1. PICK c \in Call : c = call[r]
  BY DEF Inv, TypesOK
<1>2. CallOK(c) /\ c.pc = "dispatched"
  BY <1>1 DEF Inv, CallsOK, Route, Models, UnknownType, Direct, Reject, Enter, Dispatched
<1>3. /\ c.on \in Accounts /\ c.verdict = "none" /\ c.got = "nothing" /\ c.billed = {}
      /\ c.stream => c.path = "messages"
  BY <1>2 DEF CallOK, Underway
<1>4. stored \in [Accounts -> Nat] /\ newest \in [Accounts -> Nat] /\ SidecarOK
  BY DEF Inv, TypesOK
<1>5. \A a \in Accounts : newest[a] <= newest[a]
  BY <1>4
<1>6. CASE Models(r)
  <2> DEFINE d == [c EXCEPT !.got = "whole"]
  <2>1. /\ Returns(r, d, "success") /\ UNCHANGED <<stored, upstreamVars, sidecarVars>>
        /\ c.path = "models"
    BY <1>1, <1>6 DEF Models, Dispatched
  <2>2. /\ d \in Call /\ d.on = c.on /\ d.verdict = c.verdict /\ d.path = c.path
        /\ d.stream = c.stream /\ d.billed = c.billed
    BY DEF Call
  <2> HIDE DEF d
  <2>3. stored' \in [Accounts -> Nat] /\ SidecarOK'
    BY <1>4, <2>1, SidecarKept
  <2> QED BY <1>3, <2>1, <2>2, <2>3, ReturnStep DEF Kinds, Final
<1>7. CASE UnknownType(r)
  <2>1. /\ Returns(r, c, "dead") /\ UNCHANGED <<stored, upstreamVars, sidecarVars>>
        /\ c.path = "messages" /\ ~Fit(c.on)
    BY <1>1, <1>7 DEF UnknownType, Dispatched, Fit
  <2>2. stored' \in [Accounts -> Nat] /\ SidecarOK'
    BY <1>4, <2>1, SidecarKept
  <2> QED BY <1>3, <2>1, <2>2, ReturnStep DEF Kinds, Final
<1>8. CASE Direct(r)
  <2> DEFINE d == [c EXCEPT !.pc = "ready"]
  <2>1. call' = [call EXCEPT ![r] = d] /\ UNCHANGED <<coreVars, upstreamVars, sidecarVars>>
    BY <1>1, <1>8 DEF Direct
  <2>2. /\ c.path = "count_tokens" \/ (c.path = "messages" /\ Type[c.on] = "apikey")
    BY <1>1, <1>8 DEF Direct, Dispatched
  <2>3. /\ d \in Call /\ d.pc = "ready" /\ d.on = c.on /\ d.verdict = c.verdict
        /\ d.path = c.path /\ d.stream = c.stream /\ d.billed = c.billed /\ d.got = c.got
    BY DEF Call
  <2> HIDE DEF d
  <2>4. Underway(d) /\ Fresh(d)
    <3>1. "apikey" \notin OAuthTypes
      BY DEF OAuthTypes
    <3> QED BY <1>3, <2>2, <2>3, <3>1 DEF Underway, Fresh, Known, IsOAuth
  <2>5. SidecarOK'
    BY <1>4, <2>1, SidecarKept
  <2> QED BY <1>4, <1>5, <2>1, <2>3, <2>4, <2>5, GoOnStep DEF upstreamVars
<1>9. CASE Reject(r)
  <2>1. /\ Returns(r, c, "client_error") /\ UNCHANGED <<stored, upstreamVars, sidecarVars>>
    BY <1>1, <1>9 DEF Reject
  <2>2. stored' \in [Accounts -> Nat] /\ SidecarOK'
    BY <1>4, <2>1, SidecarKept
  <2> QED BY <1>3, <2>1, <2>2, ReturnStep DEF Kinds, Final
<1>10. CASE Enter(r)
  <2> DEFINE d == [c EXCEPT !.pc = "ensuring"]
  <2>1. /\ call' = [call EXCEPT ![r] = d] /\ UNCHANGED <<coreVars, upstreamVars, jobs>>
        /\ Register(c.on, c.tok)
        /\ c.path = "messages" /\ IsOAuth(c.on)
    BY <1>1, <1>10 DEF Enter, Dispatched
  <2>2. /\ d \in Call /\ d.pc = "ensuring" /\ d.on = c.on /\ d.verdict = c.verdict
        /\ d.path = c.path /\ d.stream = c.stream /\ d.billed = c.billed /\ d.got = c.got
    BY DEF Call
  <2> HIDE DEF d
  <2>3. Underway(d) /\ Fresh(d)
    BY <1>3, <2>1, <2>2 DEF Underway, Fresh
  <2>4. SidecarOK'
    <3>1. c.tok \in Nat
      BY DEF Call
    <3>2. registry' \in Seq(Entry) /\ Len(registry') <= RegistryCap
      BY <1>3, <1>4, <2>1, <3>1, RegisterOK
    <3> QED BY <1>4, <2>1, <3>2 DEF SidecarOK, Entry
  <2> QED BY <1>4, <1>5, <2>1, <2>2, <2>3, <2>4, GoOnStep DEF upstreamVars
<1> QED BY <1>6, <1>7, <1>8, <1>9, <1>10 DEF Route


\* A request leaves ensureValidToken with a token that is good.
LEMMA TakeStep ==
    ASSUME Inv, NEW r \in Requests, NEW c \in Call, c = call[r], Ensuring(r),
           NEW token \in Nat, token > expired[c.on], TakeToken(r, token),
           UNCHANGED <<coreVars, expired, banned, forfeited, sidecarVars>>,
           newest' \in [Accounts -> Nat], \A a \in Accounts : newest[a] <= newest'[a]
    PROVE  Inv'
<1> DEFINE d == [c EXCEPT !.pc = "ready", !.tok = token, !.renewed = TRUE]
<1>1. call' = [call EXCEPT ![r] = d]
  BY DEF TakeToken, Inv, TypesOK
<1>2. /\ d \in Call /\ d.pc = "ready" /\ d.on = c.on /\ d.verdict = c.verdict /\ d.tok = token
      /\ d.path = c.path /\ d.stream = c.stream /\ d.billed = c.billed /\ d.got = c.got
  <2>1. d \in Call
    BY ZenonT(60) DEF Call
  <2>2. /\ d.pc = "ready" /\ d.on = c.on /\ d.verdict = c.verdict /\ d.tok = token
        /\ d.path = c.path /\ d.stream = c.stream /\ d.billed = c.billed /\ d.got = c.got
    BY ZenonT(60) DEF Call
  <2> QED BY <2>1, <2>2
<1>3. Underway(c) /\ c.pc = "ensuring"
  BY DEF Inv, CallsOK, CallOK, Ensuring
<1> HIDE DEF d
<1>4. Underway(d) /\ Fresh(d)
  BY <1>2, <1>3 DEF Underway, Fresh, Known, IsOAuth
<1>5. SidecarOK'
  BY SidecarKept DEF Inv
<1> QED BY <1>1, <1>2, <1>4, <1>5, GoOnStep

LEMMA EnsureStep ==
    ASSUME Inv, NEW r \in Requests, Ensure(r)
    PROVE  Inv'
<1>1. PICK c \in Call : c = call[r]
  BY DEF Inv, TypesOK
<1>2. CallOK(c) /\ c.pc = "ensuring" /\ Ensuring(r)
  BY <1>1 DEF Inv, CallsOK, Ensure, KeepToken, ReuseToken, RenewToken, EnsureFails, Ensuring
<1>3. /\ c.on \in Accounts /\ c.verdict = "none" /\ c.got = "nothing" /\ c.billed = {}
      /\ c.stream => c.path = "messages"
      /\ c.path = "messages" /\ IsOAuth(c.on)
  BY <1>2 DEF CallOK, Underway
<1>4. /\ stored \in [Accounts -> Nat] /\ newest \in [Accounts -> Nat] /\ SidecarOK
      /\ expired \in [Accounts -> Nat] /\ expired[c.on] <= newest[c.on]
  BY <1>3 DEF Inv, TypesOK
<1>5. \A a \in Accounts : newest[a] <= newest[a]
  BY <1>4
<1>6. CASE KeepToken(r)
  <2> DEFINE d == [c EXCEPT !.pc = "ready"]
  <2>1. /\ call' = [call EXCEPT ![r] = d] /\ UNCHANGED <<coreVars, upstreamVars, sidecarVars>>
        /\ c.tok > expired[c.on] \/ c.on \in Bare
    BY <1>1, <1>6 DEF KeepToken, CanRenew
  <2>2. /\ d \in Call /\ d.pc = "ready" /\ d.on = c.on /\ d.verdict = c.verdict /\ d.tok = c.tok
        /\ d.path = c.path /\ d.stream = c.stream /\ d.billed = c.billed /\ d.got = c.got
    BY DEF Call
  <2> HIDE DEF d
  <2>3. Underway(d) /\ Fresh(d)
    BY <1>3, <2>1, <2>2 DEF Underway, Fresh, Known, IsOAuth
  <2>4. SidecarOK'
    BY <1>4, <2>1, SidecarKept
  <2> QED BY <1>4, <1>5, <2>1, <2>2, <2>3, <2>4, GoOnStep DEF upstreamVars
<1>7. CASE ReuseToken(r)
  <2>1. /\ TakeToken(r, newest[c.on]) /\ newest[c.on] > expired[c.on]
        /\ UNCHANGED <<coreVars, upstreamVars, sidecarVars>>
    BY <1>1, <1>7 DEF ReuseToken
  <2>2. PICK token \in Nat : token = newest[c.on]
    BY <1>3, <1>4
  <2>3. TakeToken(r, token) /\ token > expired[c.on]
    BY <2>1, <2>2
  <2> QED BY <1>1, <1>2, <1>4, <1>5, <2>1, <2>3, TakeStep DEF upstreamVars
<1>8. CASE RenewToken(r)
  <2>1. /\ newest' = [newest EXCEPT ![c.on] = @ + 1] /\ TakeToken(r, newest'[c.on])
        /\ UNCHANGED <<coreVars, expired, banned, forfeited, sidecarVars>>
    BY <1>1, <1>8 DEF RenewToken
  <2>2. PICK token \in Nat : token = newest[c.on] + 1
    BY <1>3, <1>4
  <2>3. newest' \in [Accounts -> Nat] /\ newest'[c.on] = token
        /\ \A a \in Accounts : newest[a] <= newest'[a]
    BY <1>3, <1>4, <2>1, <2>2
  <2>4. TakeToken(r, token) /\ token > expired[c.on]
    BY <1>3, <1>4, <2>1, <2>2, <2>3
  <2> QED BY <1>1, <1>2, <2>1, <2>3, <2>4, TakeStep
<1>9. CASE EnsureFails(r)
  <2>1. /\ UNCHANGED <<stored, upstreamVars, sidecarVars>>
        /\ Returns(r, c, "transient") \/ (Returns(r, c, "dead") /\ ~Fit(c.on))
    BY <1>1, <1>9 DEF EnsureFails, CanRenew, Fit
  <2>2. stored' \in [Accounts -> Nat] /\ SidecarOK'
    BY <1>4, <2>1, SidecarKept
  <2> QED BY <1>3, <2>1, <2>2, ReturnStep DEF Kinds, Final
<1> QED BY <1>6, <1>7, <1>8, <1>9 DEF Ensure

-----------------------------------------------------------------------------
(* Answers.                                                                 *)

\* An answer that takes an account out of service was a refusal.
LEMMA AnswerKinds ==
    ASSUME NEW a, NEW token, NEW answer \in Answers(a, token), answer.code >= 400
    PROVE  /\ FailureKind(answer) \in {"dead", "rate_limited", "transient", "client_error"}
           /\ FailureKind(answer) = "dead" => Refuses(a, token)
<1> DEFINE Fault  == [code : {429, 500, 529}, account : {FALSE}]
           Denied == [code : {401, 403}, account : {FALSE}]
           Closed == [code : {400}, account : {TRUE}]
           Served == [code : {200, 400, 404}, account : {FALSE}]
<1>1. /\ answer.code \in {200, 400, 401, 403, 404, 429, 500, 529}
      /\ answer.code \in {401, 403} \/ (answer.code = 400 /\ answer.account) => Refuses(a, token)
  <2>1. CASE Refuses(a, token)
    <3>1. answer \in Fault \/ answer \in Denied \/ answer \in Closed
      BY <2>1, ZenonT(60) DEF Answers
    <3> HIDE DEF Fault, Denied, Closed, Served
    <3>2. answer.code \in {400, 401, 403, 429, 500, 529}
      BY <3>1, ZenonT(60) DEF Fault, Denied, Closed
    <3> QED BY <2>1, <3>2
  <2>2. CASE ~Refuses(a, token)
    <3>1. answer \in Fault \/ answer \in Served
      BY <2>2, ZenonT(60) DEF Answers
    <3>2. answer.code \in {200, 400, 404, 429, 500, 529}
      BY <3>1, ZenonT(60)
    <3>3. answer.account \in {FALSE}
      BY <3>1, ZenonT(30)
    <3>4. ~(answer.account)
      BY <3>3, Zenon
    <3>5. answer.code \notin {401, 403}
      BY <3>2
    <3>6. answer.code \in {200, 400, 401, 403, 404, 429, 500, 529}
      BY <3>2
    <3> QED BY <3>4, <3>5, <3>6, ZenonT(60)
  <2> QED BY <2>1, <2>2, Zenon
<1> QED BY <1>1 DEF FailureKind

\* What Core stores of an answered request.
LEMMA StoredOK ==
    ASSUME NEW r \in Requests, NEW c \in Call, NEW kind, ReturnsAnswered(r, c, kind),
           stored \in [Accounts -> Nat], c.on \in Accounts
    PROVE  stored' \in [Accounts -> Nat]
<1>1. c.tok \in Nat /\ c.renewed \in BOOLEAN
  BY DEF Call
<1> QED BY <1>1 DEF ReturnsAnswered

\* A success, whatever of it has been written.
LEMMA SuccessStep ==
    ASSUME Inv, NEW r \in Requests, NEW c \in Call, Succeeds(r, c),
           c.on \in Accounts, c.verdict = "none",
           c.stream => c.path = "messages",
           IF c.path = "messages" THEN c.billed = {c.on} /\ c.got \in Written ELSE c.billed = {}
    PROVE  Inv'
<1>1. /\ ReturnsAnswered(r, c, "success") /\ UNCHANGED <<upstreamVars, registry>>
      /\ Returns(r, c, "success")
  BY DEF Succeeds, ReturnsAnswered
<1>2. stored' \in [Accounts -> Nat]
  BY <1>1, StoredOK DEF Inv, TypesOK
<1>3. jobs' \in Seq(Accounts) /\ Len(jobs') <= QueueCap
  <2>1. CASE IsOAuth(c.on) /\ c.path = "messages"
    BY <2>1, ScheduleOK DEF Succeeds, Inv
  <2>2. CASE ~(IsOAuth(c.on) /\ c.path = "messages")
    BY <2>2 DEF Succeeds, Inv, SidecarOK
  <2> QED BY <2>1, <2>2
<1>4. SidecarOK'
  BY <1>1, <1>3 DEF Inv, SidecarOK
<1> QED BY <1>1, <1>2, <1>4, ReturnStep DEF Kinds, Final


LEMMA AnswerStep ==
    ASSUME Inv, NEW r \in Requests, Answer(r)
    PROVE  Inv'
<1>1. PICK c \in Call : c = call[r]
  BY DEF Inv, TypesOK
<1>2. Underway(c) /\ Fresh(c) /\ c.pc \in {"ready", "streaming"}
  BY <1>1 DEF Inv, CallsOK, CallOK, Answer, NetworkFails, ErrorAnswer, WholeAnswer, TornBody,
     StreamStarts, StreamSucceeds, StreamAborts, GoodAnswer
<1>3. /\ c.on \in Accounts /\ c.verdict = "none" /\ c.billed = {}
      /\ c.stream => c.path = "messages"
      /\ c.pc = "ready" => c.got = "nothing" /\ c.path # "models"
      /\ c.pc = "streaming" => c.path = "messages"
  BY <1>2 DEF Underway
<1>4. /\ stored \in [Accounts -> Nat] /\ newest \in [Accounts -> Nat] /\ SidecarOK
      /\ expired \in [Accounts -> Nat]
  BY DEF Inv, TypesOK
<1>5. CASE NetworkFails(r)
  <2>1. Returns(r, c, "transient") /\ UNCHANGED <<stored, upstreamVars, sidecarVars>>
        /\ c.pc = "ready"
    BY <1>1, <1>5 DEF NetworkFails
  <2>2. stored' \in [Accounts -> Nat] /\ SidecarOK'
    BY <1>4, <2>1, SidecarKept
  <2> QED BY <1>3, <2>1, <2>2, ReturnStep DEF Kinds, Final
<1>6. CASE ErrorAnswer(r)
  <2>1. PICK answer \in Answers(c.on, c.tok) :
             answer.code >= 400 /\ ReturnsAnswered(r, c, FailureKind(answer))
    BY <1>1, <1>6 DEF ErrorAnswer, LeavesWriter
  <2>2. UNCHANGED <<upstreamVars, sidecarVars>> /\ c.pc = "ready"
    BY <1>1, <1>6 DEF ErrorAnswer
  <2>3. PICK kind \in {"dead", "rate_limited", "transient", "client_error"} :
             kind = FailureKind(answer) /\ (kind = "dead" => Refuses(c.on, c.tok))
    BY <2>1, AnswerKinds
  <2>4. ReturnsAnswered(r, c, kind)
    BY <2>1, <2>3
  <2>5. stored' \in [Accounts -> Nat] /\ SidecarOK' /\ Returns(r, c, kind)
    BY <1>3, <1>4, <2>2, <2>4, SidecarKept, StoredOK DEF ReturnsAnswered
  <2>6. kind = "dead" /\ c.path = "messages" => ~Fit(c.on)
    <3>1. CASE c.on \in banned
      BY <3>1 DEF Fit
    <3>2. CASE c.on \notin banned /\ kind = "dead" /\ c.path = "messages"
      <4>1. ~IsOAuth(c.on) \/ c.tok <= expired[c.on]
        BY <2>3, <3>2 DEF Refuses
      <4>2. Type[c.on] # "apikey"
        BY <2>3, <3>2 DEF Refuses
      <4>3. IsOAuth(c.on)
        BY <1>2, <2>2, <3>2, <4>2 DEF Fresh, Known, IsOAuth
      <4>4. c.on \in Bare
        <5>1. c.tok \in Nat /\ expired[c.on] \in Nat
          BY <1>3, <1>4 DEF Call
        <5> QED BY <1>2, <2>2, <3>2, <4>1, <4>3, <5>1 DEF Fresh
      <4> QED BY <4>4 DEF Fit
    <3> QED BY <3>1, <3>2
  <2>7. kind \in Kinds /\ kind # "success"
    BY DEF Kinds
  <2> QED BY <1>3, <2>2, <2>5, <2>6, <2>7, ReturnStep
<1>7. CASE WholeAnswer(r)
  <2>1. PICK got \in Written :
             Succeeds(r, [c EXCEPT !.got = got,
               !.billed = IF c.path = "messages" THEN @ \union {c.on} ELSE @])
    BY <1>1, <1>7 DEF WholeAnswer
  <2> DEFINE d == [c EXCEPT !.got = got,
                            !.billed = IF c.path = "messages" THEN @ \union {c.on} ELSE @]
  <2>2. d \in Call
    BY <1>3, ZenonT(60) DEF Call, Written
  <2>3. /\ d.on = c.on /\ d.verdict = c.verdict /\ d.path = c.path /\ d.stream = c.stream
        /\ d.got = got
        /\ d.billed = IF c.path = "messages" THEN {c.on} ELSE {}
    BY <1>3 DEF Call
  <2>4. Succeeds(r, d)
    BY <2>1
  <2> HIDE DEF d
  <2>5. IF d.path = "messages" THEN d.billed = {d.on} /\ d.got \in Written ELSE d.billed = {}
    BY <2>3
  <2> QED BY <1>3, <2>2, <2>3, <2>4, <2>5, SuccessStep
<1>8. CASE TornBody(r)
  <2>1. ReturnsAnswered(r, c, "transient") /\ UNCHANGED <<upstreamVars, sidecarVars>>
        /\ c.pc = "ready"
    BY <1>1, <1>8 DEF TornBody, GoodAnswer
  <2>2. stored' \in [Accounts -> Nat]
    BY <1>3, <1>4, <2>1, StoredOK
  <2>3. SidecarOK' /\ Returns(r, c, "transient")
    BY <1>4, <2>1, SidecarKept DEF ReturnsAnswered
  <2> QED BY <1>3, <2>1, <2>2, <2>3, ReturnStep DEF Kinds, Final
<1>9. CASE StreamStarts(r)
  <2> DEFINE d == [c EXCEPT !.pc = "streaming", !.got = "part"]
  <2>1. call' = [call EXCEPT ![r] = d] /\ UNCHANGED <<coreVars, upstreamVars, sidecarVars>>
        /\ c.stream
    BY <1>1, <1>9 DEF StreamStarts, Inv, TypesOK
  <2>2. /\ d \in Call /\ d.pc = "streaming" /\ d.on = c.on /\ d.verdict = c.verdict
        /\ d.path = c.path /\ d.stream = c.stream /\ d.billed = c.billed
    BY DEF Call
  <2> HIDE DEF d
  <2>3. Underway(d) /\ Fresh(d)
    BY <1>3, <2>1, <2>2 DEF Underway, Fresh
  <2>4. SidecarOK' /\ \A a \in Accounts : newest[a] <= newest[a]
    BY <1>4, <2>1, SidecarKept
  <2> QED BY <1>4, <2>1, <2>2, <2>3, <2>4, GoOnStep DEF upstreamVars
<1>10. CASE StreamSucceeds(r)
  <2> DEFINE d == [c EXCEPT !.got = "whole", !.billed = @ \union {c.on}]
  <2>1. Succeeds(r, d) /\ c.pc = "streaming"
    BY <1>1, <1>10 DEF StreamSucceeds
  <2>2. /\ d \in Call /\ d.on = c.on /\ d.verdict = c.verdict /\ d.path = c.path
        /\ d.stream = c.stream /\ d.got = "whole" /\ d.billed = {c.on}
    BY <1>3 DEF Call
  <2> HIDE DEF d
  <2> QED BY <1>3, <2>1, <2>2, SuccessStep DEF Written
<1>11. CASE StreamAborts(r)
  <2>1. ReturnsAnswered(r, c, "aborted") /\ UNCHANGED <<upstreamVars, sidecarVars>>
    BY <1>1, <1>11 DEF StreamAborts
  <2>2. stored' \in [Accounts -> Nat]
    BY <1>3, <1>4, <2>1, StoredOK
  <2>3. SidecarOK' /\ Returns(r, c, "aborted")
    BY <1>4, <2>1, SidecarKept DEF ReturnsAnswered
  <2> QED BY <1>3, <2>1, <2>2, <2>3, ReturnStep DEF Kinds, Final
<1> QED BY <1>5, <1>6, <1>7, <1>8, <1>9, <1>10, <1>11 DEF Answer


-----------------------------------------------------------------------------
(* The upstream and the worker.                                             *)

\* Tokens of an account expire in the order of issue, but none that has been
\* checked and is about to be sent.
LEMMA ExpireStep ==
    ASSUME Inv, NEW a \in Accounts, Expire(a)
    PROVE  Inv'
<1>1. /\ UNCHANGED <<call, coreVars, newest, banned, forfeited, sidecarVars>>
      /\ expired' = [expired EXCEPT ![a] = @ + 1] /\ expired[a] < newest[a]
  BY DEF Expire
<1>2. /\ expired' \in [Accounts -> Nat]
      /\ \A b \in Accounts : expired'[b] <= newest'[b]
  BY <1>1 DEF Inv, TypesOK
<1>3. CallsOK'
  <2>1. SUFFICES ASSUME NEW r \in Requests PROVE CallOK(call[r])'
    BY DEF CallsOK
  <2>2. PICK c \in Call : c = call[r]
    BY DEF Inv, TypesOK
  <2>3. CallOK(c) /\ call'[r] = c
    BY <1>1, <2>2 DEF Inv, CallsOK
  <2>4. CASE c.pc = "done"
    BY <1>1, <2>3, <2>4 DEF CallOK, Over, coreVars
  <2>5. CASE c.pc # "done"
    <3>1. Underway(c) /\ Fresh(c)
      BY <2>3, <2>5 DEF CallOK
    <3>2. Fresh(call[r])'
      <4>1. SUFFICES ASSUME c.pc = "ready", c.path = "messages", IsOAuth(c.on), c.on \notin Bare
                     PROVE  c.tok > expired'[c.on]
        BY <2>3, <3>1 DEF Fresh, Known, IsOAuth
      <4>2. c.tok > expired[c.on] /\ c.on \in Accounts /\ c.tok \in Nat
        BY <3>1, <4>1 DEF Fresh, Underway, Call
      <4>3. c.on = a => c.tok # expired[a] + 1
        BY <2>2, <4>1 DEF Expire
      <4> QED BY <1>1, <4>2, <4>3 DEF Inv, TypesOK
    <3>3. Underway(call[r])'
      BY <2>3, <3>1 DEF Underway, IsOAuth
    <3> QED BY <2>3, <2>5, <3>2, <3>3 DEF CallOK
  <2> QED BY <2>4, <2>5
<1>4. SidecarOK'
  BY <1>1, SidecarKept DEF Inv
<1>5. CondemnedForCause'
  BY <1>1 DEF Inv, CondemnedForCause, Fit, coreVars
<1> QED BY <1>1, <1>2, <1>3, <1>4, <1>5 DEF Inv, TypesOK, coreVars

\* Accounts that are lost stay lost.
LEMMA LossStep ==
    ASSUME Inv, NEW a \in Accounts, Ban(a) \/ Forfeit(a)
    PROVE  Inv'
<1>1. /\ UNCHANGED <<call, coreVars, newest, expired, sidecarVars>>
      /\ banned' \in {banned, banned \union {a}} /\ forfeited' \in {forfeited, forfeited \union {a}}
  BY DEF Ban, Forfeit
<1>2. CallsOK'
  BY <1>1 DEF Inv, CallsOK, CallOK, Underway, Fresh, Over, coreVars
<1>3. SidecarOK'
  BY <1>1, SidecarKept DEF Inv
<1>4. \A x \in Accounts : ~Fit(x) => ~Fit(x)'
  BY <1>1 DEF Fit
<1>5. CondemnedForCause'
  BY <1>1, <1>4 DEF Inv, CondemnedForCause, coreVars
<1> QED BY <1>1, <1>2, <1>3, <1>5 DEF Inv, TypesOK, coreVars

\* The worker keeps what it learns of an account to itself.
LEMMA JobStep ==
    ASSUME Inv, RunJob
    PROVE  Inv'
<1>1. /\ UNCHANGED <<call, stored, upstreamVars, registry>>
      /\ UNCHANGED <<enabled, condemned>>
      /\ jobs # <<>> /\ jobs' = Tail(jobs)
  BY DEF RunJob, DropsOutcome
<1>2. SidecarOK'
  <2>1. jobs \in Seq(Accounts) /\ Len(jobs) \in Nat /\ Len(jobs) <= QueueCap
    BY LenProperties DEF Inv, SidecarOK
  <2>2. jobs' \in Seq(Accounts) /\ Len(jobs') = Len(jobs) - 1
    BY <1>1, <2>1, HeadTailProperties
  <2> QED BY <1>1, <2>1, <2>2 DEF Inv, SidecarOK
<1>3. CallsOK'
  BY <1>1 DEF Inv, CallsOK, CallOK, Underway, Fresh, Over, upstreamVars
<1>4. CondemnedForCause'
  BY <1>1 DEF Inv, CondemnedForCause, Fit, upstreamVars
<1> QED BY <1>1, <1>2, <1>3, <1>4 DEF Inv, TypesOK, upstreamVars

LEMMA Initially == Init => Inv
<1> SUFFICES ASSUME Init PROVE Inv
  OBVIOUS
<1>1. NewCall \in Call /\ NewCall.pc = "new"
  BY DEF NewCall, Call
<1>2. CallsOK
  <2>1. Underway(NewCall) /\ Fresh(NewCall)
    BY DEF NewCall, Underway, Fresh
  <2> QED BY <1>1, <2>1 DEF Init, CallsOK, CallOK
<1>3. TypesOK
  BY <1>1 DEF Init, TypesOK, CallsAssumption
<1>4. SidecarOK
  BY EmptySeq DEF Init, SidecarOK, CallsAssumption
<1>5. CondemnedForCause
  BY DEF Init, CondemnedForCause
<1> QED BY <1>2, <1>3, <1>4, <1>5 DEF Inv

LEMMA Inductive == Inv /\ [Next]_vars => Inv'
<1> SUFFICES ASSUME Inv, [Next]_vars PROVE Inv'
  OBVIOUS
<1>1. ASSUME NEW r \in Requests, Submit(r) \/ Serve(r) PROVE Inv'
  BY <1>1, CoreStep, RouteStep, EnsureStep, AnswerStep DEF Serve
<1>2. ASSUME NEW a \in Accounts, Expire(a) \/ Ban(a) \/ Forfeit(a) PROVE Inv'
  BY <1>2, ExpireStep, LossStep
<1>3. CASE RunJob
  BY <1>3, JobStep
<1>4. CASE UNCHANGED vars
  BY <1>4 DEF vars, coreVars, upstreamVars, sidecarVars, Inv, TypesOK, SidecarOK, CallsOK, CallOK,
              Underway, Fresh, Over, CondemnedForCause, Fit
<1> QED BY <1>1, <1>2, <1>3, <1>4 DEF Next

LEMMA Invariance == Spec => []Inv
BY Initially, Inductive, PTL DEF Spec

-----------------------------------------------------------------------------
(* Theorems.                                                                *)

\* The variables have their types, the registry and the queue of count_tokens
\* jobs stay within their caps.
THEOREM CallTypes == Spec => []TypeOK
<1>1. Inv => TypeOK
  BY DEF Inv, TypesOK, SidecarOK, TypeOK
<1> QED BY <1>1, Invariance, PTL

\* A request fails only when every account Core still schedules has been tried
\* for it: no error path of the plugin writes to the client before it reports.
THEOREM FailsOverToTheLast == Spec => []GivesUpOnlyWhenExhausted
<1>1. Inv => GivesUpOnlyWhenExhausted
  <2>1. SUFFICES ASSUME Inv, NEW r \in Requests, call[r].verdict = "failed"
                 PROVE  enabled \subseteq call[r].tried
    BY DEF GivesUpOnlyWhenExhausted
  <2>2. CallOK(call[r])
    BY <2>1 DEF Inv, CallsOK
  <2> QED BY <2>1, <2>2 DEF CallOK, Over, Underway
<1> QED BY <1>1, Invariance, PTL

\* Over all attempts of a request exactly the account that answered it is
\* billed, and only for an answer that was written.
THEOREM PaysForTheAnswer == Spec => []BilledIsServed
<1>1. Inv => BilledIsServed
  <2>1. SUFFICES ASSUME Inv, NEW r \in Requests
                 PROVE  IF call[r].verdict = "success" /\ call[r].path = "messages"
                        THEN call[r].billed = {call[r].on} /\ call[r].got \in Written
                        ELSE call[r].billed = {}
    BY DEF BilledIsServed
  <2>2. CallOK(call[r])
    BY <2>1 DEF Inv, CallsOK
  <2> QED BY <2>2 DEF CallOK, Over, Underway
<1> QED BY <1>1, Invariance, PTL

\* An account a messages request took out of service had been closed by the
\* upstream, had lost its refresh token, or could not be used from the start.
THEOREM FitAccountsStay == Spec => []CondemnedForCause
BY Invariance, PTL DEF Inv
=============================================================================
