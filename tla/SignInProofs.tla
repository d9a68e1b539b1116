----------------------------- MODULE SignInProofs -----------------------------
(***************************************************************************)
(* Theorems about SignIn: the exchange of session keys does not disturb the *)
(* browser sign-ins, so the theorems of OAuthSessionsProofs hold of both    *)
(* together; and a batch is answered key by key, for any number of keys.    *)
(***************************************************************************)
EXTENDS SignIn, OAuthSessionsProofs, SequenceTheorems

-----------------------------------------------------------------------------
(* Browser sign-ins.                                                        *)

LEMMA KeysAside == ASSUME NEW w \in Worker, Exchanging(w) PROVE UNCHANGED vars
BY DEF Exchanging, Submit, ProxyRefused, OrganizationFound, CodeIssued, TokenIssued,
   HollowAnswer, StepFails, Cancelled, Answered, Proceeds, Result

\* Every behaviour of SignIn is one of OAuthSessions.
THEOREM KeysDoNotDisturb == SignInSpec => Spec
<1>1. SignInInit => Init
  BY DEF SignInInit
<1>2. [SignInNext]_signInVars => [Next]_vars
  <2>1. SignInNext => [Next]_vars
    BY KeysAside DEF SignInNext, Authorising, RestartAll, TimePasses, Next
  <2>2. UNCHANGED signInVars => UNCHANGED vars
    BY DEF signInVars
  <2> QED BY <2>1, <2>2
<1> QED BY <1>1, <1>2, PTL DEF SignInSpec, Spec

-----------------------------------------------------------------------------
(* Session keys.                                                            *)

Keys == 1 .. MaxKeys

Entry == [status : {"ok", "failed"}, token : 0 .. MaxKeys]

\* What the results of the first n keys look like.
Noted(results, n, issued, lost) ==
    /\ results \in Seq(Entry) /\ Len(results) = n
    /\ issued \subseteq 1 .. n /\ lost \subseteq issued
    /\ \A k \in 1 .. n :
         /\ results[k].token \in {0, k}
         /\ k \in issued \ lost => results[k] = [status |-> "ok", token |-> k]
         /\ k \in lost => results[k].status = "failed"

\* A job that is at its key-th key has noted the ones before.
JobOK(j) ==
    /\ j \in Job
    /\ j.step # "none" =>
         /\ j.key <= j.keys
         /\ j.step = "answer" => j.key = j.keys
         /\ Noted(j.results, IF j.step = "answer" THEN j.keys ELSE j.key - 1, j.issued, j.lost)
    /\ j.step = "none" => j = NoJob

JobsOK == job \in [Worker -> Job] /\ \A w \in Worker : JobOK(job[w])

\* A key adds its result at its place.
LEMMA NotedNext ==
    ASSUME NEW results, NEW n \in 0 .. MaxKeys, NEW issued, NEW lost,
           Noted(results, n, issued, lost), n + 1 <= MaxKeys,
           NEW status \in {"ok", "failed"}, NEW came \in {0, n + 1},
           NEW this \in {{}, {n + 1}},
           came # 0 => status = "ok" /\ this = {n + 1},
           came = 0 /\ this # {} => status = "failed"
    PROVE  Noted(Note(results, status, came), n + 1, issued \union this,
                 IF came = 0 THEN lost \union this ELSE lost)
<1> DEFINE e == [status |-> status, token |-> came]
           after == Append(results, e)
           gone == IF came = 0 THEN lost \union this ELSE lost
<1>1. n \in Nat /\ MaxKeys \in Nat /\ n + 1 \in 1 .. MaxKeys
  BY SignInAssumption
<1>2. results \in Seq(Entry) /\ Len(results) = n /\ e \in Entry
  BY <1>1 DEF Noted, Entry
<1>3. /\ after \in Seq(Entry) /\ Len(after) = n + 1
      /\ \A k \in 1 .. n : after[k] = results[k]
      /\ after[n + 1] = e
  BY <1>2, AppendProperties
<1>4. e.status = status /\ e.token = came
  OBVIOUS
<1>5. Note(results, status, came) = after
  BY DEF Note
<1> HIDE DEF e, after
<1>6. issued \union this \subseteq 1 .. (n + 1) /\ gone \subseteq issued \union this
  <2>1. issued \subseteq 1 .. n /\ lost \subseteq issued /\ 1 .. n \subseteq 1 .. (n + 1)
    BY <1>1 DEF Noted
  <2>2. this \subseteq 1 .. (n + 1)
    BY <1>1
  <2> QED BY <2>1, <2>2
<1>7. ASSUME NEW k \in 1 .. (n + 1)
      PROVE  /\ after[k].token \in {0, k}
             /\ k \in (issued \union this) \ gone => after[k] = [status |-> "ok", token |-> k]
             /\ k \in gone => after[k].status = "failed"
  <2>1. CASE k = n + 1
    <3>1. k \notin issued /\ k \notin lost
      BY <1>1, <2>1 DEF Noted
    <3>2. after[k] = e
      BY <1>3, <2>1
    <3>3. after[k].token \in {0, k}
      BY <1>4, <2>1, <3>2
    <3>4. k \in gone => after[k].status = "failed"
      BY <1>4, <3>1, <3>2
    <3>5. k \in (issued \union this) \ gone => came = k /\ status = "ok"
      BY <1>1, <2>1, <3>1
    <3> QED BY <3>2, <3>3, <3>4, <3>5 DEF e
  <2>2. CASE k # n + 1
    <3>1. k \in 1 .. n /\ k \notin this
      BY <1>1, <2>2
    <3> QED BY <1>3, <3>1 DEF Noted
  <2> QED BY <2>1, <2>2
<1> HIDE DEF gone
<1>8. Noted(after, n + 1, issued \union this, gone)
  BY <1>3, <1>6, <1>7 DEF Noted
<1> QED BY <1>5, <1>8 DEF gone

\* What Result makes of a job that is at one of its keys.
LEMMA ResultOK ==
    ASSUME NEW w \in Worker, JobsOK, NEW status \in {"ok", "failed"}, NEW came, NEW issued \in BOOLEAN,
           job[w].step \in {"orgs", "code", "token"},
           came \in {0, job[w].key},
           came # 0 => status = "ok" /\ issued,
           came = 0 /\ issued => status = "failed",
           Result(w, status, came, issued)
    PROVE  JobsOK'
<1>1. PICK j \in Job : j = job[w]
  BY DEF JobsOK
<1> DEFINE isLast == j.key = j.keys
           this == IF issued THEN {j.key} ELSE {}
           results == Note(j.results, status, came)
           gone == IF came = 0 THEN j.lost \union this ELSE j.lost
           step == IF isLast THEN "answer" ELSE "orgs"
           key == IF isLast THEN j.key ELSE j.key + 1
           d == [j EXCEPT !.results = results, !.step = step, !.key = key,
                          !.issued = j.issued \union this, !.lost = gone]
<1>2. job' = [job EXCEPT ![w] = d]
  BY <1>1 DEF Result
<1>3. /\ JobOK(j) /\ j.step \in {"orgs", "code", "token"}
      /\ j.keys \in 0 .. MaxKeys /\ j.key \in 1 .. MaxKeys /\ MaxKeys \in Nat
  BY <1>1, SignInAssumption DEF JobsOK, Job
<1>4. Noted(j.results, j.key - 1, j.issued, j.lost) /\ j.key <= j.keys
  BY <1>3 DEF JobOK
<1>5. Noted(results, j.key, j.issued \union this, gone)
  <2>1. PICK n \in 0 .. MaxKeys : n = j.key - 1 /\ n + 1 = j.key /\ n + 1 <= MaxKeys
    BY <1>3
  <2>2. came \in {0, n + 1} /\ this \in {{}, {n + 1}}
    BY <1>1, <2>1
  <2>3. came # 0 => status = "ok" /\ this = {n + 1}
    BY <2>1
  <2>4. came = 0 /\ this # {} => status = "failed"
    OBVIOUS
  <2>5. Noted(j.results, n, j.issued, j.lost)
    BY <1>4, <2>1
  <2> HIDE DEF this
  <2>6. Noted(Note(j.results, status, came), n + 1, j.issued \union this,
              IF came = 0 THEN j.lost \union this ELSE j.lost)
    BY <2>1, <2>2, <2>3, <2>4, <2>5, NotedNext
  <2> QED BY <2>1, <2>6
<1>6. /\ key \in 1 .. MaxKeys /\ key <= j.keys /\ step \in {"answer", "orgs"}
      /\ step = "answer" => key = j.keys /\ j.key = j.keys
      /\ step = "orgs" => key = j.key + 1
  BY <1>3, <1>4
<1> HIDE DEF this, results, gone, step, key
<1>7. results \in Seq([status : {"ok", "failed"}, token : 0 .. MaxKeys])
      /\ j.issued \union this \in SUBSET (1 .. MaxKeys) /\ gone \in SUBSET (1 .. MaxKeys)
  <2>1. 1 .. j.key \subseteq 1 .. MaxKeys
    BY <1>3
  <2> QED BY <1>5, <2>1 DEF Noted, Entry
<1>8. d \in Job
  BY <1>6, <1>7 DEF Job
<1>9. /\ d.step = step /\ d.keys = j.keys /\ d.key = key /\ d.results = results
      /\ d.issued = j.issued \union this /\ d.lost = gone
  BY DEF Job
<1> HIDE DEF d
<1>10. JobOK(d)
  <2>1. Noted(d.results, IF d.step = "answer" THEN d.keys ELSE d.key - 1, d.issued, d.lost)
    <3>1. (IF d.step = "answer" THEN d.keys ELSE d.key - 1) = j.key
      BY <1>3, <1>6, <1>9
    <3> QED BY <1>5, <1>9, <3>1
  <2> QED BY <1>6, <1>8, <1>9, <2>1 DEF JobOK
<1>11. job' \in [Worker -> Job] /\ job'[w] = d /\ \A v \in Worker \ {w} : job'[v] = job[v]
  BY <1>2, <1>8 DEF JobsOK
<1> QED BY <1>10, <1>11 DEF JobsOK

LEMMA FreshJob == NoJob \in Job /\ JobOK(NoJob)
<1>1. MaxKeys \in Nat \ {0}
  BY SignInAssumption
<1>2. <<>> \in Seq([status : {"ok", "failed"}, token : 0 .. MaxKeys])
  BY EmptySeq
<1>3. NoJob \in Job
  BY <1>1, <1>2 DEF NoJob, Job
<1>4. NoJob.step = "none"
  BY DEF NoJob
<1> QED BY <1>3, <1>4 DEF JobOK

\* One job changes.
LEMMA OneJob ==
    ASSUME JobsOK, NEW w \in Worker, NEW d \in Job, JobOK(d), job' = [job EXCEPT ![w] = d]
    PROVE  JobsOK'
BY DEF JobsOK

LEMMA SubmitOK ==
    ASSUME JobsOK, NEW w \in Worker, Submit(w)
    PROVE  JobsOK'
<1>1. PICK keys \in 1 .. MaxKeys, proxied \in BOOLEAN :
           job' = [job EXCEPT ![w] = [NoJob EXCEPT !.step = "orgs", !.keys = keys,
                                                   !.proxied = proxied]]
  BY DEF Submit
<1> DEFINE d == [NoJob EXCEPT !.step = "orgs", !.keys = keys, !.proxied = proxied]
<1>2. MaxKeys \in Nat \ {0} /\ <<>> \in Seq(Entry) /\ Len(<<>>) = 0 /\ keys \in 1 .. MaxKeys
  BY SignInAssumption, EmptySeq
<1>3. /\ d.step = "orgs" /\ d.keys = keys /\ d.key = 1 /\ d.results = <<>>
      /\ d.issued = {} /\ d.lost = {}
  BY DEF NoJob
<1>4. d \in Job
  <2>1. NoJob \in Job /\ keys \in 0 .. MaxKeys /\ proxied \in BOOLEAN
    BY <1>2, FreshJob
  <2> QED BY <2>1 DEF Job
<1>5. job' = [job EXCEPT ![w] = d]
  BY <1>1
<1> HIDE DEF d
<1>6. Noted(d.results, 0, d.issued, d.lost)
  BY <1>2, <1>3 DEF Noted
<1>7. (IF d.step = "answer" THEN d.keys ELSE d.key - 1) = 0 /\ d.key <= d.keys
  BY <1>2, <1>3
<1>8. JobOK(d)
  BY <1>3, <1>4, <1>6, <1>7 DEF JobOK
<1> QED BY <1>4, <1>5, <1>8, OneJob

\* A job that only gets on with the key it is at, or loses its client.
LEMMA SameKeyOK ==
    ASSUME NEW j \in Job, JobOK(j), NEW d \in Job,
           j.step \in {"orgs", "code", "token"}, d.step \in {"orgs", "code", "token"},
           d.keys = j.keys, d.key = j.key, d.results = j.results, d.issued = j.issued,
           d.lost = j.lost
    PROVE  JobOK(d)
<1>1. (IF j.step = "answer" THEN j.keys ELSE j.key - 1) = j.key - 1
      /\ (IF d.step = "answer" THEN d.keys ELSE d.key - 1) = j.key - 1
  OBVIOUS
<1>2. j.key <= j.keys /\ Noted(j.results, j.key - 1, j.issued, j.lost)
  BY <1>1 DEF JobOK
<1> QED BY <1>1, <1>2 DEF JobOK

LEMMA ProceedsOK ==
    ASSUME JobsOK, NEW w \in Worker, NEW from \in {"orgs", "code"}, NEW to \in {"code", "token"},
           Proceeds(w, from, to)
    PROVE  JobsOK'
<1>1. PICK j \in Job : j = job[w] /\ JobOK(j)
  BY DEF JobsOK
<1> DEFINE d == [j EXCEPT !.step = to]
<1>2. job' = [job EXCEPT ![w] = d] /\ j.step = from
  BY <1>1 DEF Proceeds, Awaits
<1>3. /\ d \in Job /\ d.step = to /\ d.keys = j.keys /\ d.key = j.key /\ d.results = j.results
      /\ d.issued = j.issued /\ d.lost = j.lost
  BY DEF Job
<1> HIDE DEF d
<1>4. JobOK(d)
  BY <1>1, <1>2, <1>3, SameKeyOK
<1> QED BY <1>2, <1>3, <1>4, OneJob

LEMMA CancelledOK ==
    ASSUME JobsOK, NEW w \in Worker, Cancelled(w)
    PROVE  JobsOK'
<1>1. PICK j \in Job : j = job[w] /\ JobOK(j)
  BY DEF JobsOK
<1> DEFINE d == [j EXCEPT !.gone = TRUE]
<1>2. job' = [job EXCEPT ![w] = d] /\ j.step \in {"orgs", "code", "token"}
  BY <1>1 DEF Cancelled, Job
<1>3. /\ d \in Job /\ d.step = j.step /\ d.keys = j.keys /\ d.key = j.key
      /\ d.results = j.results /\ d.issued = j.issued /\ d.lost = j.lost
  BY DEF Job
<1> HIDE DEF d
<1>4. JobOK(d)
  BY <1>1, <1>2, <1>3, SameKeyOK
<1> QED BY <1>2, <1>3, <1>4, OneJob

LEMMA ExchangingOK ==
    ASSUME JobsOK, NEW w \in Worker, Exchanging(w)
    PROVE  JobsOK'
<1>1. job[w].key \in 1 .. MaxKeys
  BY DEF JobsOK, Job
<1>2. CASE Submit(w)
  BY <1>2, SubmitOK
<1>3. CASE ProxyRefused(w)
  BY <1>3, ResultOK DEF ProxyRefused, Awaits
<1>4. CASE OrganizationFound(w)
  BY <1>4, ProceedsOK DEF OrganizationFound
<1>5. CASE CodeIssued(w)
  BY <1>5, ProceedsOK DEF CodeIssued
<1>6. CASE TokenIssued(w)
  <2>1. PICK came \in 1 .. MaxKeys : came = job[w].key
    BY <1>1
  <2>2. Result(w, "ok", came, TRUE) /\ job[w].step = "token"
    BY <1>6, <2>1 DEF TokenIssued, Awaits
  <2>3. came # 0
    BY SignInAssumption
  <2> QED BY <2>1, <2>2, <2>3, ResultOK
<1>7. CASE HollowAnswer(w)
  BY <1>7, ResultOK DEF HollowAnswer, Awaits
<1>8. CASE StepFails(w)
  <2>1. PICK issued \in BOOLEAN : Result(w, "failed", 0, issued)
    BY <1>8 DEF StepFails
  <2>2. job[w].step \in {"orgs", "code", "token"}
    BY <1>8 DEF StepFails
  <2> QED BY <2>1, <2>2, ResultOK
<1>9. CASE Cancelled(w)
  BY <1>9, CancelledOK
<1>10. CASE Answered(w)
  BY <1>10, FreshJob, OneJob DEF Answered
<1> QED BY <1>2, <1>3, <1>4, <1>5, <1>6, <1>7, <1>8, <1>9, <1>10 DEF Exchanging

LEMMA JobsAlways == SignInSpec => []JobsOK
<1>1. SignInInit => JobsOK
  BY FreshJob DEF SignInInit, JobsOK
<1>2. JobsOK /\ [SignInNext]_signInVars => JobsOK'
  <2> SUFFICES ASSUME JobsOK, [SignInNext]_signInVars PROVE JobsOK'
    OBVIOUS
  <2>1. ASSUME NEW w \in Worker, Exchanging(w) PROVE JobsOK'
    BY <2>1, ExchangingOK
  <2>2. ASSUME NEW gone \in SUBSET Worker, RestartAll(gone) PROVE JobsOK'
    <3>1. job' = [w \in Worker |-> IF w \in gone THEN NoJob ELSE job[w]]
      BY <2>2 DEF RestartAll
    <3> QED BY <3>1, FreshJob DEF JobsOK
  <2>3. ASSUME UNCHANGED job PROVE JobsOK'
    BY <2>3 DEF JobsOK
  <2> QED BY <2>1, <2>2, <2>3 DEF SignInNext, Authorising, TimePasses, signInVars
<1> QED BY <1>1, <1>2, PTL DEF SignInSpec

\* A batch is answered with one result per key, in order, and every token that
\* was issued and arrived is in the result of its key, whatever fails, whoever
\* leaves and for any number of keys.
THEOREM BatchesAreAnswered == SignInSpec => []OneResultPerKey
<1>1. JobsOK => OneResultPerKey
  <2> SUFFICES ASSUME JobsOK, NEW w \in Worker
               PROVE  LET j == job[w] IN
                 /\ j \in Job
                 /\ j.step # "none" =>
                      Len(j.results) = (IF j.step = "answer" THEN j.keys ELSE j.key - 1)
                 /\ \A k \in DOMAIN j.results : j.results[k].token # 0 => j.results[k].token = k
                 /\ \A k \in j.issued \ j.lost :
                      k \in DOMAIN j.results /\ j.results[k] = [status |-> "ok", token |-> k]
                 /\ \A k \in j.lost : k \in DOMAIN j.results /\ j.results[k].status = "failed"
    BY DEF OneResultPerKey
  <2>1. PICK j \in Job : j = job[w] /\ JobOK(j)
    BY DEF JobsOK
  <2>2. CASE j.step # "none"
    <3> DEFINE n == IF j.step = "answer" THEN j.keys ELSE j.key - 1
    <3>1. Noted(j.results, n, j.issued, j.lost)
      BY <2>1, <2>2 DEF JobOK
    <3> HIDE DEF n
    <3>2. Len(j.results) = n /\ DOMAIN j.results = 1 .. n
      BY <3>1, LenProperties DEF Noted
    <3>3. \A k \in DOMAIN j.results : j.results[k].token # 0 => j.results[k].token = k
      BY <3>1, <3>2 DEF Noted
    <3>4. j.issued \subseteq 1 .. n /\ j.lost \subseteq 1 .. n
      BY <3>1 DEF Noted
    <3>5. \A k \in j.issued \ j.lost :
             k \in DOMAIN j.results /\ j.results[k] = [status |-> "ok", token |-> k]
      BY <3>1, <3>2, <3>4 DEF Noted
    <3>6. \A k \in j.lost : k \in DOMAIN j.results /\ j.results[k].status = "failed"
      BY <3>1, <3>2, <3>4 DEF Noted
    <3>7. Len(j.results) = (IF j.step = "answer" THEN j.keys ELSE j.key - 1)
      BY <3>2 DEF n
    <3> QED BY <2>1, <3>3, <3>5, <3>6, <3>7, Zenon
  <2>3. CASE j.step = "none"
    <3>1. j.results = <<>> /\ j.issued = {} /\ j.lost = {}
      BY <2>1, <2>3 DEF JobOK, NoJob
    <3>2. DOMAIN j.results = {}
      BY <3>1
    <3> QED BY <2>1, <2>3, <3>1, <3>2
  <2> QED BY <2>2, <2>3
<1> QED BY <1>1, JobsAlways, PTL
=============================================================================
