------------------------------- MODULE SignIn -------------------------------
(***************************************************************************)
(* The sign-ins HandleRequest of gateway.go serves: browser authorisations  *)
(* (oauth/start and oauth/exchange with a callback URL, see OAuthSessions)  *)
(* and the exchange of session keys for tokens, one key (oauth/exchange,    *)
(* console/cookie-auth) or many (console/batch-cookie-auth).  A key takes   *)
(* three requests: organisations, authorisation code, token.                *)
(*                                                                          *)
(* The two share nothing but goroutines, so a goroutine serves one kind:    *)
(* duty.  Keys are numbered, and so are the tokens they are exchanged for;  *)
(* 0 is a missing token.                                                    *)
(***************************************************************************)
EXTENDS OAuthSessions, Sequences

CONSTANTS
    Duties,   \* what the goroutines may have to do: functions on Worker
    MaxKeys   \* bound: session keys in a batch

ASSUME SignInAssumption ==
    /\ Duties \subseteq [Worker -> {"browser", "session_key"}]
    /\ MaxKeys \in Nat \ {0}

VARIABLES
    duty,
    job   \* the exchange of session keys a worker is busy with, see Job

signInVars == <<vars, duty, job>>

Job == [step    : {"none", "orgs", "code", "token", "answer"},
        keys    : 0 .. MaxKeys,   \* session keys in the request
        key     : 1 .. MaxKeys,   \* the one whose turn it is
        proxied : BOOLEAN,        \* the request names a proxy
        gone    : BOOLEAN,        \* its context is cancelled
        results : Seq([status : {"ok", "failed"}, token : 0 .. MaxKeys]),
        issued  : SUBSET (1 .. MaxKeys),  \* history: keys Claude issued a token for,
        lost    : SUBSET (1 .. MaxKeys)]  \* and those whose answer did not arrive whole

NoJob == [step |-> "none", keys |-> 0, key |-> 1, proxied |-> FALSE, gone |-> FALSE,
          results |-> <<>>, issued |-> {}, lost |-> {}]

SignInInit ==
    /\ Init
    /\ duty \in Duties
    /\ job = [w \in Worker |-> NoJob]

-----------------------------------------------------------------------------

\* A request for one key, or for a batch; without any key it is refused.
Submit(w) ==
    /\ duty[w] = "session_key" /\ job[w].step = "none"
    /\ \E keys \in 1 .. MaxKeys, proxied \in BOOLEAN :
         job' = [job EXCEPT ![w] = [NoJob EXCEPT !.step = "orgs", !.keys = keys, !.proxied = proxied]]
    /\ UNCHANGED <<vars, duty>>

Awaits(w, step) == job[w].step = step

\* Mutant: only the keys that were exchanged get a result.
NoteSuccess(results, status, token) ==
    IF status = "ok" THEN Append(results, [status |-> status, token |-> token]) ELSE results

Note(results, status, token) == Append(results, [status |-> status, token |-> token])

\* The end of the key whose turn it is: came is the token that arrived (0: none),
\* issued says whether Claude issued one.  A failure does not end the batch; a
\* request for one key is a batch of one (its failure is answered with status 500).
Result(w, status, came, issued) ==
    LET j     == job[w]
        isLast == j.key = j.keys
        this  == IF issued THEN {j.key} ELSE {}
    IN /\ job' = [job EXCEPT ![w] =
                    [j EXCEPT !.results = Note(@, status, came),
                              !.step = IF isLast THEN "answer" ELSE "orgs",
                              !.key = IF isLast THEN @ ELSE @ + 1,
                              !.issued = @ \union this,
                              !.lost = IF came = 0 THEN @ \union this ELSE @]]
       /\ UNCHANGED <<vars, duty>>

\* A request that is answered as it should be.
Proceeds(w, from, to) ==
    /\ Awaits(w, from) /\ ~job[w].gone /\ ~job[w].proxied
    /\ job' = [job EXCEPT ![w].step = to]
    /\ UNCHANGED <<vars, duty>>

\* Chrome's fingerprint cannot be kept up through a proxy.
ProxyRefused(w) == Awaits(w, "orgs") /\ job[w].proxied /\ Result(w, "failed", 0, FALSE)

\* There is an organisation; the choice of a team does not matter here.
OrganizationFound(w) == Proceeds(w, "orgs", "code")

\* The redirect names a code.
CodeIssued(w) == Proceeds(w, "code", "token")

TokenIssued(w) ==
    /\ Awaits(w, "token") /\ ~job[w].gone
    /\ Result(w, "ok", job[w].key, TRUE)

\* Status 200 and JSON is all exchangeCodeForToken asks of an answer; one without
\* a token makes an account without one.
HollowAnswer(w) ==
    /\ Awaits(w, "token") /\ ~job[w].gone
    /\ Result(w, "ok", 0, FALSE)

\* Any of the requests fails: no connection, a timeout, a context that was
\* cancelled, another status, an answer without organisation or code or one that
\* is not JSON.  The token endpoint may have issued the token all the same.
StepFails(w) ==
    /\ job[w].step \in {"orgs", "code", "token"} /\ ~job[w].proxied
    /\ \E issued \in BOOLEAN :
         /\ issued => Awaits(w, "token")
         /\ Result(w, "failed", 0, issued)

Cancelled(w) ==
    /\ job[w].step \notin {"none", "answer"} /\ ~job[w].gone
    /\ job' = [job EXCEPT ![w].gone = TRUE]
    /\ UNCHANGED <<vars, duty>>

Answered(w) ==
    /\ Awaits(w, "answer")
    /\ job' = [job EXCEPT ![w] = NoJob]
    /\ UNCHANGED <<vars, duty>>

Exchanging(w) ==
    \/ Submit(w) \/ ProxyRefused(w) \/ OrganizationFound(w) \/ CodeIssued(w)
    \/ TokenIssued(w) \/ HollowAnswer(w) \/ StepFails(w) \/ Cancelled(w) \/ Answered(w)

Authorising(w) ==
    /\ duty[w] = "browser"
    /\ Starting(w) \/ CallingBack(w)
    /\ UNCHANGED <<duty, job>>

\* The jobs end with their process.
RestartAll(gone) ==
    /\ Restart(gone)
    /\ job' = [w \in Worker |-> IF w \in gone THEN NoJob ELSE job[w]]
    /\ UNCHANGED duty

TimePasses == Tick /\ UNCHANGED <<duty, job>>

SignInNext ==
    \/ \E w \in Worker : Authorising(w) \/ Exchanging(w)
    \/ \E gone \in SUBSET Worker : RestartAll(gone)
    \/ TimePasses

SignInSpec == SignInInit /\ [][SignInNext]_signInVars

-----------------------------------------------------------------------------
(* Properties.                                                              *)

\* A batch is answered with one result per key, in the order of the keys, whatever
\* becomes of the others: a result holds the token of its own key or none, and
\* every token Claude issued is in it unless the answer with it did not arrive.
\* When the client leaves half way, the rest of the keys are noted as failures.
OneResultPerKey ==
    \A w \in Worker : LET j == job[w] IN
        /\ j \in Job
        /\ j.step # "none" =>
             Len(j.results) = (IF j.step = "answer" THEN j.keys ELSE j.key - 1)
        /\ \A k \in DOMAIN j.results : j.results[k].token # 0 => j.results[k].token = k
        /\ \A k \in j.issued \ j.lost :
             k \in DOMAIN j.results /\ j.results[k] = [status |-> "ok", token |-> k]
        /\ \A k \in j.lost : k \in DOMAIN j.results /\ j.results[k].status = "failed"
=============================================================================
