---------------------------- MODULE SidecarRunner ----------------------------
(***************************************************************************)
(* The background runner of backend/internal/gateway/sidecar.go: start()   *)
(* launches a usage poller and a count_tokens worker, requests that were    *)
(* forwarded hand it jobs and refresh probes, beginDrain() stops admission  *)
(* and stop() waits for every goroutine.                                    *)
(*                                                                          *)
(* A generation is what one start() creates: a context, a jobs channel and  *)
(* two loops; `gen` numbers the newest one, which the fields ctx, cancel    *)
(* and jobs of the runner refer to.  Whatever runs under runner.mu never    *)
(* blocks and is one step.  The channel is the number of jobs in its        *)
(* buffer; probes are counted, not told apart.                              *)
(***************************************************************************)
EXTENDS Integers

CONSTANTS
    Caller,            \* goroutines in which Core calls Start, BeginDrain, Stop
    Buffer,            \* countTokensChanBuffer
    ProbeMax,          \* probeMaxConcurrency
    AccountMax,        \* accounts a poll round may find in the registry
    MaxGen             \* bound: number of successful starts

ASSUME RunnerAssumption ==
    /\ {Buffer, ProbeMax, MaxGen} \subseteq Nat \ {0}
    /\ AccountMax \in Nat

Gen == 1..MaxGen

VARIABLES
    orderly,     \* Core makes one call after the other and starts what it has stopped
    stopped,     \* runner.stopped
    gen,         \* the generation runner.ctx, cancel and jobs belong to, 0 before the first
    cancelled,   \* generations whose context is done
    closed,      \* generations whose jobs channel is closed
    queue,       \* jobs in the buffer of each channel
    poller,      \* usagePollerLoop of each generation
    left,        \* accounts its current round still has to visit
    worker,      \* countTokensLoop of each generation
    watch,       \* the channel its select waits on: runner.jobs when it was read
    slots,       \* tokens in probeCh
    probing,     \* sync.WaitGroup probes: probes on their way
    pc,          \* where a lifecycle call is
    born,        \* the generation a start call is about to launch
    finished,    \* history: a stop has returned and nobody started since
    panicked     \* a send on or a close of a closed channel

loopVars  == <<poller, left, worker, watch>>
probeVars == <<slots, probing>>
callVars  == <<pc, born, finished>>
vars == <<orderly, stopped, gen, cancelled, closed, queue, loopVars, probeVars, callVars, panicked>>

Idle == {"none", "gone"}

\* sync.WaitGroup wg: loops launched that have not returned.
LoopsAlive == \E g \in Gen : poller[g] \notin Idle \/ worker[g] \notin Idle

Init ==
    /\ orderly \in BOOLEAN
    /\ stopped = TRUE
    /\ gen = 0
    /\ cancelled = {} /\ closed = {}
    /\ queue = [g \in Gen |-> 0]
    /\ poller = [g \in Gen |-> "none"]
    /\ left = [g \in Gen |-> 0]
    /\ worker = [g \in Gen |-> "none"]
    /\ watch = [g \in Gen |-> 0]
    /\ slots = 0 /\ probing = 0
    /\ pc = [c \in Caller |-> "idle"]
    /\ born = [c \in Caller |-> 0]
    /\ finished = FALSE
    /\ panicked = FALSE

-----------------------------------------------------------------------------
(* Lifecycle calls.                                                         *)

MayCall(c) ==
    /\ pc[c] = "idle"
    /\ orderly => \A d \in Caller : pc[d] = "idle"

Go(c, place) == pc' = [pc EXCEPT ![c] = place]

\* Mutant: start does not look at stopped.
StartsAnyway == TRUE

\* A second start is a no-op while the runner is running.
MayStart == stopped

\* Mutant: the probe slots are created anew, like the jobs channel.
NoSlots == 0

\* start leaves the probe slots as they are.
SlotsAtStart == slots

\* start, up to the unlock.
Start(c) ==
    /\ MayCall(c)
    /\ gen < MaxGen
    /\ orderly => gen = 0 \/ finished
    /\ MayStart
    /\ gen' = gen + 1
    /\ stopped' = FALSE
    /\ finished' = FALSE
    /\ slots' = SlotsAtStart
    /\ born' = [born EXCEPT ![c] = gen + 1]
    /\ Go(c, "launch")
    /\ UNCHANGED <<orderly, cancelled, closed, queue, loopVars, probing, panicked>>

\* start, after the unlock: wg.Add(2) and two go statements.
Launch(c) ==
    /\ pc[c] = "launch"
    /\ poller' = [poller EXCEPT ![born[c]] = "sleep"]
    /\ worker' = [worker EXCEPT ![born[c]] = "loop"]
    /\ born' = [born EXCEPT ![c] = 0]
    /\ Go(c, "idle")
    /\ UNCHANGED <<orderly, stopped, gen, cancelled, closed, queue, left, watch, probeVars,
                   finished, panicked>>

\* Mutant: the context is left alone, only the channel is closed.
ClosesOnly ==
    IF stopped THEN UNCHANGED <<stopped, cancelled, closed, panicked>>
    ELSE /\ stopped' = TRUE
         /\ cancelled' = cancelled
         /\ closed' = closed \union {gen}
         /\ panicked' = (panicked \/ gen \in closed)

\* beginDrain: admission ends, the context is cancelled, the channel closed.
BeginDrain ==
    IF stopped THEN UNCHANGED <<stopped, cancelled, closed, panicked>>
    ELSE /\ stopped' = TRUE
         /\ cancelled' = cancelled \union {gen}
         /\ closed' = closed \union {gen}
         /\ panicked' = (panicked \/ gen \in closed)

\* The plugin's BeginDrain.
Drain(c) ==
    /\ MayCall(c)
    /\ ~stopped
    /\ BeginDrain
    /\ UNCHANGED <<orderly, gen, queue, loopVars, probeVars, callVars>>

\* stop drains, waits for the loops, then for the probes.
Stop(c) ==
    /\ MayCall(c)
    /\ BeginDrain
    /\ Go(c, "loops")
    /\ UNCHANGED <<orderly, gen, queue, loopVars, probeVars, born, finished>>

\* Mutant: stop does not wait for the loops.
LoopsIgnored(c) == pc[c] = "loops"

LoopsReturned(c) == pc[c] = "loops" /\ ~LoopsAlive

LoopsWaited(c) ==
    /\ LoopsReturned(c)
    /\ Go(c, "probes")
    /\ UNCHANGED <<orderly, stopped, gen, cancelled, closed, queue, loopVars, probeVars, born,
                   finished, panicked>>

ProbesWaited(c) ==
    /\ pc[c] = "probes"
    /\ probing = 0
    /\ finished' = stopped
    /\ Go(c, "idle")
    /\ UNCHANGED <<orderly, stopped, gen, cancelled, closed, queue, loopVars, probeVars, born,
                   panicked>>

-----------------------------------------------------------------------------
(* What forwarded requests hand over, from any number of goroutines.        *)

\* Mutant: admission goes on after beginDrain, once there has been a start.
AdmitsAlways == gen > 0

Admitting == ~stopped

HasRoom == queue[gen] < Buffer

\* scheduleCountTokens: a job that finds the buffer full is dropped.
Schedule ==
    /\ Admitting
    /\ HasRoom
    /\ queue' = [queue EXCEPT ![gen] = @ + 1]
    /\ panicked' = (panicked \/ gen \in closed)
    /\ UNCHANGED <<orderly, stopped, gen, cancelled, closed, loopVars, probeVars, callVars>>

\* fireRefreshProbe: a probe that finds no slot is skipped.
FireProbe ==
    /\ Admitting
    /\ slots < ProbeMax
    /\ slots' = slots + 1
    /\ probing' = probing + 1
    /\ UNCHANGED <<orderly, stopped, gen, cancelled, closed, queue, loopVars, callVars, panicked>>

\* The request of the probe ends, with an answer, its timeout or a cancelled
\* context; the deferred calls give the slot back and report the goroutine done.
ProbeEnds ==
    /\ probing > 0
    /\ probing' = probing - 1
    /\ slots' = slots - 1
    /\ UNCHANGED <<orderly, stopped, gen, cancelled, closed, queue, loopVars, callVars, panicked>>

-----------------------------------------------------------------------------
(* usagePollerLoop of generation g.                                         *)

PollerGoes(g, place) ==
    /\ poller' = [poller EXCEPT ![g] = place]
    /\ UNCHANGED <<orderly, stopped, gen, cancelled, closed, queue, worker, watch, probeVars,
                   callVars, panicked>>

\* The timer fires.  With a cancelled context select may still pick it.
RoundBegins(g) ==
    /\ poller[g] = "sleep"
    /\ \E n \in 0..AccountMax : left' = [left EXCEPT ![g] = n]
    /\ PollerGoes(g, "round")

RoundEnds(g) ==
    /\ poller[g] = "round" /\ left[g] = 0
    /\ PollerGoes(g, "sleep")
    /\ UNCHANGED left

PollBegins(g) ==
    /\ poller[g] = "round" /\ left[g] > 0
    /\ g \notin cancelled
    /\ PollerGoes(g, "polling")
    /\ UNCHANGED left

PollEnds(g) ==
    /\ poller[g] = "polling"
    /\ left' = [left EXCEPT ![g] = @ - 1]
    /\ PollerGoes(g, "round")

PollerReturns(g) ==
    /\ g \in cancelled
    /\ poller[g] = "sleep" \/ (poller[g] = "round" /\ left[g] > 0)
    /\ PollerGoes(g, "gone")
    /\ UNCHANGED left

-----------------------------------------------------------------------------
(* countTokensLoop of generation g.                                         *)

WorkerGoes(g, place) ==
    /\ worker' = [worker EXCEPT ![g] = place]
    /\ UNCHANGED <<orderly, stopped, gen, cancelled, closed, poller, left, probeVars,
                   callVars, panicked>>

\* select reads the field runner.jobs, without runner.mu.
WorkerLooks(g) ==
    /\ worker[g] = "loop"
    /\ watch' = [watch EXCEPT ![g] = gen]
    /\ WorkerGoes(g, "select")
    /\ UNCHANGED queue

\* With a cancelled context select may still pick a job.
WorkerTakes(g) ==
    /\ worker[g] = "select"
    /\ queue[watch[g]] > 0
    /\ queue' = [queue EXCEPT ![watch[g]] = @ - 1]
    /\ WorkerGoes(g, "running")
    /\ UNCHANGED watch

\* The job's request ends, or its account has left the registry.
JobEnds(g) ==
    /\ worker[g] = "running"
    /\ WorkerGoes(g, "loop")
    /\ UNCHANGED <<queue, watch>>

WorkerReturns(g) ==
    /\ worker[g] = "select"
    /\ g \in cancelled \/ (watch[g] \in closed /\ queue[watch[g]] = 0)
    /\ WorkerGoes(g, "gone")
    /\ UNCHANGED <<queue, watch>>

-----------------------------------------------------------------------------

Launches(c) == Launch(c) \/ LoopsWaited(c) \/ ProbesWaited(c)
Call(c)     == Start(c) \/ Drain(c) \/ Stop(c) \/ Launches(c)
Poller(g)   == RoundBegins(g) \/ RoundEnds(g) \/ PollBegins(g) \/ PollEnds(g) \/ PollerReturns(g)
Worker(g)   == WorkerLooks(g) \/ WorkerTakes(g) \/ JobEnds(g) \/ WorkerReturns(g)

Next ==
    \/ \E c \in Caller : Call(c)
    \/ \E g \in Gen : Poller(g) \/ Worker(g)
    \/ Schedule \/ FireProbe \/ ProbeEnds

Spec == Init /\ [][Next]_vars

\* Goroutines run, and every request they make has a timeout.  Go's select
\* chooses among ready cases at random, so a cancelled context that stays
\* ready is picked in the end: strong fairness for the two returns.
Fairness ==
    /\ \A c \in Caller : WF_vars(Launches(c))
    /\ \A g \in Gen : /\ WF_vars(RoundEnds(g)) /\ WF_vars(PollEnds(g))
                      /\ SF_vars(PollerReturns(g))
                      /\ WF_vars(WorkerLooks(g)) /\ WF_vars(JobEnds(g))
                      /\ SF_vars(WorkerReturns(g))
    /\ WF_vars(ProbeEnds)

FairSpec == Spec /\ Fairness

-----------------------------------------------------------------------------
(* Properties.                                                              *)

\* Types; no jobs channel holds more than its buffer, whoever schedules.
TypeOK ==
    /\ orderly \in BOOLEAN /\ stopped \in BOOLEAN /\ finished \in BOOLEAN
    /\ panicked \in BOOLEAN
    /\ gen \in 0..MaxGen
    /\ cancelled \subseteq Gen /\ closed \subseteq Gen
    /\ queue \in [Gen -> 0..Buffer]
    /\ poller \in [Gen -> Idle \union {"sleep", "round", "polling"}]
    /\ left \in [Gen -> 0..AccountMax]
    /\ worker \in [Gen -> Idle \union {"loop", "select", "running"}]
    /\ watch \in [Gen -> 0..MaxGen]
    /\ slots \in 0..ProbeMax /\ probing \in Nat
    /\ pc \in [Caller -> {"idle", "launch", "loops", "probes"}]
    /\ born \in [Caller -> 0..MaxGen]

\* Requests that are still being forwarded when the runner is drained never
\* make the plugin panic with a send on a closed channel, nor does a second
\* drain or a stop after a drain close a channel twice.
NeverPanics == ~panicked

\* sidecar.go, stop: it stops every sidecar.  Once stop has returned no
\* goroutine is left and all probe slots are free, until the next start.  Calls
\* have to be orderly: a stop may overtake a start that has not launched its
\* loops yet.
QuietAfterStop == orderly /\ finished => ~LoopsAlive /\ probing = 0 /\ slots = 0

\* However often the runner is drained and started again, no more than
\* probeMaxConcurrency probes are on their way at any time.
ProbesBounded == probing <= ProbeMax

\* Two loops at most serve the runner: two generations are never both alive
\* with a context that nobody has cancelled.
OneLiveGeneration ==
    \A g, h \in Gen \ cancelled :
        poller[g] \notin Idle /\ poller[h] \notin Idle => g = h

\* With orderly calls a job is taken by the loop of the start during which it was scheduled, and
\* not by one left over from before, whose context is already cancelled.
JobsStayInGeneration ==
    [][\A g \in Gen :
         orderly /\ worker[g] = "select" /\ worker'[g] = "running" => watch[g] = g]_vars

\* Orderly lifecycle calls return: a stop is not kept waiting for ever.
CallsReturn == \A c \in Caller : orderly /\ pc[c] # "idle" ~> pc[c] = "idle"
=============================================================================
