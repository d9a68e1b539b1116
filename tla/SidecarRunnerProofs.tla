------------------------- MODULE SidecarRunnerProofs -------------------------
(***************************************************************************)
(* Proofs about SidecarRunner, for any number of callers and starts and     *)
(* every size of its buffer and of its probe slots.                         *)
(***************************************************************************)
EXTENDS SidecarRunner, TLAPS

\* What the fields of the runner say about its generations: the newest one is
\* open exactly while the runner is not stopped, all older ones are drained.
FieldsInv ==
    /\ stopped \in BOOLEAN
    /\ gen \in 0..MaxGen
    /\ closed = cancelled
    /\ cancelled \subseteq 1..gen
    /\ \A g \in 1..gen : g \in cancelled <=> (g < gen \/ stopped)
    /\ gen = 0 => stopped

\* Only generations that have been started run.
StartedInv ==
    /\ \A c \in Caller : pc[c] = "launch" => born[c] \in 1..gen
    /\ \A g \in Gen : poller[g] \notin Idle => g <= gen

RunnerInv ==
    /\ FieldsInv /\ StartedInv /\ ~panicked
    /\ poller \in [Gen -> Idle \union {"sleep", "round", "polling"}]
    /\ worker \in [Gen -> Idle \union {"loop", "select", "running"}]
    /\ pc \in [Caller -> {"idle", "launch", "loops", "probes"}]
    /\ born \in [Caller -> 0..MaxGen]

LEMMA DrainKeepsFields ==
    ASSUME FieldsInv, ~panicked, BeginDrain, UNCHANGED gen
    PROVE  FieldsInv' /\ ~panicked' /\ stopped' = TRUE
<1> USE RunnerAssumption
<1>1. CASE stopped
    BY <1>1 DEF FieldsInv, BeginDrain
<1>2. CASE ~stopped
    <2>1. gen \notin closed /\ gen \in 1..gen
        BY <1>2 DEF FieldsInv
    <2>2. ~panicked' /\ stopped' = TRUE
        BY <1>2, <2>1 DEF BeginDrain
    <2>3. closed' = cancelled' /\ cancelled' = cancelled \union {gen}
        BY <1>2 DEF FieldsInv, BeginDrain
    <2>4. QED
        BY <2>1, <2>2, <2>3 DEF FieldsInv
<1>3. QED
    BY <1>1, <1>2

LEMMA RunnerStep == RunnerInv /\ [Next]_vars => RunnerInv'
<1> SUFFICES ASSUME RunnerInv, [Next]_vars PROVE RunnerInv'
    OBVIOUS
<1> USE RunnerAssumption
<1> USE DEF RunnerInv, StartedInv, Gen, Idle, Go
<1>1. CASE UNCHANGED vars
    BY <1>1 DEF FieldsInv, vars, loopVars, callVars
<1>2. ASSUME NEW c \in Caller, Start(c) PROVE RunnerInv'
    <2>1. stopped' = FALSE /\ gen' = gen + 1 /\ gen < MaxGen
          /\ UNCHANGED <<cancelled, closed, panicked>> /\ stopped
        BY <1>2 DEF Start, MayStart
    <2>2. FieldsInv' /\ ~panicked'
        <3>1. gen \in Nat /\ gen' \in 1..MaxGen /\ cancelled' \subseteq 1..gen'
            BY <2>1 DEF FieldsInv
        <3>2. \A g \in 1..gen' : g \in cancelled' <=> g < gen'
            BY <2>1, <3>1 DEF FieldsInv
        <3>3. ~panicked' /\ closed' = cancelled'
            BY <2>1 DEF FieldsInv
        <3>4. ~stopped' /\ stopped' \in BOOLEAN
            BY <2>1
        <3>5. QED
            BY <3>1, <3>2, <3>3, <3>4 DEF FieldsInv
    <2>3. QED
        BY <1>2, <2>1, <2>2 DEF Start, loopVars, FieldsInv
<1>3. ASSUME NEW c \in Caller, Launch(c) PROVE RunnerInv'
    BY <1>3 DEF Launch, FieldsInv
<1>4. ASSUME NEW c \in Caller, Drain(c) \/ Stop(c) PROVE RunnerInv'
    <2>1. FieldsInv' /\ ~panicked'
        BY <1>4, DrainKeepsFields DEF Drain, Stop
    <2>2. QED
        BY <1>4, <2>1 DEF Drain, Stop, loopVars, callVars
<1>5. ASSUME NEW c \in Caller, LoopsWaited(c) \/ ProbesWaited(c) PROVE RunnerInv'
    <2>1. UNCHANGED <<stopped, gen, cancelled, closed, loopVars, born, panicked>>
        BY <1>5 DEF LoopsWaited, ProbesWaited
    <2>2. PICK place \in {"probes", "idle"} : Go(c, place)
        BY <1>5 DEF LoopsWaited, ProbesWaited
    <2>3. QED
        BY <2>1, <2>2 DEF loopVars, FieldsInv
<1>6. CASE Schedule
    <2>1. gen \notin closed
        BY <1>6 DEF Schedule, Admitting, FieldsInv
    <2>2. panicked' = FALSE /\ UNCHANGED <<stopped, gen, cancelled, closed, loopVars, callVars>>
        BY <1>6, <2>1 DEF Schedule
    <2>3. QED
        BY <2>2 DEF loopVars, callVars, FieldsInv
<1>7. CASE FireProbe \/ ProbeEnds
    <2>1. UNCHANGED <<stopped, gen, cancelled, closed, queue, loopVars, callVars, panicked>>
        BY <1>7 DEF FireProbe, ProbeEnds
    <2>2. QED
        BY <2>1 DEF loopVars, callVars, FieldsInv
<1>8. ASSUME NEW g \in Gen, Poller(g) PROVE RunnerInv'
    <2>1. PICK place \in {"gone", "sleep", "round", "polling"} :
            PollerGoes(g, place) /\ poller[g] \notin Idle
        BY <1>8 DEF Poller, RoundBegins, RoundEnds, PollBegins, PollEnds, PollerReturns
    <2>2. QED
        BY <2>1 DEF PollerGoes, callVars, FieldsInv
<1>9. ASSUME NEW g \in Gen, Worker(g) PROVE RunnerInv'
    <2>1. PICK place \in {"gone", "loop", "select", "running"} : WorkerGoes(g, place)
        BY <1>9 DEF Worker, WorkerLooks, WorkerTakes, JobEnds, WorkerReturns
    <2>2. QED
        BY <2>1 DEF WorkerGoes, callVars, FieldsInv
<1>10. QED
    BY <1>1, <1>2, <1>3, <1>4, <1>5, <1>6, <1>7, <1>8, <1>9 DEF Next, Call, Launches

LEMMA RunnerInit == Init => RunnerInv
<1> SUFFICES ASSUME Init PROVE RunnerInv
    OBVIOUS
<1>1. FieldsInv
    BY RunnerAssumption DEF Init, FieldsInv
<1>2. StartedInv
    BY DEF Init, StartedInv, Idle
<1>3. QED
    BY RunnerAssumption, <1>1, <1>2 DEF Init, RunnerInv, Idle

\* sidecar.go, scheduleCountTokens and beginDrain: no forwarded request, no
\* drain and no stop, in whatever order, sends on or closes a closed channel.
THEOREM NoPanic == Spec => []NeverPanics
<1>1. RunnerInv => NeverPanics
    BY DEF RunnerInv, NeverPanics
<1>2. QED
    BY <1>1, RunnerInit, RunnerStep, PTL DEF Spec

\* sidecar.go, start: however many callers start, drain and stop the runner,
\* two polling loops with a context nobody has cancelled never coexist.
THEOREM OneGeneration == Spec => []OneLiveGeneration
<1>1. RunnerInv => OneLiveGeneration
    BY RunnerAssumption DEF RunnerInv, FieldsInv, StartedInv, OneLiveGeneration, Gen
<1>2. QED
    BY <1>1, RunnerInit, RunnerStep, PTL DEF Spec

-----------------------------------------------------------------------------
(* Types, the buffers of the channels and the probe slots.                  *)

FlagsInv ==
    /\ orderly \in BOOLEAN /\ stopped \in BOOLEAN /\ finished \in BOOLEAN
    /\ panicked \in BOOLEAN

DataInv ==
    /\ queue \in [Gen -> 0..Buffer]
    /\ left \in [Gen -> 0..AccountMax]
    /\ watch \in [Gen -> 0..MaxGen]
    /\ slots \in 0..ProbeMax /\ probing = slots
    /\ \A g \in Gen : /\ worker[g] # "none" => gen \in Gen
                      /\ worker[g] = "select" => watch[g] \in Gen
                      /\ poller[g] = "polling" => left[g] > 0

LEMMA FlagsStep == FlagsInv /\ [Next]_vars => FlagsInv'
<1> SUFFICES ASSUME FlagsInv, [Next]_vars PROVE FlagsInv'
    OBVIOUS
<1> USE DEF FlagsInv
<1>1. CASE UNCHANGED vars
    BY <1>1 DEF vars, callVars
<1>2. ASSUME NEW c \in Caller, Call(c) PROVE FlagsInv'
    BY <1>2, Zenon DEF Call, Launches, Start, Launch, Drain, Stop, BeginDrain, LoopsWaited,
       ProbesWaited, callVars
<1>3. ASSUME NEW g \in Gen, Poller(g) \/ Worker(g) PROVE FlagsInv'
    BY <1>3, Zenon DEF Poller, RoundBegins, RoundEnds, PollBegins, PollEnds, PollerReturns,
       PollerGoes, Worker, WorkerLooks, WorkerTakes, JobEnds, WorkerReturns, WorkerGoes, callVars
<1>4. CASE Schedule \/ FireProbe \/ ProbeEnds
    BY <1>4, Zenon DEF Schedule, FireProbe, ProbeEnds, callVars
<1>5. QED
    BY <1>1, <1>2, <1>3, <1>4 DEF Next

LEMMA DataStep == RunnerInv /\ DataInv /\ [Next]_vars => DataInv'
<1> SUFFICES ASSUME RunnerInv, DataInv, [Next]_vars PROVE DataInv'
    OBVIOUS
<1> USE RunnerAssumption
<1> USE DEF RunnerInv, FieldsInv, DataInv, Gen
<1>1. CASE UNCHANGED vars
    BY <1>1 DEF vars, loopVars, probeVars, callVars
<1>2. ASSUME NEW c \in Caller, Start(c) PROVE DataInv'
    BY <1>2 DEF Start, SlotsAtStart, loopVars
<1>3. ASSUME NEW c \in Caller, Launch(c) PROVE DataInv'
    BY <1>3 DEF Launch, StartedInv, probeVars
<1>4. ASSUME NEW c \in Caller, Drain(c) \/ Stop(c) PROVE DataInv'
    BY <1>4 DEF Drain, Stop, loopVars, probeVars, callVars
<1>5. ASSUME NEW c \in Caller, LoopsWaited(c) \/ ProbesWaited(c) PROVE DataInv'
    BY <1>5 DEF LoopsWaited, ProbesWaited, loopVars, probeVars
<1>6. CASE Schedule
    <2>4. gen \in Gen
        BY <1>6 DEF Schedule, Admitting
    <2>1. queue[gen] \in 0..Buffer /\ queue[gen] < Buffer
        BY <1>6, <2>4 DEF Schedule, HasRoom
    <2>2. queue' \in [Gen -> 0..Buffer]
        BY <1>6, <2>1, <2>4 DEF Schedule
    <2>3. QED
        BY <1>6, <2>2 DEF Schedule, loopVars, probeVars, callVars
<1>7. CASE FireProbe \/ ProbeEnds
    BY <1>7 DEF FireProbe, ProbeEnds, loopVars, callVars
<1>8. ASSUME NEW g \in Gen, Poller(g) PROVE DataInv'
    <2>1. CASE RoundBegins(g)
        BY <2>1 DEF RoundBegins, PollerGoes, probeVars, callVars
    <2>2. CASE RoundEnds(g) \/ PollerReturns(g)
        BY <2>2 DEF RoundEnds, PollerReturns, PollerGoes, probeVars, callVars
    <2>3. CASE PollBegins(g)
        BY <2>3, SMTT(30) DEF PollBegins, PollerGoes, probeVars, callVars
    <2>4. CASE PollEnds(g)
        BY <2>4, SMTT(30) DEF PollEnds, PollerGoes, probeVars, callVars
    <2>5. QED
        BY <1>8, <2>1, <2>2, <2>3, <2>4 DEF Poller
<1>9. ASSUME NEW g \in Gen, Worker(g) PROVE DataInv'
    <2>1. CASE WorkerLooks(g)
        <3>1. gen \in Gen
            BY <2>1 DEF WorkerLooks
        <3>2. QED
            BY <2>1, <3>1 DEF WorkerLooks, WorkerGoes, probeVars, callVars
    <2>2. CASE WorkerTakes(g)
        <3>1. watch[g] \in Gen /\ queue[watch[g]] \in 0..Buffer /\ queue[watch[g]] > 0
            BY <2>2 DEF WorkerTakes
        <3>2. queue' \in [Gen -> 0..Buffer]
            BY <2>2, <3>1 DEF WorkerTakes
        <3>3. QED
            BY <2>2, <3>2 DEF WorkerTakes, WorkerGoes, probeVars, callVars
    <2>3. CASE JobEnds(g) \/ WorkerReturns(g)
        BY <2>3 DEF JobEnds, WorkerReturns, WorkerGoes, probeVars, callVars, Idle
    <2>4. QED
        BY <1>9, <2>1, <2>2, <2>3 DEF Worker
<1>10. QED
    BY <1>1, <1>2, <1>3, <1>4, <1>5, <1>6, <1>7, <1>8, <1>9 DEF Next, Call, Launches

LEMMA DataInit == Init => DataInv
BY RunnerAssumption DEF Init, DataInv

\* Every variable keeps its type: whoever schedules jobs, and however often the
\* runner is started, no jobs channel holds more than its buffer.
THEOREM RunnerTypes == Spec => []TypeOK
<1>1. RunnerInv /\ DataInv /\ FlagsInv => TypeOK
    <2> SUFFICES ASSUME RunnerInv, DataInv, FlagsInv PROVE TypeOK
        OBVIOUS
    <2>2. gen \in 0..MaxGen /\ cancelled \subseteq Gen /\ closed \subseteq Gen
        BY RunnerAssumption DEF RunnerInv, FieldsInv, Gen
    <2>3. slots \in 0..ProbeMax /\ probing \in Nat
        BY RunnerAssumption DEF DataInv
    <2>4. QED
        BY <2>2, <2>3, Zenon DEF TypeOK, RunnerInv, DataInv, FlagsInv
<1>3. Init => FlagsInv
    BY Zenon DEF Init, FlagsInv
<1>2. QED
    BY <1>1, <1>3, FlagsStep, RunnerInit, RunnerStep, DataInit, DataStep, PTL DEF Spec

\* sidecar.go, fireRefreshProbe: the slots outlive the generations, so that
\* drained and restarted runners together keep to probeMaxConcurrency.
THEOREM FewProbes == Spec => []ProbesBounded
<1>1. DataInv => ProbesBounded
    BY RunnerAssumption DEF DataInv, ProbesBounded
<1>2. QED
    BY <1>1, RunnerInit, RunnerStep, DataInit, DataStep, PTL DEF Spec

-----------------------------------------------------------------------------
(* What stop leaves behind, when Core's lifecycle calls are orderly.         *)

\* One call at a time, and what it may rely on.
CallInv ==
    /\ finished => stopped /\ ~LoopsAlive /\ probing = 0
    /\ \A c, d \in Caller : pc[c] # "idle" /\ pc[d] # "idle" => c = d
    /\ \A c \in Caller :
         /\ pc[c] = "launch" => ~finished
         /\ pc[c] \in {"loops", "probes"} => stopped
         /\ pc[c] = "probes" => ~LoopsAlive

QuietInv ==
    /\ slots = probing /\ probing \in Nat
    /\ orderly => CallInv

LEMMA QuietStep ==
    ASSUME RunnerInv, QuietInv, [Next]_vars
    PROVE  QuietInv'
<1> USE RunnerAssumption
<1> USE DEF RunnerInv, QuietInv, CallInv, MayCall, Go, LoopsAlive
<1>1. CASE UNCHANGED vars
    BY <1>1 DEF vars, loopVars, probeVars, callVars
<1>2. ASSUME NEW c \in Caller, Start(c) PROVE QuietInv'
    BY <1>2 DEF Start, SlotsAtStart
<1>3. ASSUME NEW c \in Caller, Launch(c) PROVE QuietInv'
    BY <1>3 DEF Launch, probeVars
<1>4. ASSUME NEW c \in Caller, Drain(c) \/ Stop(c) PROVE QuietInv'
    <2>1. stopped' = TRUE
        BY <1>4, DrainKeepsFields DEF Drain, Stop
    <2>2. QED
        BY <1>4, <2>1 DEF Drain, Stop, loopVars, probeVars, callVars
<1>5. ASSUME NEW c \in Caller, LoopsWaited(c) \/ ProbesWaited(c) PROVE QuietInv'
    BY <1>5 DEF LoopsWaited, LoopsReturned, ProbesWaited, loopVars, probeVars
<1>6. CASE Schedule
    BY <1>6 DEF Schedule, loopVars, probeVars, callVars
<1>7. CASE FireProbe \/ ProbeEnds
    BY <1>7 DEF FireProbe, Admitting, ProbeEnds, loopVars, callVars
<1>8. ASSUME NEW g \in Gen, Poller(g) PROVE QuietInv'
    <2>1. PICK place : PollerGoes(g, place) /\ poller[g] \notin Idle
        BY <1>8
        DEF Poller, RoundBegins, RoundEnds, PollBegins, PollEnds, PollerReturns, Idle
    <2>2. LoopsAlive
        BY <2>1
    <2>3. QED
        BY <2>1, <2>2 DEF PollerGoes, probeVars, callVars
<1>9. ASSUME NEW g \in Gen, Worker(g) PROVE QuietInv'
    <2>1. PICK place : WorkerGoes(g, place) /\ worker[g] \notin Idle
        BY <1>9 DEF Worker, WorkerLooks, WorkerTakes, JobEnds, WorkerReturns, Idle
    <2>2. LoopsAlive
        BY <2>1
    <2>3. QED
        BY <2>1, <2>2 DEF WorkerGoes, probeVars, callVars
<1>10. QED
    BY <1>1, <1>2, <1>3, <1>4, <1>5, <1>6, <1>7, <1>8, <1>9 DEF Next, Call, Launches

\* sidecar.go, stop: however many generations there have been, while Core's
\* lifecycle calls are orderly nothing of the runner is left when stop has returned.
THEOREM StopLeavesNothing == Spec => []QuietAfterStop
<1>1. Init => QuietInv
    BY DEF Init, QuietInv, CallInv
<1>2. RunnerInv /\ QuietInv /\ [Next]_vars => QuietInv'
    BY QuietStep
<1>3. QuietInv => QuietAfterStop
    BY DEF QuietInv, CallInv, QuietAfterStop
<1>4. QED
    BY <1>1, <1>2, <1>3, RunnerInit, RunnerStep, PTL DEF Spec

-----------------------------------------------------------------------------
(* Which jobs a loop may take, when Core's lifecycle calls are orderly.     *)

\* A worker runs for the newest start only: the one before it has returned.  So
\* the field it read, runner.jobs, is the channel of its own generation.
GenerationInv ==
    orderly => /\ \A c \in Caller : pc[c] = "launch" => born[c] = gen
               /\ \A g \in Gen : worker[g] \notin Idle => g = gen
               /\ \A g \in Gen : worker[g] = "select" => watch[g] = g

LEMMA GenerationStep ==
    ASSUME RunnerInv, DataInv, QuietInv, GenerationInv, [Next]_vars
    PROVE  GenerationInv'
<1> USE DEF RunnerInv, GenerationInv
<1>1. CASE UNCHANGED vars
    BY <1>1 DEF vars, loopVars, callVars
<1>2. ASSUME NEW c \in Caller, Start(c) PROVE GenerationInv'
    <2>1. UNCHANGED <<orderly, worker, watch>>
        BY <1>2 DEF Start, loopVars
    <2>2. SUFFICES ASSUME orderly PROVE GenerationInv'
        BY <2>1
    <2>3. \A g \in Gen : worker[g] \in Idle
        <3>1. CASE finished
            BY <2>2, <3>1 DEF QuietInv, CallInv, LoopsAlive
        <3>2. CASE gen = 0
            BY <3>2 DEF DataInv, Gen, Idle
        <3>3. QED
            BY <1>2, <2>2, <3>1, <3>2 DEF Start
    <2>4. \A d \in Caller : pc'[d] = "launch" => d = c /\ born'[d] = gen'
        <3>1. \A d \in Caller : pc[d] = "idle"
            BY <1>2, <2>2 DEF Start, MayCall
        <3>2. QED
            BY <1>2, <3>1 DEF Start, Go
    <2>5. QED
        BY <2>1, <2>3, <2>4 DEF Idle
<1>3. ASSUME NEW c \in Caller, Launch(c) PROVE GenerationInv'
    BY <1>3 DEF Launch, Go, Idle
<1>4. ASSUME NEW c \in Caller, Drain(c) \/ Stop(c) PROVE GenerationInv'
    BY <1>4 DEF Drain, Stop, Go, loopVars, callVars
<1>5. ASSUME NEW c \in Caller, LoopsWaited(c) \/ ProbesWaited(c) PROVE GenerationInv'
    BY <1>5 DEF LoopsWaited, ProbesWaited, Go, loopVars
<1>6. CASE Schedule \/ FireProbe \/ ProbeEnds
    BY <1>6 DEF Schedule, FireProbe, ProbeEnds, loopVars, callVars
<1>7. ASSUME NEW g \in Gen, Poller(g) PROVE GenerationInv'
    <2>1. PICK place : PollerGoes(g, place)
        BY <1>7 DEF Poller, RoundBegins, RoundEnds, PollBegins, PollEnds, PollerReturns
    <2>2. QED
        BY <2>1 DEF PollerGoes, callVars
<1>8. ASSUME NEW g \in Gen, Worker(g) PROVE GenerationInv'
    <2>1. CASE WorkerLooks(g)
        BY <2>1 DEF WorkerLooks, WorkerGoes, callVars, Idle, DataInv
    <2>2. CASE WorkerTakes(g) \/ JobEnds(g) \/ WorkerReturns(g)
        BY <2>2 DEF WorkerTakes, JobEnds, WorkerReturns, WorkerGoes, callVars, Idle
    <2>3. QED
        BY <1>8, <2>1, <2>2 DEF Worker
<1>9. QED
    BY <1>1, <1>2, <1>3, <1>4, <1>5, <1>6, <1>7, <1>8 DEF Next, Call, Launches

\* sidecar.go, countTokensLoop reads runner.jobs anew for every select, without
\* runner.mu: while Core's lifecycle calls are orderly no loop ever takes a job
\* that was scheduled during another start than its own.
THEOREM OwnJobs == Spec => JobsStayInGeneration
<1>1. Init => QuietInv /\ GenerationInv
    BY DEF Init, QuietInv, CallInv, GenerationInv, Idle
<1>2. GenerationInv =>
        [\A g \in Gen :
            orderly /\ worker[g] = "select" /\ worker'[g] = "running" => watch[g] = g]_vars
    BY DEF GenerationInv
<1>3. RunnerInv /\ QuietInv /\ [Next]_vars => QuietInv'
    BY QuietStep
<1>4. RunnerInv /\ DataInv /\ QuietInv /\ GenerationInv /\ [Next]_vars => GenerationInv'
    BY GenerationStep
<1>5. QED
    BY <1>1, <1>2, <1>3, <1>4, RunnerInit, RunnerStep, DataInit, DataStep, PTL
    DEF Spec, JobsStayInGeneration
=============================================================================
