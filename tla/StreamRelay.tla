----------------------------- MODULE StreamRelay -----------------------------
(***************************************************************************)
(* handleStreamResponse in backend/internal/gateway/stream.go: a goroutine  *)
(* scans the upstream's SSE body line by line and offers every line on an   *)
(* unbuffered channel; the handler collects lines into events, writes each  *)
(* complete event to the client, then takes the usage from it.  An idle     *)
(* timer, the request's context, the client and the upstream may each end   *)
(* the relay.                                                               *)
(*                                                                          *)
(* Lines are numbered in the order the upstream sends them; an event is a   *)
(* data line, with an odd number, and the blank line that ends it.  Time    *)
(* only passes while the handler has nothing to do or, with a slow client,  *)
(* while it is writing.                                                     *)
(***************************************************************************)
EXTENDS Integers

CONSTANTS
    IdleTimeout,   \* sseIdleTimeout
    Window,        \* lines the connection buffers ahead of the scanner
    MaxLines       \* bound: lines the upstream sends

ASSUME RelayAssumption ==
    /\ IdleTimeout \in Nat \ {0}
    /\ Window \in Nat \ {0}
    /\ MaxLines \in Nat

VARIABLES
    sent,       \* lines the upstream has sent
    ending,     \* how the upstream's body goes on: open, eof, broken
    slow,       \* writing to this client may take time
    cancelled,  \* the request's context is done
    age,        \* time since idleTimer was reset, IdleTimeout once it has fired
    quiet,      \* history: time since the upstream sent a line, up to IdleTimeout
    stalled,    \* history: the upstream has once been quiet for IdleTimeout
    scan,       \* the scanner goroutine: reading, sending a line, gone
    scanned,    \* lines it has scanned
    scanErr,    \* the channel of that name: empty, or the error it holds
    handler,    \* select, writing, flushing the last event, returned
    pending,    \* lines in eventLines
    written,    \* lines the client got
    observed,   \* events the usage has been taken from
    outcome     \* none, success, aborted, idle (aborted by the idle timer)

upstreamVars == <<sent, ending>>
clientVars   == <<slow, cancelled>>
timeVars     == <<age, quiet, stalled>>
scannerVars  == <<scan, scanned, scanErr>>
handlerVars  == <<handler, pending, written, observed, outcome>>
vars == <<upstreamVars, clientVars, timeVars, scannerVars, handlerVars>>

Blank(line) == line % 2 = 0

\* Lines of n that make up events: an unfinished last one counts.
Events(n) == (n + 1) \div 2

\* The derived context: the handler cancels it when it returns.
Done == cancelled \/ handler = "returned"

Init ==
    /\ sent = 0 /\ ending = "open"
    /\ slow \in BOOLEAN /\ cancelled = FALSE
    /\ age = 0 /\ quiet = 0 /\ stalled = FALSE
    /\ scan = "reading" /\ scanned = 0 /\ scanErr = "empty"
    /\ handler = "select"
    /\ pending = 0 /\ written = 0 /\ observed = 0
    /\ outcome = "none"

-----------------------------------------------------------------------------
(* The upstream, the client's context and time.                             *)

UpstreamSends ==
    /\ ending = "open"
    /\ sent < MaxLines
    /\ sent - scanned < Window
    /\ sent' = sent + 1
    /\ quiet' = 0
    /\ UNCHANGED <<ending, clientVars, age, stalled, scannerVars, handlerVars>>

\* The body ends, or the connection breaks or a line exceeds the scanner's limit.
UpstreamEnds ==
    /\ ending = "open"
    /\ ending' \in {"eof", "broken"}
    /\ UNCHANGED <<sent, clientVars, timeVars, scannerVars, handlerVars>>

ContextDone ==
    /\ ~cancelled
    /\ handler # "returned"
    /\ cancelled' = TRUE
    /\ UNCHANGED <<upstreamVars, slow, timeVars, scannerVars, handlerVars>>

Older(t) == IF t < IdleTimeout THEN t + 1 ELSE t

\* Both goroutines wait for the upstream.
AllWait == handler = "select" /\ scan = "reading" /\ scanned = sent

Tick ==
    /\ ending = "open"
    /\ AllWait \/ (slow /\ handler \in {"writing", "flushing"})
    /\ age' = Older(age)
    /\ quiet' = Older(quiet)
    /\ stalled' = (stalled \/ quiet' = IdleTimeout)
    /\ UNCHANGED <<upstreamVars, clientVars, scannerVars, handlerVars>>

-----------------------------------------------------------------------------
(* The scanner goroutine.                                                   *)

ScanLine ==
    /\ scan = "reading"
    /\ scanned < sent
    /\ scan' = "sending"
    /\ scanned' = scanned + 1
    /\ UNCHANGED <<upstreamVars, clientVars, timeVars, scanErr, handlerVars>>

\* Mutant: scanErr is not buffered, so only a handler that has seen the
\* channel closed would take the error.
ReportsUnbuffered(err) == scanErr' = err /\ handler # "returned"

\* The goroutine leaves an error, or nil, in scanErr, then closes lines.
Reports(err) == scanErr' = err

ScanEnds ==
    /\ scan = "reading"
    /\ scanned = sent
    /\ ending = "eof"
    /\ Reports("nil")
    /\ scan' = "gone"
    /\ UNCHANGED <<upstreamVars, clientVars, timeVars, scanned, handlerVars>>

\* Reading fails: the connection broke, or the context or the body is closed.
\* Sending gives up when the context is done.
ScanFails ==
    /\ \/ scan = "reading" /\ scanned = sent /\ ending = "broken"
       \/ scan \in {"reading", "sending"} /\ Done
    /\ Reports("failed")
    /\ scan' = "gone"
    /\ UNCHANGED <<upstreamVars, clientVars, timeVars, scanned, handlerVars>>

-----------------------------------------------------------------------------
(* The handler.                                                             *)

Returns(verdict) == handler' = "returned" /\ outcome' = verdict

\* Mutant: a line does not rearm the timer.
NeverRearms == UNCHANGED age

RearmTimer == age' = 0

TakeLine ==
    /\ handler = "select"
    /\ scan = "sending"
    /\ scan' = "reading"
    /\ RearmTimer
    /\ pending' = pending + 1
    /\ handler' = IF Blank(scanned) THEN "writing" ELSE "select"
    /\ UNCHANGED <<upstreamVars, clientVars, quiet, stalled, scanned, scanErr, written,
                   observed, outcome>>

ClearLines == pending' = 0

\* writeSSEEvent succeeds, then observeSSEEvent takes the usage.
WriteEvent ==
    /\ handler \in {"writing", "flushing"}
    /\ written' = written + pending
    /\ observed' = observed + 1
    /\ ClearLines
    /\ IF handler = "flushing" THEN Returns("success")
       ELSE handler' = "select" /\ UNCHANGED outcome
    /\ UNCHANGED <<upstreamVars, clientVars, timeVars, scannerVars>>

\* Mutant: the usage is taken before the event is written.
ObservesFirst ==
    /\ handler \in {"writing", "flushing"}
    /\ \E n \in 0..(pending - 1) : written' = written + n
    /\ observed' = observed + 1
    /\ Returns("aborted")
    /\ UNCHANGED <<upstreamVars, clientVars, timeVars, scannerVars, pending>>

\* The client is gone: some lines of the event may have been written.
WriteFails ==
    /\ handler \in {"writing", "flushing"}
    /\ \E n \in 0..(pending - 1) : written' = written + n
    /\ Returns("aborted")
    /\ UNCHANGED <<upstreamVars, clientVars, timeVars, scannerVars, pending, observed>>

\* Mutant: an event without its blank line is dropped at the end.
OnlyBlankFlushes == FALSE

\* An event the body ended in is written all the same.
Unfinished == pending > 0

\* lines is closed: the handler takes what is in scanErr.
LinesClosed ==
    /\ handler = "select"
    /\ scan = "gone"
    /\ scanErr # "empty"
    /\ scanErr' = "empty"
    /\ \/ scanErr = "failed" /\ Returns("aborted")
       \/ scanErr = "nil" /\ ~Unfinished /\ Returns("success")
       \/ scanErr = "nil" /\ Unfinished /\ handler' = "flushing" /\ UNCHANGED outcome
    /\ UNCHANGED <<upstreamVars, clientVars, timeVars, scan, scanned, pending, written, observed>>

\* Mutant: nobody waits for the timer.
NeverFires == FALSE

TimerFired == age = IdleTimeout

\* select may pick the timer although a line is there, too.
IdleFires ==
    /\ handler = "select"
    /\ TimerFired
    /\ Returns("idle")
    /\ UNCHANGED <<upstreamVars, clientVars, timeVars, scannerVars, pending, written, observed>>

SeesContextDone ==
    /\ handler = "select"
    /\ cancelled
    /\ Returns("aborted")
    /\ UNCHANGED <<upstreamVars, clientVars, timeVars, scannerVars, pending, written, observed>>

-----------------------------------------------------------------------------

Scanner == ScanLine \/ ScanEnds \/ ScanFails
Handler == TakeLine \/ WriteEvent \/ WriteFails \/ LinesClosed \/ IdleFires \/ SeesContextDone
Environment == UpstreamSends \/ UpstreamEnds \/ ContextDone \/ Tick

Next == Scanner \/ Handler \/ Environment

Spec == Init /\ [][Next]_vars

\* Both goroutines run, and time passes; the upstream owes nothing.
FairSpec == Spec /\ WF_vars(Scanner) /\ WF_vars(Handler) /\ WF_vars(Tick)

-----------------------------------------------------------------------------
(* Properties.                                                              *)

\* Types; eventLines never holds more than the lines of one event.
TypeOK ==
    /\ sent \in 0..MaxLines /\ scanned \in 0..sent
    /\ ending \in {"open", "eof", "broken"}
    /\ slow \in BOOLEAN /\ cancelled \in BOOLEAN /\ stalled \in BOOLEAN
    /\ age \in 0..IdleTimeout /\ quiet \in 0..IdleTimeout
    /\ scan \in {"reading", "sending", "gone"}
    /\ scanErr \in {"empty", "nil", "failed"}
    /\ handler \in {"select", "writing", "flushing", "returned"}
    /\ pending \in 0..2
    /\ written \in 0..MaxLines /\ observed \in 0..MaxLines
    /\ outcome \in {"none", "success", "aborted", "idle"}

\* A stream reported as a success was complete: the upstream's body ended
\* regularly, the client got every line of it and every event was counted.
SuccessIsComplete ==
    outcome = "success" => ending = "eof" /\ written = sent /\ observed = Events(sent)

\* Nobody pays for what was not delivered: every event whose usage is counted
\* has been written to the client as a whole.
CountedIsDelivered == observed <= Events(written) /\ written >= 2 * observed - 1

\* stream.go, the idle timer: "upstream SSE idle timeout" is only reported of
\* an upstream that sent nothing for that long, as long as the client takes
\* every event at once.  While a write blocks, the timer runs on.
IdleMeansStalled == outcome = "idle" /\ ~slow => stalled

\* The relay ends whatever the upstream does: one that stops in the middle of
\* a stream without closing it runs into the idle timer.
StalledStreamEnds == stalled ~> handler = "returned"

\* The scanner goroutine does not outlive the request.
ScannerLeaves == handler = "returned" ~> scan = "gone"
=============================================================================
