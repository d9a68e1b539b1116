------------------------- MODULE MeteredStreamProofs -------------------------
(***************************************************************************)
(* Theorems about StreamRelay for every timeout, window and number of       *)
(* lines, and that MeteredStream, which the runs check, implements it, so   *)
(* that they hold of its behaviours, too.                                   *)
(***************************************************************************)
EXTENDS MeteredStream, SequenceTheorems, TLAPS

USE RelayAssumption

-----------------------------------------------------------------------------
(* Arithmetic.                                                              *)

\* The second line of an event is the blank one.
LEMMA BlankLines == \A n \in Nat : Blank(2 * n + 2) /\ ~Blank(2 * n + 1)
BY DEF Blank

\* n events are 2 * n lines, or one less when the last is unfinished.
LEMMA EventsOfLines ==
    \A n \in Nat : Events(2 * n) = n /\ Events(2 * n + 1) = n + 1 /\ Events(2 * n + 2) = n + 1
BY DEF Events

-----------------------------------------------------------------------------
(* Types.                                                                   *)

\* The conjuncts of TypeOK that a step cannot disturb except by an assignment of
\* its own, with bounds that do not depend on other variables.
ScalarsOK ==
    /\ sent \in Nat /\ sent <= MaxLines /\ scanned \in Nat /\ scanned <= sent
    /\ age \in 0..IdleTimeout /\ quiet \in 0..IdleTimeout
    /\ pending \in 0..2 /\ written \in Nat /\ observed \in Nat
    /\ ending \in {"open", "eof", "broken"}
    /\ scan \in {"reading", "sending", "gone"}
    /\ scanErr \in {"empty", "nil", "failed"}
    /\ handler \in {"select", "writing", "flushing", "returned"}
    /\ outcome \in {"none", "success", "aborted", "idle"}

FlagsOK == slow \in BOOLEAN /\ cancelled \in BOOLEAN /\ stalled \in BOOLEAN

\* Where the lines are while the handler runs: written to the client, collected
\* in eventLines, in the scanner's hand (or dropped by it), or not scanned yet.
LinesInv ==
    /\ handler # "returned" =>
         /\ written = 2 * observed
         /\ outcome = "none"
         /\ scan = "reading" => scanned = written + pending
         /\ scan = "sending" => scanned = written + pending + 1
         /\ scan = "gone" => scanned \in {written + pending, written + pending + 1}
         /\ scanErr = "nil" => scanned = written + pending
    /\ handler = "select" => pending \in {0, 1}
    /\ handler = "writing" => pending = 2
    /\ handler = "flushing" =>
         pending = 1 /\ ending = "eof" /\ scanned = written + 1 /\ scanned = sent
    /\ scanErr # "empty" => scan = "gone"
    /\ scanErr = "nil" => ending = "eof" /\ scanned = sent

\* What the client got when the handler has returned.
EndInv ==
    handler = "returned" =>
        /\ written \in {2 * observed, 2 * observed + 1, 2 * observed - 1}
        /\ written <= sent
        /\ outcome = "success" =>
             /\ ending = "eof" /\ written = sent
             /\ written \in {2 * observed, 2 * observed - 1}

Inv == ScalarsOK /\ LinesInv /\ EndInv

LEMMA FlagsTypes == Spec => []FlagsOK
<1>1. Init => FlagsOK
  BY DEF Init, FlagsOK
<1>2. FlagsOK /\ [Next]_vars => FlagsOK'
  <2> SUFFICES ASSUME FlagsOK, [Next]_vars PROVE FlagsOK'
    OBVIOUS
  <2>1. slow' = slow
    BY DEF Next, Scanner, Handler, Environment, ScanLine, ScanEnds, ScanFails, TakeLine,
           WriteEvent, WriteFails, LinesClosed, IdleFires, SeesContextDone, UpstreamSends,
           UpstreamEnds, ContextDone, Tick, vars, clientVars
  <2>2. cancelled' \in BOOLEAN
    BY DEF Next, Scanner, Handler, Environment, ScanLine, ScanEnds, ScanFails, TakeLine,
           WriteEvent, WriteFails, LinesClosed, IdleFires, SeesContextDone, UpstreamSends,
           UpstreamEnds, ContextDone, Tick, vars, clientVars, FlagsOK
  <2>3. stalled' \in BOOLEAN
    BY DEF Next, Scanner, Handler, Environment, ScanLine, ScanEnds, ScanFails, TakeLine,
           WriteEvent, WriteFails, LinesClosed, IdleFires, SeesContextDone, UpstreamSends,
           UpstreamEnds, ContextDone, Tick, vars, timeVars, FlagsOK
  <2> QED BY <2>1, <2>2, <2>3 DEF FlagsOK
<1> QED BY <1>1, <1>2, PTL DEF Spec

LEMMA InvInit == Init => Inv
BY DEF Init, Inv, ScalarsOK, LinesInv, EndInv

LEMMA InvStep == Inv /\ [Next]_vars => Inv'
<1> SUFFICES ASSUME Inv, [Next]_vars PROVE Inv'
  OBVIOUS
<1> USE DEF Inv, ScalarsOK, LinesInv, EndInv, upstreamVars, clientVars, timeVars, scannerVars,
            handlerVars
<1>1. CASE ScanLine
  BY <1>1 DEF ScanLine
<1>2. CASE ScanEnds
  BY <1>2 DEF ScanEnds, Reports
<1>3. CASE ScanFails
  BY <1>3 DEF ScanFails, Reports
<1>4. CASE TakeLine
  <2>1. Blank(scanned) <=> pending = 1
    BY <1>4, BlankLines DEF TakeLine
  <2>2. pending' = pending + 1 /\ age' = 0 /\ scan' = "reading"
    BY <1>4 DEF TakeLine, RearmTimer
  <2>3. handler' = IF pending = 1 THEN "writing" ELSE "select"
    BY <1>4, <2>1 DEF TakeLine
  <2> QED BY <1>4, <2>2, <2>3 DEF TakeLine
<1>5. CASE WriteEvent
  <2>1. CASE handler = "writing"
    BY <1>5, <2>1 DEF WriteEvent, ClearLines, Returns
  <2>2. CASE handler = "flushing"
    BY <1>5, <2>2 DEF WriteEvent, ClearLines, Returns
  <2> QED BY <1>5, <2>1, <2>2 DEF WriteEvent
<1>6. CASE WriteFails
  <2>1. PICK n \in 0..(pending - 1) : written' = written + n
    BY <1>6 DEF WriteFails
  <2>2. written + n <= scanned
    BY <1>6, <2>1 DEF WriteFails
  <2> QED BY <1>6, <2>1, <2>2 DEF WriteFails, Returns
<1>7. CASE LinesClosed
  BY <1>7 DEF LinesClosed, Returns, Unfinished
<1>8. CASE IdleFires
  BY <1>8 DEF IdleFires, Returns
<1>9. CASE SeesContextDone
  BY <1>9 DEF SeesContextDone, Returns
<1>10. CASE UpstreamSends
  BY <1>10 DEF UpstreamSends
<1>11. CASE UpstreamEnds
  BY <1>11 DEF UpstreamEnds
<1>12. CASE ContextDone
  BY <1>12 DEF ContextDone
<1>13. CASE Tick
  BY <1>13 DEF Tick, Older
<1>14. CASE UNCHANGED vars
  BY <1>14 DEF vars
<1> QED BY <1>1, <1>2, <1>3, <1>4, <1>5, <1>6, <1>7, <1>8, <1>9, <1>10, <1>11, <1>12, <1>13, <1>14
        DEF Next, Scanner, Handler, Environment

LEMMA Invariance == Spec => []Inv
BY InvInit, InvStep, PTL DEF Spec

\* eventLines never holds more than the lines of one event, and the client never
\* gets a line the upstream did not send.
THEOREM RelayTypes == Spec => []TypeOK
<1>1. Inv /\ FlagsOK => TypeOK
  <2> SUFFICES ASSUME Inv, FlagsOK PROVE TypeOK
    OBVIOUS
  <2>1. written <= sent /\ observed <= sent
    BY DEF Inv, ScalarsOK, LinesInv, EndInv
  <2> QED BY <2>1 DEF Inv, ScalarsOK, FlagsOK, TypeOK
<1> QED BY <1>1, Invariance, FlagsTypes, PTL

\* stream.go, the two ways to a success: the body ended regularly, every line of
\* it was written and every event counted, an unfinished last one included.
THEOREM SuccessesAreComplete == Spec => []SuccessIsComplete
<1>1. Inv => SuccessIsComplete
  BY EventsOfLines DEF Inv, ScalarsOK, LinesInv, EndInv, SuccessIsComplete, Events
<1> QED BY <1>1, Invariance, PTL

\* stream.go, writeSSEEvent before observeSSEEvent: what is counted was delivered.
THEOREM CountsAreDelivered == Spec => []CountedIsDelivered
<1>1. Inv => CountedIsDelivered
  BY DEF Inv, ScalarsOK, LinesInv, EndInv, CountedIsDelivered, Events
<1> QED BY <1>1, Invariance, PTL

-----------------------------------------------------------------------------
(* The idle timer.                                                          *)

\* With a client that takes every event at once, the timer is never ahead of the
\* upstream's own silence while nothing is under way, and time only passes then.
SilenceInv ==
    ~slow =>
        /\ scan = "reading" /\ scanned = sent => age <= quiet
        /\ age = IdleTimeout => stalled
        /\ outcome = "idle" => stalled

LEMMA SilenceStep == Inv /\ SilenceInv /\ [Next]_vars => SilenceInv'
<1> SUFFICES ASSUME Inv, SilenceInv, [Next]_vars, ~slow' PROVE SilenceInv'
  BY DEF SilenceInv
<1> USE DEF SilenceInv, upstreamVars, clientVars, timeVars, scannerVars, handlerVars
<1>0. ~slow /\ Inv
  BY DEF Next, Scanner, Handler, Environment, ScanLine, ScanEnds, ScanFails, TakeLine,
         WriteEvent, WriteFails, LinesClosed, IdleFires, SeesContextDone, UpstreamSends,
         UpstreamEnds, ContextDone, Tick, vars
<1> USE <1>0 DEF Inv, ScalarsOK
<1>1. CASE ScanLine
  BY <1>1 DEF ScanLine
<1>2. CASE ScanEnds
  BY <1>2 DEF ScanEnds, Reports
<1>3. CASE ScanFails
  BY <1>3 DEF ScanFails, Reports
<1>4. CASE TakeLine
  BY <1>4 DEF TakeLine, RearmTimer
<1>5. CASE WriteEvent
  BY <1>5 DEF WriteEvent, ClearLines, Returns
<1>6. CASE WriteFails
  BY <1>6 DEF WriteFails, Returns
<1>7. CASE LinesClosed
  BY <1>7 DEF LinesClosed, Returns
<1>8. CASE IdleFires
  BY <1>8 DEF IdleFires, Returns, TimerFired
<1>9. CASE SeesContextDone
  BY <1>9 DEF SeesContextDone, Returns
<1>10. CASE UpstreamSends
  BY <1>10 DEF UpstreamSends
<1>11. CASE UpstreamEnds
  BY <1>11 DEF UpstreamEnds
<1>12. CASE ContextDone
  BY <1>12 DEF ContextDone
<1>13. CASE Tick
  <2>1. scan = "reading" /\ scanned = sent
    BY <1>13 DEF Tick, AllWait
  <2>2. age' <= quiet' /\ age' \in 0..IdleTimeout /\ quiet' \in 0..IdleTimeout
    BY <1>13, <2>1 DEF Tick, Older
  <2>3. quiet' = IdleTimeout => stalled'
    BY <1>13 DEF Tick
  <2>4. stalled => stalled'
    BY <1>13 DEF Tick
  <2>5. age' = IdleTimeout => quiet' = IdleTimeout
    BY <2>2
  <2>6. outcome' = outcome
    BY <1>13 DEF Tick
  <2> QED BY <2>2, <2>3, <2>4, <2>5, <2>6
<1>14. CASE UNCHANGED vars
  BY <1>14 DEF vars
<1> QED BY <1>1, <1>2, <1>3, <1>4, <1>5, <1>6, <1>7, <1>8, <1>9, <1>10, <1>11, <1>12, <1>13, <1>14
        DEF Next, Scanner, Handler, Environment

\* stream.go, "upstream SSE idle timeout": an upstream whose client is prompt is
\* only blamed for a silence of the whole timeout.
THEOREM OnlyStalledIsBlamed == Spec => []IdleMeansStalled
<1>1. Init => SilenceInv
  BY DEF Init, SilenceInv
<1>2. SilenceInv => IdleMeansStalled
  BY DEF SilenceInv, IdleMeansStalled
<1> QED BY <1>1, <1>2, SilenceStep, Invariance, PTL DEF Spec

-----------------------------------------------------------------------------
(* MeteredStream.                                                           *)

\* Taking the usage from events adds nothing to the relay and holds nothing up:
\* every behaviour of MeteredStream is one of StreamRelay.
THEOREM MeteringIsPassive == MeteredSpec => Spec
<1>1. MeteredInit => Init
  BY DEF MeteredInit
<1>2. [MeteredNext]_allVars => [Next]_vars
  <2>1. MeteredNext => Next
    BY DEF MeteredNext, MeteredScanner, MeteredHandler, MeteredTick, WriteAndObserve, Relays,
           UpstreamReports, Next, Handler, Environment
  <2>2. UNCHANGED allVars => UNCHANGED vars
    BY DEF allVars
  <2> QED BY <2>1, <2>2
<1> QED BY <1>1, <1>2, PTL DEF MeteredSpec, Spec

-----------------------------------------------------------------------------
(* The counts: a CHOOSE that finds the highest one.                         *)

USE UsageAssumption

Counts(es, n, k) == {0} \union {Value(es[i].node, k) : i \in 1..n}
IsTop(c, S)      == c \in S /\ \A d \in S : d <= c
Top(S)           == CHOOSE c \in S : \A d \in S : d <= c

LEMMA CountedIsTop == \A n, k : Counted(n, k) = Top(Counts(events, n, k))
BY DEF Counted, Top, Counts

LEMMA TopFound ==
    ASSUME NEW S \in SUBSET Nat, NEW c, IsTop(c, S)
    PROVE  Top(S) = c /\ IsTop(Top(S), S)
<1>1. Top(S) \in S /\ \A d \in S : d <= Top(S)
  BY DEF Top, IsTop
<1>2. c \in S /\ Top(S) <= c /\ c <= Top(S) /\ c \in Nat /\ Top(S) \in Nat
  BY <1>1 DEF IsTop
<1> QED BY <1>1, <1>2 DEF IsTop

\* A usage object of the upstream.
Node == {<<>>} \union StartUsage \union DeltaUsage

LEMMA NodeValues ==
    ASSUME NEW node \in Node
    PROVE  /\ DOMAIN node \subseteq Keys
           /\ \A k : Value(node, k) \in Nat
           /\ node = <<>> => \A k : Value(node, k) = 0
<1>1. CASE node = <<>>
  BY <1>1 DEF Value
<1>2. CASE node \in StartUsage \union DeltaUsage
  <2>1. DOMAIN node \subseteq Keys /\ \A k \in DOMAIN node : node[k] \in Nat
    BY <1>2 DEF UsageAssumption
  <2> QED BY <1>1, <2>1 DEF Value
<1> QED BY <1>1, <1>2 DEF Node

LEMMA EventNodes ==
    ASSUME NEW e \in Event
    PROVE  /\ e.node \in Node
           /\ e.type \in {"start", "delta", "other"}
           /\ e.type = "start" => e.node \in StartUsage
           /\ e.type = "delta" => e.node \in DeltaUsage
           /\ e.type = "other" => e.node = <<>>
BY DEF Event, Node

\* One more event: its count is the highest, or the highest so far is.
LEMMA NextTop ==
    ASSUME NEW es \in Seq(Event), NEW n \in Nat, n < Len(es), NEW k, NEW c,
           IsTop(c, Counts(es, n, k))
    PROVE  LET v == Value(es[n + 1].node, k)
               d == IF v > c THEN v ELSE c
           IN  c \in Nat /\ v \in Nat /\ Top(Counts(es, n + 1, k)) = d
               /\ IsTop(d, Counts(es, n + 1, k))
<1> DEFINE v == Value(es[n + 1].node, k)
           d == IF v > c THEN v ELSE c
<1>1. \A i \in 1..(n + 1) : Value(es[i].node, k) \in Nat
  <2> SUFFICES ASSUME NEW i \in 1..(n + 1) PROVE Value(es[i].node, k) \in Nat
    OBVIOUS
  <2>1. es[i] \in Event
    BY ElementOfSeq
  <2> QED BY <2>1, EventNodes, NodeValues
<1>2. Counts(es, n + 1, k) = Counts(es, n, k) \union {v}
  <2>1. 1..(n + 1) = (1..n) \union {n + 1}
    OBVIOUS
  <2> QED BY <2>1 DEF Counts
<1>3. Counts(es, n + 1, k) \in SUBSET Nat
  BY <1>1 DEF Counts
<1>4. v \in Nat /\ c \in Nat
  BY <1>1, <1>2, <1>3 DEF IsTop
<1> HIDE DEF v
<1>5. IsTop(d, Counts(es, n + 1, k))
  <2>1. d \in Counts(es, n + 1, k)
    BY <1>2 DEF IsTop
  <2>2. \A x \in Counts(es, n, k) : x <= d
    BY <1>2, <1>3, <1>4 DEF IsTop
  <2>3. v <= d
    BY <1>4
  <2> QED BY <1>2, <2>1, <2>2, <2>3 DEF IsTop
<1> QED BY <1>3, <1>4, <1>5, TopFound DEF v

-----------------------------------------------------------------------------
(* What the upstream reports, and what the handler makes of it.             *)

\* The upstream reports one start before every delta, and counts that grow.
ReportsInv ==
    /\ events \in Seq(Event) /\ Len(events) = Events(sent)
    /\ \A i \in 1..Len(events) :
         events[i].type = "start" => \A j \in 1..(i - 1) : events[j].type = "other"
    /\ \A n \in 0..Len(events), k \in Keys : IsTop(Counted(n, k), Counts(events, n, k))
    /\ \A i \in 1..Len(events), k \in Keys :
         Value(events[i].node, k) = 0 \/ Value(events[i].node, k) >= Counted(i - 1, k)

\* The token counts t are those of a prefix with the highest counts c: a total
\* of the parts stands in for one the upstream has not named.
Metered(t, c) ==
    /\ t \in Tokens
    /\ \A m \in {"input", "output", "five", "hour"} : t[m] = c[m]
    /\ t["read"] = IF c["read"] > 0 THEN c["read"] ELSE c["cached"]
    /\ c["creation"] > 0 => t["creation"] = c["creation"]
    /\ c["creation"] = 0 => t["creation"] <= c["five"] + c["hour"]

MeterInv ==
    /\ observed <= Len(events)
    /\ Metered(tokens, [k \in Keys |-> Counted(observed, k)])
    /\ usage = tokens
    /\ named <=> \E i \in 1..observed : events[i].type = "start"
    /\ cost = IF outcome = "success" /\ named THEN Billed(usage) ELSE NoCost

\* message_delta does not report cached_tokens, the old name of cache_read, alone.
OldNameAtStart ==
    \A node \in DeltaUsage : Value(node, "cached") > 0 => Value(node, "read") > 0

LEMMA UpstreamKeepsOrder ==
    ASSUME ReportsInv, sent \in Nat, UpstreamReports
    PROVE  ReportsInv'
<1>1. sent' = sent + 1
  BY DEF UpstreamReports, UpstreamSends
<1>2. CASE Blank(sent')
  <2>1. events' = events
    BY <1>2 DEF UpstreamReports
  <2>2. Events(sent') = Events(sent)
    BY <1>1, <1>2 DEF Blank, Events
  <2>3. \A n, k : Counted(n, k)' = Counted(n, k)
    BY <2>1 DEF Counted
  <2> QED BY <2>1, <2>2, <2>3 DEF ReportsInv
<1>3. CASE ~Blank(sent')
  <2>1. PICK e \in Event : MayFollow(e) /\ events' = Append(events, e)
    BY <1>3 DEF UpstreamReports
  <2>2. events \in Seq(Event)
    BY DEF ReportsInv
  <2> DEFINE len == Len(events)
  <2>3. /\ events' \in Seq(Event) /\ len \in Nat /\ Len(events') = len + 1
        /\ \A i \in 1..len : events'[i] = events[i]
        /\ events'[len + 1] = e /\ DOMAIN events = 1..len
    BY <2>1, <2>2
  <2>4. Len(events') = Events(sent')
    <3>1. Events(sent') = Events(sent) + 1
      BY <1>1, <1>3 DEF Blank, Events
    <3> QED BY <2>3, <3>1 DEF ReportsInv
  <2>5. ASSUME NEW n \in 0..len, NEW k
        PROVE  Counts(events', n, k) = Counts(events, n, k) /\ Counted(n, k)' = Counted(n, k)
    <3>1. \A i \in 1..n : events'[i] = events[i]
      BY <2>3
    <3>2. Counts(events', n, k) = Counts(events, n, k)
      BY <3>1 DEF Counts
    <3>3. Counted(n, k)' = Top(Counts(events', n, k))
      BY DEF Counted, Top, Counts
    <3> QED BY <3>2, <3>3, CountedIsTop
  <2>6. ASSUME NEW i \in 1..(len + 1), events'[i].type = "start", NEW j \in 1..(i - 1)
        PROVE  events'[j].type = "other"
    <3>1. j \in 1..len /\ events'[j] = events[j]
      BY <2>3
    <3>2. CASE i \in 1..len
      BY <2>3, <2>6, <3>1, <3>2 DEF ReportsInv
    <3>3. CASE i = len + 1
      BY <2>1, <2>3, <2>6, <3>1, <3>3 DEF MayFollow
    <3> QED BY <2>3, <3>2, <3>3
  <2>7. ASSUME NEW n \in 0..(len + 1), NEW k \in Keys
        PROVE  IsTop(Counted(n, k)', Counts(events', n, k))
    <3>1. CASE n \in 0..len
      BY <2>5, <3>1 DEF ReportsInv
    <3>2. CASE n = len + 1
      <4>1. IsTop(Counted(len, k), Counts(events', len, k))
        BY <2>3, <2>5 DEF ReportsInv
      <4>2. \E d : Top(Counts(events', len + 1, k)) = d /\ IsTop(d, Counts(events', len + 1, k))
        BY <2>3, <4>1, NextTop
      <4>3. Counted(n, k)' = Top(Counts(events', n, k))
        BY DEF Counted, Top, Counts
      <4> QED BY <3>2, <4>2, <4>3
    <3> QED BY <2>3, <3>1, <3>2
  <2>8. ASSUME NEW i \in 1..(len + 1), NEW k \in Keys
        PROVE  \/ Value(events'[i].node, k) = 0
               \/ Value(events'[i].node, k) >= Counted(i - 1, k)'
    <3>0. i - 1 \in 0..len
      BY <2>3
    <3>1. CASE i \in 1..len
      BY <2>3, <2>5, <3>0, <3>1 DEF ReportsInv
    <3>2. CASE i = len + 1
      <4>1. Value(e.node, k) = 0 \/ Value(e.node, k) >= Counted(len, k)
        BY <2>1 DEF MayFollow, Value
      <4>2. Counted(i - 1, k)' = Counted(len, k)
        BY <2>3, <2>5, <3>0, <3>2
      <4> QED BY <2>3, <3>2, <4>1, <4>2
    <3> QED BY <2>3, <3>1, <3>2
  <2> QED BY <2>3, <2>4, <2>6, <2>7, <2>8 DEF ReportsInv
<1> QED BY <1>2, <1>3

\* The counts of one more event.
LEMMA NextCounted ==
    ASSUME ReportsInv, NEW n \in Nat, n < Len(events), NEW k \in Keys
    PROVE  LET v == Value(events[n + 1].node, k)
           IN  /\ v \in Nat /\ Counted(n, k) \in Nat
               /\ v = 0 \/ v >= Counted(n, k)
               /\ Counted(n + 1, k) = IF v > 0 THEN v ELSE Counted(n, k)
               /\ events[n + 1].type = "start" => Counted(n, k) = 0
<1>1. events \in Seq(Event) /\ Len(events) \in Nat
  BY DEF ReportsInv
<1>2. IsTop(Counted(n, k), Counts(events, n, k))
  BY <1>1 DEF ReportsInv
<1> DEFINE v == Value(events[n + 1].node, k)
<1>3. /\ Counted(n, k) \in Nat /\ v \in Nat
      /\ Top(Counts(events, n + 1, k)) = IF v > Counted(n, k) THEN v ELSE Counted(n, k)
  BY <1>1, <1>2, NextTop
<1>4. v = 0 \/ v >= Counted(n, k)
  <2>1. n + 1 \in 1..Len(events) /\ (n + 1) - 1 = n
    BY <1>1
  <2> QED BY <2>1 DEF ReportsInv
<1>5. events[n + 1].type = "start" => Counted(n, k) = 0
  <2> SUFFICES ASSUME events[n + 1].type = "start" PROVE Counted(n, k) = 0
    OBVIOUS
  <2>1. \A j \in 1..n : events[j].type = "other"
    <3>1. n + 1 \in 1..Len(events) /\ (n + 1) - 1 = n
      BY <1>1
    <3> QED BY <3>1 DEF ReportsInv
  <2>2. ASSUME NEW j \in 1..n PROVE Value(events[j].node, k) = 0
    <3>1. events[j] \in Event
      BY <1>1, ElementOfSeq
    <3> QED BY <2>1, <3>1, EventNodes, NodeValues
  <2> QED BY <1>2, <2>2 DEF IsTop, Counts
<1>6. Counted(n + 1, k) = Top(Counts(events, n + 1, k))
  BY CountedIsTop
<1> HIDE DEF v
<1>7. Counted(n + 1, k) = IF v > 0 THEN v ELSE Counted(n, k)
  BY <1>3, <1>4, <1>6
<1> QED BY <1>3, <1>4, <1>5, <1>7 DEF v

\* applyAnthropicUsageNode keeps up with the highest counts.
LEMMA MergeCounts ==
    ASSUME NEW node \in Node, NEW allowZero \in BOOLEAN, NEW t, NEW c, NEW d,
           c \in [Keys -> Nat], d \in [Keys -> Nat], Metered(t, c),
           \A k \in Keys : d[k] = IF Value(node, k) > 0 THEN Value(node, k) ELSE c[k],
           \A k \in Keys : Value(node, k) = 0 \/ Value(node, k) >= c[k],
           allowZero => \A k \in Keys : c[k] = 0,
           ~allowZero => (Value(node, "cached") > 0 => Value(node, "read") > 0)
    PROVE  Metered(Applied(node, t, allowZero), d)
<1>1. /\ t \in [Meters -> Nat] /\ \A k : Value(node, k) \in Nat
      /\ Meters \subseteq Keys /\ "cached" \in Keys
      /\ \A k \in Keys : c[k] \in Nat /\ d[k] \in Nat
      /\ \A m \in Meters : t[m] \in Nat
  BY NodeValues DEF Metered, Tokens, Meters, Keys
<1> DEFINE direct(m) == IF Takes(node, m, allowZero) THEN node[m] ELSE t[m]
           new == Applied(node, t, allowZero)
<1>2. \A m \in Meters : direct(m) = IF Value(node, m) > 0 THEN Value(node, m) ELSE
                                    IF m \in DOMAIN node /\ allowZero THEN 0 ELSE t[m]
  <2> SUFFICES ASSUME NEW m \in Meters
               PROVE  direct(m) = IF Value(node, m) > 0 THEN Value(node, m) ELSE
                                  IF m \in DOMAIN node /\ allowZero THEN 0 ELSE t[m]
    OBVIOUS
  <2>1. Value(node, m) = IF m \in DOMAIN node THEN node[m] ELSE 0
    BY DEF Value
  <2>2. Value(node, m) \in Nat
    BY <1>1
  <2> QED BY <2>1, <2>2 DEF Takes
<1>3. /\ \A m \in {"input", "output", "five", "hour"} : new[m] = direct(m)
      /\ new["read"] = IF direct("read") = 0 THEN Value(node, "cached") ELSE direct("read")
      /\ new["creation"] = IF direct("creation") = 0
                           THEN Value(node, "five") + Value(node, "hour") ELSE direct("creation")
      /\ new = [m \in Meters |-> new[m]]
  BY DEF Applied, Meters
<1> HIDE DEF new, direct
<1>4. \A m \in {"input", "output", "five", "hour"} : new[m] = d[m]
  <2> SUFFICES ASSUME NEW m \in {"input", "output", "five", "hour"} PROVE new[m] = d[m]
    OBVIOUS
  <2>1. m \in Meters /\ m \in Keys /\ t[m] = c[m]
    BY DEF Meters, Keys, Metered
  <2> QED BY <1>1, <1>2, <1>3, <2>1
<1>5. new["read"] = IF d["read"] > 0 THEN d["read"] ELSE d["cached"]
  <2>1. /\ "read" \in Meters /\ "read" \in Keys /\ "cached" \in Keys
        /\ t["read"] = IF c["read"] > 0 THEN c["read"] ELSE c["cached"]
    BY DEF Meters, Keys, Metered
  <2>2. direct("read") = IF Value(node, "read") > 0 THEN Value(node, "read") ELSE
                         IF "read" \in DOMAIN node /\ allowZero THEN 0 ELSE t["read"]
    BY <1>2, <2>1
  <2>3. /\ d["read"] = IF Value(node, "read") > 0 THEN Value(node, "read") ELSE c["read"]
        /\ d["cached"] = IF Value(node, "cached") > 0 THEN Value(node, "cached") ELSE c["cached"]
        /\ c["read"] \in Nat /\ c["cached"] \in Nat
        /\ Value(node, "read") \in Nat /\ Value(node, "cached") \in Nat
        /\ allowZero => c["read"] = 0 /\ c["cached"] = 0
    BY <1>1, <2>1
  <2> QED BY <1>3, <2>1, <2>2, <2>3
<1>6. /\ d["creation"] > 0 => new["creation"] = d["creation"]
      /\ d["creation"] = 0 => new["creation"] <= d["five"] + d["hour"]
  <2>1. /\ "creation" \in Meters /\ {"creation", "five", "hour"} \subseteq Keys
        /\ c["creation"] > 0 => t["creation"] = c["creation"]
        /\ c["creation"] = 0 => t["creation"] <= c["five"] + c["hour"]
        /\ t["creation"] \in Nat
    BY <1>1 DEF Meters, Keys, Metered
  <2>2. direct("creation") = IF Value(node, "creation") > 0 THEN Value(node, "creation") ELSE
                             IF "creation" \in DOMAIN node /\ allowZero THEN 0 ELSE t["creation"]
    BY <1>2, <2>1
  <2>3. \A k \in {"creation", "five", "hour"} :
          /\ d[k] = IF Value(node, k) > 0 THEN Value(node, k) ELSE c[k]
          /\ c[k] \in Nat /\ d[k] \in Nat /\ Value(node, k) \in Nat
          /\ allowZero => c[k] = 0
    BY <1>1, <2>1
  <2>4. \A k \in {"five", "hour"} : d[k] >= Value(node, k) /\ d[k] >= c[k]
    BY <2>1, <2>3
  <2> QED BY <1>3, <2>1, <2>2, <2>3, <2>4
<1>7. new \in Tokens
  BY <1>1, <1>2, <1>3 DEF Tokens, Meters
<1> QED BY <1>4, <1>5, <1>6, <1>7 DEF Metered, new

\* What the upstream adds leaves the events so far, and their counts, alone.
LEMMA UpstreamAppends ==
    ASSUME events \in Seq(Event), UpstreamReports
    PROVE  /\ Len(events) <= Len(events')
           /\ \A i \in 1..Len(events) : events'[i] = events[i]
           /\ \A n \in 0..Len(events), k \in Keys : Counted(n, k)' = Counted(n, k)
<1>1. /\ Len(events) <= Len(events')
      /\ \A i \in 1..Len(events) : events'[i] = events[i]
  BY DEF UpstreamReports
<1>2. ASSUME NEW n \in 0..Len(events), NEW k \in Keys PROVE Counted(n, k)' = Counted(n, k)
  <2>1. \A i \in 1..n : events'[i] = events[i]
    BY <1>1
  <2>2. Counts(events', n, k) = Counts(events, n, k)
    BY <2>1 DEF Counts
  <2>3. Counted(n, k)' = Top(Counts(events', n, k))
    BY DEF Counted, Top, Counts
  <2> QED BY <2>2, <2>3, CountedIsTop
<1> QED BY <1>1, <1>2

LEMMA ReportsStep == Inv /\ ReportsInv /\ [MeteredNext]_allVars => ReportsInv'
<1> SUFFICES ASSUME Inv, ReportsInv, [MeteredNext]_allVars PROVE ReportsInv'
  OBVIOUS
<1>1. CASE UpstreamReports
  BY <1>1, UpstreamKeepsOrder DEF Inv, ScalarsOK
<1>2. CASE ~UpstreamReports
  <2>1. events' = events /\ sent' = sent
    BY <1>2 DEF MeteredNext, MeteredScanner, MeteredHandler, MeteredTick, WriteAndObserve, Relays,
                Scanner, ScanLine, ScanEnds, ScanFails, TakeLine, WriteEvent, WriteFails,
                LinesClosed, IdleFires, SeesContextDone, UpstreamEnds, ContextDone, Tick,
                allVars, vars, upstreamVars
  <2>2. \A n, k : Counted(n, k)' = Counted(n, k)
    BY <2>1 DEF Counted
  <2> QED BY <2>1, <2>2 DEF ReportsInv
<1> QED BY <1>1, <1>2

\* An event that is written is one the upstream has sent.
LEMMA WrittenWasSent ==
    ASSUME Inv, WriteEvent PROVE observed \in Nat /\ observed + 1 <= Events(sent)
<1> USE DEF Inv, ScalarsOK, LinesInv, Events
<1>1. /\ sent \in Nat /\ scanned \in Nat /\ observed \in Nat /\ written = 2 * observed
      /\ scanned >= written + pending /\ scanned <= sent
  BY DEF WriteEvent
<1>2. CASE handler = "writing"
  BY <1>1, <1>2
<1>3. CASE handler = "flushing"
  BY <1>1, <1>3
<1> QED BY <1>2, <1>3 DEF WriteEvent

\* extractAnthropicUsage keeps up with the events.
LEMMA ObserveStep ==
    ASSUME Inv, ReportsInv, MeterInv, OldNameAtStart, WriteAndObserve
    PROVE  MeterInv'
<1>1. observed \in Nat /\ observed + 1 <= Len(events) /\ events \in Seq(Event)
  BY WrittenWasSent DEF WriteAndObserve, ReportsInv
<1>2. PICK n \in Nat : n = observed
  BY <1>1
<1>3. PICK e \in Event : e = events[n + 1]
  BY <1>1, <1>2, ElementOfSeq
<1>4. \A k \in Keys :
        LET v == Value(events[n + 1].node, k)
        IN  /\ v \in Nat /\ Counted(n, k) \in Nat
            /\ v = 0 \/ v >= Counted(n, k)
            /\ Counted(n + 1, k) = IF v > 0 THEN v ELSE Counted(n, k)
            /\ events[n + 1].type = "start" => Counted(n, k) = 0
  <2>1. n < Len(events)
    BY <1>1, <1>2
  <2> QED BY <2>1, NextCounted
<1>5. PICK c \in [Keys -> Nat] : \A k \in Keys : c[k] = Counted(n, k)
  <2>1. [k \in Keys |-> Counted(n, k)] \in [Keys -> Nat]
    BY <1>4
  <2> QED BY <2>1
<1>6. PICK d \in [Keys -> Nat] : \A k \in Keys : d[k] = Counted(n + 1, k)
  <2>1. \A k \in Keys : Counted(n + 1, k) \in Nat
    BY <1>4
  <2>2. [k \in Keys |-> Counted(n + 1, k)] \in [Keys -> Nat]
    BY <2>1
  <2> QED BY <2>2
<1>7. events' = events /\ observed' = n + 1
  BY <1>2 DEF WriteAndObserve, WriteEvent
<1>8. d = [k \in Keys |-> Counted(observed, k)]'
  <2>1. \A k : Counted(observed, k)' = Counted(n + 1, k)
    BY <1>7 DEF Counted
  <2> QED BY <1>6, <2>1
<1>9. Metered(tokens, c)
  BY <1>2, <1>5 DEF MeterInv
<1>10. \A k \in Keys :
        /\ d[k] = IF Value(e.node, k) > 0 THEN Value(e.node, k) ELSE c[k]
        /\ Value(e.node, k) = 0 \/ Value(e.node, k) >= c[k]
        /\ e.type = "start" => c[k] = 0
  BY <1>4, <1>3, <1>5, <1>6
<1>11. Observe(e)
  BY <1>2, <1>3 DEF WriteAndObserve
<1>12. Metered(tokens', d)
  <2>1. CASE e.type = "other"
    <3>1. \A k \in Keys : Value(e.node, k) = 0
      BY <2>1, EventNodes, NodeValues
    <3>2. d = c
      BY <1>10, <3>1
    <3> QED BY <1>9, <1>11, <2>1, <3>2 DEF Observe
  <2>2. CASE e.type # "other"
    <3>1. e.node \in Node /\ (e.type # "start" => e.node \in DeltaUsage)
      BY <2>2, EventNodes
    <3>2. tokens' = Applied(e.node, tokens, e.type = "start")
      BY <1>11, <2>2 DEF Observe
    <3>3. e.type # "start" => (Value(e.node, "cached") > 0 => Value(e.node, "read") > 0)
      BY <3>1 DEF OldNameAtStart
    <3>4. PICK allowZero \in BOOLEAN : allowZero <=> e.type = "start"
      OBVIOUS
    <3>5. Metered(Applied(e.node, tokens, allowZero), d)
      BY <1>9, <1>10, <3>1, <3>3, <3>4, MergeCounts
    <3>6. allowZero = (e.type = "start")
      BY <3>4
    <3> QED BY <3>2, <3>5, <3>6
  <2> QED BY <2>1, <2>2
<1>13. usage' = tokens'
  <2>1. CASE e.type = "other"
    BY <1>11, <2>1 DEF Observe, MeterInv
  <2>2. CASE e.type # "other"
    <3>1. usage = tokens /\ usage' = Reported(usage, tokens')
      BY <1>11, <2>2 DEF Observe, MeterInv
    <3>2. \A m \in {"five", "hour"} : tokens'[m] = 0 => tokens[m] = 0
      <4>1. \A m \in {"five", "hour"} : tokens'[m] = d[m] /\ tokens[m] = c[m]
        BY <1>9, <1>12 DEF Metered
      <4>2. \A m \in {"five", "hour"} : d[m] = 0 => c[m] = 0
        <5>1. \A m \in {"five", "hour"} : Value(e.node, m) \in Nat /\ c[m] \in Nat /\ m \in Keys
          BY EventNodes, NodeValues DEF Keys, Meters
        <5> QED BY <1>10, <5>1
      <4> QED BY <4>1, <4>2
    <3>3. tokens' = [m \in Meters |-> tokens'[m]]
      BY <1>12 DEF Metered, Tokens
    <3>4. \A m \in Meters : (IF m \in {"five", "hour"} /\ tokens'[m] = 0 THEN usage[m] ELSE tokens'[m])
                            = tokens'[m]
      BY <3>1, <3>2
    <3> QED BY <3>1, <3>3, <3>4 DEF Reported
  <2> QED BY <2>1, <2>2
<1>14. named' <=> \E i \in 1..(n + 1) : events[i].type = "start"
  <2>1. named <=> \E i \in 1..n : events[i].type = "start"
    BY <1>2 DEF MeterInv
  <2>2. named' <=> named \/ events[n + 1].type = "start"
    BY <1>3, <1>11 DEF Observe
  <2>3. 1..(n + 1) = (1..n) \union {n + 1}
    OBVIOUS
  <2> QED BY <2>1, <2>2, <2>3
<1>15. cost' = IF outcome' = "success" /\ named' THEN Billed(usage') ELSE NoCost
  <2>1. outcome = "none"
    BY DEF WriteAndObserve, WriteEvent, Inv, LinesInv
  <2>2. cost = NoCost /\ cost' = IF Bills THEN Billed(usage') ELSE cost
    BY <2>1 DEF WriteAndObserve, Charge, MeterInv
  <2> QED BY <2>1, <2>2 DEF Bills
<1>16. observed' <= Len(events')
  BY <1>1, <1>2, <1>7
<1>17. Metered(tokens, [k \in Keys |-> Counted(observed, k)])'
  BY <1>8, <1>12
<1>18. (named <=> \E i \in 1..observed : events[i].type = "start")'
  BY <1>7, <1>14
<1> QED BY <1>13, <1>15, <1>16, <1>17, <1>18 DEF MeterInv

LEMMA MeterStep ==
    ASSUME Inv, ReportsInv, MeterInv, OldNameAtStart, [MeteredNext]_allVars
    PROVE  MeterInv'
<1>1. CASE WriteAndObserve
  BY <1>1, ObserveStep
<1>2. CASE ~WriteAndObserve
  <2>1. observed' = observed /\ tokens' = tokens /\ usage' = usage /\ named' = named
    BY <1>2 DEF MeteredNext, MeteredScanner, MeteredHandler, MeteredTick, Relays, UpstreamReports,
                Scanner, ScanLine, ScanEnds, ScanFails, TakeLine, WriteFails, LinesClosed,
                IdleFires, SeesContextDone, UpstreamSends, UpstreamEnds, ContextDone, Tick,
                allVars, meterVars, vars, handlerVars
  <2>2. cost' = IF outcome' = "success" /\ named' THEN Billed(usage') ELSE NoCost
    <3>1. CASE Relays
      <4>1. outcome = "none"
        BY <3>1 DEF Relays, TakeLine, WriteFails, LinesClosed, IdleFires, SeesContextDone, Inv,
                    LinesInv
      <4>2. cost = NoCost /\ cost' = IF Bills THEN Billed(usage') ELSE cost
        BY <3>1, <4>1 DEF Relays, Charge, MeterInv
      <4> QED BY <4>1, <4>2 DEF Bills
    <3>2. CASE ~Relays
      <4>1. outcome' = outcome /\ cost' = cost
        BY <1>2, <3>2 DEF MeteredNext, MeteredScanner, MeteredHandler, MeteredTick,
              UpstreamReports, Scanner, ScanLine, ScanEnds, ScanFails, UpstreamSends,
              UpstreamEnds, ContextDone, Tick, allVars, meterVars, vars, handlerVars
      <4> QED BY <2>1, <4>1 DEF MeterInv
    <3> QED BY <3>1, <3>2
  <2>3. PICK n \in Nat : n = observed /\ n <= Len(events)
    BY DEF Inv, ScalarsOK, MeterInv
  <2>4. /\ Len(events) <= Len(events')
        /\ \A i \in 1..Len(events) : events'[i] = events[i]
        /\ \A k \in Keys : Counted(n, k)' = Counted(n, k)
    <3>1. events \in Seq(Event) /\ Len(events) \in Nat
      BY DEF ReportsInv
    <3>2. CASE UpstreamReports
      BY <2>3, <3>1, <3>2, UpstreamAppends
    <3>3. CASE ~UpstreamReports
      <4>1. events' = events
        BY <1>2, <3>3 DEF MeteredNext, MeteredScanner, MeteredHandler, MeteredTick, Relays,
                          allVars
      <4> QED BY <3>1, <4>1 DEF Counted
    <3> QED BY <3>2, <3>3
  <2>5. [k \in Keys |-> Counted(observed, k)]' = [k \in Keys |-> Counted(n, k)]
    <3>1. \A k : Counted(observed, k)' = Counted(n, k)'
      BY <2>1, <2>3 DEF Counted
    <3> QED BY <2>4, <3>1
  <2>6. Metered(tokens, [k \in Keys |-> Counted(observed, k)])'
    BY <2>1, <2>3, <2>5 DEF MeterInv
  <2>7. (named <=> \E i \in 1..observed : events[i].type = "start")'
    <3>1. \A i \in 1..n : events'[i] = events[i]
      BY <2>3, <2>4 DEF ReportsInv
    <3> QED BY <2>1, <2>3, <3>1 DEF MeterInv
  <2>8. (observed <= Len(events) /\ usage = tokens)'
    <3>1. Len(events) \in Nat /\ Len(events') \in Nat
      <4>1. ReportsInv'
        BY ReportsStep
      <4> QED BY <4>1 DEF ReportsInv
    <3> QED BY <2>1, <2>3, <2>4, <3>1 DEF MeterInv
  <2> QED BY <2>2, <2>6, <2>7, <2>8 DEF MeterInv
<1> QED BY <1>1, <1>2

\* What is billed of counts that keep up with the highest ones.
LEMMA BilledCounts ==
    ASSUME NEW t, NEW c \in [Keys -> Nat], Metered(t, c)
    PROVE  LET parts == c["five"] + c["hour"]
               total == c["creation"]
           IN  Billed(t) = [input  |-> c["input"],
                            output |-> c["output"],
                            read   |-> IF c["read"] > 0 THEN c["read"] ELSE c["cached"],
                            five   |-> (IF total > parts THEN total ELSE parts) - c["hour"],
                            hour   |-> c["hour"]]
<1> DEFINE parts == c["five"] + c["hour"]
           total == c["creation"]
           due == [input  |-> c["input"],
                   output |-> c["output"],
                   read   |-> IF c["read"] > 0 THEN c["read"] ELSE c["cached"],
                   five   |-> (IF total > parts THEN total ELSE parts) - c["hour"],
                   hour   |-> c["hour"]]
<1>1. /\ t["input"] = c["input"] /\ t["output"] = c["output"]
      /\ t["five"] = c["five"] /\ t["hour"] = c["hour"]
      /\ t["read"] = IF c["read"] > 0 THEN c["read"] ELSE c["cached"]
      /\ total > 0 => t["creation"] = total
      /\ total = 0 => t["creation"] <= parts
  BY DEF Metered
<1>2. total \in Nat /\ parts \in Nat /\ c["five"] \in Nat /\ c["hour"] \in Nat /\ t["creation"] \in Nat
  BY DEF Metered, Tokens, Keys, Meters
<1>3. t["five"] + Generic(t) = (IF total > parts THEN total ELSE parts) - c["hour"]
  <2>1. Generic(t) = IF t["creation"] - c["five"] - c["hour"] < 0 THEN 0
                     ELSE t["creation"] - c["five"] - c["hour"]
    BY <1>1 DEF Generic
  <2> QED BY <1>1, <1>2, <2>1
<1>4. due = [x \in Classes |-> due[x]]
  BY Zenon DEF Classes
<1>5. \A x \in Classes : due[x] = IF x = "five" THEN t["five"] + Generic(t) ELSE t[x]
  BY <1>1, <1>3 DEF Classes
<1>6. Billed(t) = due
  BY <1>4, <1>5 DEF Billed
<1> QED BY <1>6

\* What is reported at any time is what the events so far have to be billed for.
LEMMA ReportedSoFar == ASSUME Inv, ReportsInv, MeterInv PROVE Billed(usage) = Due(observed)
<1>1. PICK c \in [Keys -> Nat] : c = [k \in Keys |-> Counted(observed, k)]
  <2>1. observed \in 0..Len(events) /\ Len(events) \in Nat /\ events \in Seq(Event)
    BY DEF Inv, ScalarsOK, MeterInv, ReportsInv
  <2>2. ASSUME NEW k \in Keys PROVE Counted(observed, k) \in Nat
    <3>1. IsTop(Counted(observed, k), Counts(events, observed, k))
      BY <2>1 DEF ReportsInv
    <3>2. \A i \in 1..observed : Value(events[i].node, k) \in Nat
      <4> SUFFICES ASSUME NEW i \in 1..observed PROVE Value(events[i].node, k) \in Nat
        OBVIOUS
      <4>1. events[i] \in Event
        BY <2>1, ElementOfSeq
      <4> QED BY <4>1, EventNodes, NodeValues
    <3> QED BY <3>1, <3>2 DEF IsTop, Counts
  <2>3. [k \in Keys |-> Counted(observed, k)] \in [Keys -> Nat]
    BY <2>2
  <2> QED BY <2>3
<1>2. Metered(usage, c)
  BY <1>1 DEF MeterInv
<1>3. /\ Counted(observed, "input") = c["input"] /\ Counted(observed, "output") = c["output"]
      /\ Counted(observed, "read") = c["read"] /\ Counted(observed, "cached") = c["cached"]
      /\ Counted(observed, "five") = c["five"] /\ Counted(observed, "hour") = c["hour"]
      /\ Counted(observed, "creation") = c["creation"]
  BY <1>1 DEF Keys, Meters
<1> QED BY <1>2, <1>3, BilledCounts DEF Due

LEMMA MeteredInvariance ==
    ASSUME OldNameAtStart
    PROVE  MeteredSpec => [](Inv /\ ReportsInv /\ MeterInv)
<1>1. MeteredInit => Inv /\ ReportsInv /\ MeterInv
  <2> SUFFICES ASSUME MeteredInit PROVE Inv /\ ReportsInv /\ MeterInv
    OBVIOUS
  <2>1. Inv /\ observed = 0 /\ sent = 0 /\ outcome = "none" /\ events = <<>> /\ Len(events) = 0
    BY InvInit DEF MeteredInit, Init
  <2>2. ASSUME NEW k PROVE Counted(0, k) = 0 /\ IsTop(Counted(0, k), Counts(events, 0, k))
    <3>1. Counts(events, 0, k) = {0}
      BY DEF Counts
    <3>2. IsTop(0, {0})
      BY DEF IsTop
    <3> QED BY <3>1, <3>2, TopFound, CountedIsTop
  <2>3. ReportsInv
    BY <2>1, <2>2 DEF ReportsInv, Events
  <2>4. Metered(tokens, [k \in Keys |-> Counted(observed, k)])
    <3>1. \A k \in Keys : Counted(observed, k) = 0
      BY <2>1, <2>2
    <3>2. tokens = [m \in Meters |-> 0] /\ tokens \in Tokens
      BY DEF MeteredInit, NoTokens, Tokens
    <3> QED BY <3>1, <3>2 DEF Metered, Keys, Meters
  <2>5. MeterInv
    BY <2>1, <2>4 DEF MeterInv, MeteredInit
  <2> QED BY <2>1, <2>3, <2>5
<1>2. Inv /\ ReportsInv /\ MeterInv /\ [MeteredNext]_allVars => (Inv /\ ReportsInv /\ MeterInv)'
  <2>1. [MeteredNext]_allVars => [Next]_vars
    BY DEF MeteredNext, MeteredScanner, MeteredHandler, MeteredTick, WriteAndObserve, Relays,
           UpstreamReports, Next, Handler, Environment, allVars
  <2> QED BY <2>1, InvStep, ReportsStep, MeterStep
<1> QED BY <1>1, <1>2, PTL DEF MeteredSpec

\* stream.go, observeSSEEvent: the counts reported of a stream are at any time,
\* and so also when it is aborted, those of the events the client has got, for
\* every way in which the upstream spreads growing counts over usage objects,
\* except for a cached_tokens that grows after message_start.
THEOREM CountsOfEvents ==
    ASSUME OldNameAtStart
    PROVE  MeteredSpec => []ReportedIsDelivered
<1>1. Inv /\ ReportsInv /\ MeterInv => ReportedIsDelivered
  BY ReportedSoFar DEF ReportedIsDelivered
<1> QED BY <1>1, MeteredInvariance, PTL

\* fillUsageCost: a complete stream is billed in full, and nothing else is billed.
THEOREM CompleteIsBilled ==
    ASSUME OldNameAtStart
    PROVE  MeteredSpec => []BilledIfComplete
<1>1. ASSUME Inv, ReportsInv, MeterInv PROVE BilledIfComplete
  <2>1. CASE outcome = "success"
    <3>1. handler = "returned" /\ written = sent /\ written \in {2 * observed, 2 * observed - 1}
      BY <1>1, <2>1 DEF Inv, LinesInv, EndInv
    <3>2. observed = Len(events)
      BY <1>1, <3>1 DEF Inv, ScalarsOK, ReportsInv, Events
    <3>3. DOMAIN events = 1..observed
      BY <1>1, <3>2 DEF ReportsInv
    <3>4. named <=> \E i \in DOMAIN events : events[i].type = "start"
      BY <1>1, <3>3 DEF MeterInv
    <3>5. Billed(usage) = Due(Len(events))
      BY <1>1, <3>2, ReportedSoFar
    <3> QED BY <1>1, <2>1, <3>4, <3>5 DEF MeterInv, BilledIfComplete
  <2>2. CASE outcome # "success"
    BY <1>1, <2>2 DEF MeterInv, BilledIfComplete
  <2> QED BY <2>1, <2>2
<1> QED BY <1>1, MeteredInvariance, PTL
=============================================================================
