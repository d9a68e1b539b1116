---------------------------- MODULE MeteredStream ----------------------------
(***************************************************************************)
(* StreamRelay with what the events say: observeSSEEvent takes the model    *)
(* and the usage from every event that was written, and a success is        *)
(* billed (extractAnthropicUsage in stream.go, fillUsageCost in models.go). *)
(* Counts of the upstream are cumulative, as the Messages API reports them; *)
(* it is external.                                                          *)
(***************************************************************************)
EXTENDS StreamRelay, Sequences, UsageAccounting

CONSTANTS
    StartUsage,   \* usage objects of message_start events
    DeltaUsage    \* usage objects of message_delta events

ASSUME UsageAssumption ==
    \A node \in StartUsage \union DeltaUsage :
        DOMAIN node \subseteq Keys /\ \A k \in DOMAIN node : node[k] \in Nat

VARIABLES
    events,  \* what the upstream has put into its data lines
    tokens,  \* tokenUsage
    usage,   \* the counts of sdk.Usage
    named,   \* usage.Model is set
    cost     \* what the outcome is billed for

meterVars == <<tokens, usage, named, cost>>
allVars   == <<vars, events, meterVars>>

Event == [type : {"start"}, node : StartUsage] \union [type : {"delta"}, node : DeltaUsage]
           \union {[type |-> "other", node |-> <<>>]}

MeteredInit ==
    /\ Init
    /\ events = <<>>
    /\ tokens = NoTokens /\ usage = NoTokens
    /\ named = FALSE
    /\ cost = NoCost

-----------------------------------------------------------------------------
(* The upstream's content.                                                  *)

\* The highest count of key k in the first n events.
Counted(n, k) ==
    LET counts == {0} \union {Value(events[i].node, k) : i \in 1..n}
    IN  CHOOSE c \in counts : \A d \in counts : d <= c

\* One message_start, before every message_delta; counts grow, or are zero.
MayFollow(e) ==
    /\ e.type = "start" => \A i \in DOMAIN events : events[i].type = "other"
    /\ e.type = "delta" => \E i \in DOMAIN events : events[i].type = "start"
    /\ \A k \in DOMAIN e.node : e.node[k] = 0 \/ e.node[k] >= Counted(Len(events), k)

UpstreamReports ==
    /\ UpstreamSends
    /\ IF Blank(sent') THEN UNCHANGED events
       ELSE \E e \in Event : MayFollow(e) /\ events' = Append(events, e)
    /\ UNCHANGED meterVars

-----------------------------------------------------------------------------
(* The handler.                                                             *)

\* extractAnthropicUsage
Observe(e) ==
    /\ named' = (named \/ e.type = "start")
    /\ IF e.type = "other" THEN UNCHANGED <<tokens, usage>>
       ELSE /\ tokens' = Applied(e.node, tokens, e.type = "start")
            /\ usage' = Reported(usage, tokens')

\* Mutant: an aborted stream is billed, too.
BillsAnyEnd == outcome = "none" /\ outcome' # "none" /\ named'

\* fillUsageCost is called on the two ways to a success, and bills a model that has a name.
Bills == outcome' = "success" /\ outcome = "none" /\ named'

Charge == cost' = IF Bills THEN Billed(usage') ELSE cost

\* writeSSEEvent, then observeSSEEvent.
WriteAndObserve ==
    /\ WriteEvent
    /\ Observe(events[observed + 1])
    /\ Charge
    /\ UNCHANGED events

Relays ==
    /\ TakeLine \/ WriteFails \/ LinesClosed \/ IdleFires \/ SeesContextDone
    /\ UNCHANGED <<events, tokens, usage, named>>
    /\ Charge

MeteredScanner == Scanner /\ UNCHANGED <<events, meterVars>>
MeteredHandler == WriteAndObserve \/ Relays
MeteredTick    == Tick /\ UNCHANGED <<events, meterVars>>

MeteredNext ==
    \/ MeteredScanner \/ MeteredHandler \/ MeteredTick
    \/ UpstreamReports
    \/ (UpstreamEnds \/ ContextDone) /\ UNCHANGED <<events, meterVars>>

MeteredSpec == MeteredInit /\ [][MeteredNext]_allVars

\* The fairness of StreamRelay.
MeteredFairSpec ==
    /\ MeteredSpec
    /\ WF_allVars(MeteredScanner) /\ WF_allVars(MeteredHandler) /\ WF_allVars(MeteredTick)

-----------------------------------------------------------------------------
(* Properties.                                                              *)

\* What the first n events of the upstream have to be billed for, said without
\* the merge: the last counts; of what was written to the cache the total or
\* the sum of the parts, whichever is more, and the hour at its own price.
Due(n) ==
    LET parts == Counted(n, "five") + Counted(n, "hour")
        total == Counted(n, "creation")
    IN  [input  |-> Counted(n, "input"),
         output |-> Counted(n, "output"),
         read   |-> IF Counted(n, "read") > 0 THEN Counted(n, "read") ELSE Counted(n, "cached"),
         five   |-> (IF total > parts THEN total ELSE parts) - Counted(n, "hour"),
         hour   |-> Counted(n, "hour")]

\* stream.go, observeSSEEvent: the counts reported of a stream are at any time,
\* and so also when it is aborted, those of the events the client has got, no
\* matter how total, parts and zeros are spread over the events.
ReportedIsDelivered == Billed(usage) = Due(observed)

\* A complete stream is billed in full, whatever way it ended in, and nothing
\* else is billed: an aborted stream is reported without a cost.
BilledIfComplete ==
    cost = IF outcome = "success" /\ \E i \in DOMAIN events : events[i].type = "start"
           THEN Due(Len(events)) ELSE NoCost
=============================================================================
