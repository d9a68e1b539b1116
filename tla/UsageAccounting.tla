--------------------------- MODULE UsageAccounting ---------------------------
(***************************************************************************)
(* The token counts and costs of a Messages answer: applyAnthropicUsageNode *)
(* (stream.go) merges a usage object of the upstream into tokenUsage,       *)
(* setUsageTokens and fillUsageCost (models.go) turn it into sdk.Usage.     *)
(*                                                                          *)
(* A usage object is a function from the keys it has to counts; an absent   *)
(* object is the empty one.  A cost is the number of tokens billed in each  *)
(* class of the price table; the prices themselves are left out.            *)
(***************************************************************************)
EXTENDS Integers

\* The fields of tokenUsage that cost.  creation is the total written to the
\* cache, five and hour its parts with a lifetime of five minutes and one hour.
Meters == {"input", "output", "read", "creation", "five", "hour"}

\* cached_tokens is another name for read.
Keys == Meters \union {"cached"}

Tokens   == [Meters -> Nat]
NoTokens == [m \in Meters |-> 0]

Value(node, k) == IF k \in DOMAIN node THEN node[k] ELSE 0

\* Mutant: a zero counts as news in every event.
TakesZeros(node, m, allowZero) == m \in DOMAIN node

\* A zero only counts as news where it is allowed, in message_start.
Takes(node, m, allowZero) == m \in DOMAIN node /\ (allowZero \/ node[m] > 0)

\* applyAnthropicUsageNode
Applied(node, tokens, allowZero) ==
    [m \in Meters |->
        LET direct == IF Takes(node, m, allowZero) THEN node[m] ELSE tokens[m]
        IN  CASE m = "read" /\ direct = 0     -> Value(node, "cached")
              [] m = "creation" /\ direct = 0 -> Value(node, "five") + Value(node, "hour")
              [] OTHER                        -> direct]

\* setUsageTokens: the parts are metadata, in which a zero is not written.
Reported(usage, tokens) ==
    [m \in Meters |-> IF m \in {"five", "hour"} /\ tokens[m] = 0 THEN usage[m] ELSE tokens[m]]

\* The classes of the price table.
Classes == {"input", "output", "read", "five", "hour"}
Cost    == [Classes -> Nat]
NoCost  == [c \in Classes |-> 0]

\* Mutant: what is not assigned to a part is billed in no class.
NothingGeneric(usage) == 0

\* Tokens written to the cache that neither part accounts for.
Generic(usage) ==
    LET rest == usage["creation"] - usage["five"] - usage["hour"]
    IN  IF rest < 0 THEN 0 ELSE rest

\* fillUsageCost for a model that has a name; an unknown one has a fallback price.
Billed(usage) ==
    [c \in Classes |-> IF c = "five" THEN usage["five"] + Generic(usage) ELSE usage[c]]
=============================================================================
