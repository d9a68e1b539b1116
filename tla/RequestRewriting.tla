--------------------------- MODULE RequestRewriting ---------------------------
(***************************************************************************)
(* What happens to the body of a request before it is sent with an OAuth    *)
(* token: preprocessBody and preprocessOAuthBody of forward.go, sanitizeBody *)
(* of sanitize.go, conversationFingerprint of session.go.                   *)
(*                                                                          *)
(* A message is its role, an id for what it says, and the types of its      *)
(* blocks ("blank" is a text block without text; a content that is a string *)
(* is one text block).  The other fields say what the client sent; as       *)
(* preprocessOAuthBody leaves them, they are what is sent on.               *)
(***************************************************************************)
EXTENDS Integers, Sequences, SequencesExt

Message == [role : {"user", "assistant"}, says : STRING,
            blocks : Seq({"text", "blank", "thinking", "tool_use", "image"})]

\* The system prompt: missing, a string naming Claude Code, the name of any
\* other string, the array the gateway writes (a genuine CLI sends the like), or
\* anything else that is no string.  "model" tells if NormalizeModelID knows it
\* as a short name, and if the JSON has a blank after the colon.
NoSystem == "none"
BlankSystem == "blank"
ClaudeCode == "claude code"
ClaudeCodeList == "claude code list"
OtherList == "other list"

Body(System, UserIds) ==
    [messages    : Seq(Message),
     system      : System,
     model       : {"full", "short", "short_spaced"},
     max_tokens  : BOOLEAN,
     tools       : {"missing", "empty", "some", "cached"},   \* cached: the last one has cache_control
     tool_choice : BOOLEAN,
     temperature : BOOLEAN,
     user_id     : UserIds]

-----------------------------------------------------------------------------

NormalizeRequestBody(body) ==
    [body EXCEPT !.model = IF @ = "short" THEN "full" ELSE @]

NeedsMaxTokens(body) == ~body.max_tokens

\* The elements of seq with an index in I, in their order.
Kept(seq, I) ==
    LET upTo[n \in 0 .. Len(seq)] ==
            IF n = 0 THEN <<>>
            ELSE IF n \in I THEN Append(upTo[n - 1], seq[n]) ELSE upTo[n - 1]
    IN  upTo[Len(seq)]

\* Thinking stays where it is the last block of the client's message.
Stays(m) ==
    {i \in DOMAIN m.blocks :
        /\ m.blocks[i] # "blank"
        /\ m.blocks[i] = "thinking" => m.role = "assistant" /\ i = Len(m.blocks)}

FilterContentBlocks(m) == [m EXCEPT !.blocks = Kept(@, Stays(m))]

\* Mutant: a message with an empty block is left out as a whole.
DropsMessages(body) ==
    [body EXCEPT !.messages =
        SelectSeq(@, LAMBDA m : \A i \in DOMAIN m.blocks : m.blocks[i] \notin {"blank", "thinking"})]

SanitizeBody(body) ==
    LET filtered == [i \in DOMAIN body.messages |-> FilterContentBlocks(body.messages[i])]
    IN  [body EXCEPT !.messages = Kept(filtered, {i \in DOMAIN filtered : filtered[i].blocks # <<>>})]

PreprocessBody(body) ==
    LET normal == NormalizeRequestBody(body)
    IN  SanitizeBody(IF NeedsMaxTokens(normal) THEN [normal EXCEPT !.max_tokens = TRUE] ELSE normal)

-----------------------------------------------------------------------------

\* Only a missing or a string system prompt is looked at; anything else stays.
NeedsRewrite(system) == system \notin {ClaudeCode, ClaudeCodeList, OtherList}

Understood == "Understood"

\* True of any string, but none of the provers knows a string when it sees one.
ASSUME UnderstoodIsText == Understood \in STRING

\* The client's own instructions, in front of the conversation.
Instructions(system) ==
    IF system \in {NoSystem, BlankSystem} THEN <<>>
    ELSE << [role |-> "user", says |-> system, blocks |-> <<"text">>],
            [role |-> "assistant", says |-> Understood, blocks |-> <<"text">>] >>

ImposeSystem(body) ==
    IF NeedsRewrite(body.system)
    THEN [body EXCEPT !.messages = Instructions(body.system) \o @, !.system = ClaudeCodeList]
    ELSE body

AppendToolsEphemeralCache(tools) ==
    IF tools = "some" THEN "cached" ELSE tools

\* Mutant: tool_choice is looked at before missing tools become an empty list.
DressedInOrder(body) ==
    LET dressed == [body EXCEPT !.tools = AppendToolsEphemeralCache(@), !.temperature = FALSE,
                                !.tool_choice = @ /\ body.tools # "empty"]
    IN  [dressed EXCEPT !.tools = IF @ = "missing" THEN "empty" ELSE @]

DressTools(body) ==
    LET tools == IF body.tools = "missing" THEN "empty" ELSE AppendToolsEphemeralCache(body.tools)
    IN  [body EXCEPT !.tools = tools, !.temperature = FALSE,
                     !.tool_choice = @ /\ tools # "empty"]

\* Mutant: only the opening of a conversation counts.
OpeningOnly(messages) ==
    IF messages = <<>> THEN <<>> ELSE <<Head(messages)>>

\* The first message and the last but one; empty without messages.
ConversationFingerprint(messages) ==
    IF messages = <<>> THEN <<>>
    ELSE <<Head(messages)>> \o IF Len(messages) >= 2 THEN <<messages[Len(messages) - 1]>> ELSE <<>>

=============================================================================
