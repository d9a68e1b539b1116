---------------------------- MODULE MCConversations ----------------------------
(* Instances of Conversations for TLC. *)
EXTENDS Conversations, TLC

CONSTANTS a1, a2

User(says, blocks)      == [role |-> "user", says |-> says, blocks |-> blocks]
Assistant(says, blocks) == [role |-> "assistant", says |-> says, blocks |-> blocks]

Plain == [messages |-> <<>>, system |-> NoSystem, model |-> "full", max_tokens |-> TRUE,
          tools |-> "missing", tool_choice |-> FALSE, temperature |-> FALSE, user_id |-> Missing]

\* Two that begin alike, one of them naming Claude Code in a string; two with the
\* same instructions; an empty one and a genuine CLI; one with an array of its own.
Sends ==
    "greeting" :> [Plain EXCEPT !.temperature = TRUE, !.tool_choice = TRUE]
 @@ "thinker"  :> [Plain EXCEPT !.system = ClaudeCode, !.max_tokens = FALSE, !.model = "short",
                              !.tools = "some"]
 @@ "pirate"   :> [Plain EXCEPT !.system = "talk like a pirate", !.tools = "some", !.tool_choice = TRUE]
 @@ "parrot"   :> [Plain EXCEPT !.system = "talk like a pirate", !.model = "short_spaced"]
 @@ "silent"   :> [Plain EXCEPT !.system = BlankSystem, !.tool_choice = TRUE, !.tools = "empty"]
 @@ "cli"      :> [Plain EXCEPT !.system = ClaudeCodeList, !.tools = "cached", !.user_id = Own]
 @@ "stranger" :> [Plain EXCEPT !.system = OtherList, !.max_tokens = FALSE]

Messages ==
    "greeting" :> <<User("hello", <<"text">>), Assistant("hi", <<"text">>),
                    User("more", <<"text", "blank", "image">>)>>
 @@ "thinker"  :> <<User("hello", <<"text">>), Assistant("hm", <<"thinking", "text", "blank">>),
                    User("more", <<"text", "thinking">>)>>
 @@ "pirate"   :> <<User("ahoy", <<"text">>), Assistant("aye", <<"tool_use", "thinking">>),
                    User("more", <<"text">>)>>
 @@ "parrot"   :> <<User("hello", <<"text">>)>>
 @@ "silent"   :> <<User("", <<"blank">>)>>
 @@ "cli"      :> <<User("hello", <<"text">>), Assistant("", <<"thinking", "blank">>),
                    User("go on", <<"text">>)>>
 @@ "stranger" :> <<User("hello", <<"text", "tool_use">>)>>

Held == {{"greeting", "thinker"}, {"pirate", "parrot"}, {"silent", "cli"}, {"stranger"}}

Symmetry == Permutations(Accounts)
=============================================================================
