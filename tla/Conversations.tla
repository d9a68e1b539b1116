----------------------------- MODULE Conversations -----------------------------
(***************************************************************************)
(* The session ids of OAuth requests: stickyUserID of session.go with the   *)
(* plugin's cache or Core's store, called by preprocessOAuthBody for the    *)
(* fingerprint of a rewritten body.                                         *)
(*                                                                          *)
(* Clients send a conversation turn by turn, may repeat a turn (a failover  *)
(* or a retry), and Core may choose any account for each request.  The      *)
(* store is external: its Update is atomic, keeps what it has, may fail.    *)
(* An id (newUUIDv4) is the number of its birth.                            *)
(***************************************************************************)
EXTENDS RequestRewriting, FiniteSets

CONSTANTS
    Accounts,
    Client,           \* what the client of each conversation sends beside messages: bodies without any
    Says,             \* the messages of each conversation, the client's in odd places
    Mixes,            \* sets of conversations that may be held at a time
    Own,              \* the user id of a client that sends one,
    Missing,          \* of one that does not,
    Blank,            \* and a session id that is empty
    Cap,              \* sessionCacheMaxEntries
    TTL,              \* sessionTTL
    CleanupInterval,  \* sessionCleanupInterval
    MaxTime,          \* bound: the clock
    MaxIds,           \* bound: ids born
    MaxRequests,      \* bound: requests sent
    MaxRestarts       \* bound: restarts of the plugin

Conversation == DOMAIN Client
Turns(c)     == 1 .. (Len(Says[c]) + 1) \div 2
UserIds      == 1 .. MaxIds \union {Own, Missing, Blank}

ASSUME ConversationsAssumption ==
    /\ {Cap, TTL, CleanupInterval} \subseteq Nat \ {0}
    /\ {MaxTime, MaxIds, MaxRequests, MaxRestarts} \subseteq Nat
    /\ Says \in [Conversation -> Seq(Message)] /\ Mixes \subseteq SUBSET Conversation
    /\ \A c \in Conversation : Client[c] \in Body(STRING, {Own, Missing})
    /\ Own # Missing /\ Blank \notin {Own, Missing}
    /\ {Own, Missing, Blank} \cap Nat = {}

VARIABLES
    mix,          \* the conversations held
    shared,       \* the plugin has a store in Core
    now,
    entries,      \* sessionCache.entries
    lastCleanup,  \* sessionCache.lastCleanupTime
    store,        \* Core's store
    born,         \* history: time and account of each id's birth
    given,        \* history: the requests sent
    dropped,      \* history: ids lost at the cap or with a process
    restarts

cacheVars == <<entries, lastCleanup>>
vars == <<mix, shared, now, cacheVars, store, born, given, dropped, restarts>>

\* Mutant: ids are kept by fingerprint only.
MixedUpKey(a, print) == print

\* key is "accountID:fingerprint"
Key(a, print) == <<a, print>>
NoEntries == [k \in {} |-> 0]

Init ==
    /\ mix \in Mixes /\ shared \in BOOLEAN
    /\ now = 0
    /\ entries = NoEntries
    /\ lastCleanup = 0
    /\ store = NoEntries
    /\ born = <<>> /\ given = {} /\ dropped = {} /\ restarts = 0

-----------------------------------------------------------------------------
(* The cache.                                                               *)

Without(cache, keys) == [k \in DOMAIN cache \ keys |-> cache[k]]

ExpiredKeys(cache) == {k \in DOMAIN cache : now > cache[k].expiresAt}

DueForCleanup ==
    now - lastCleanup >= CleanupInterval \/ Cardinality(DOMAIN entries) >= Cap

\* Mutant: cleaning up clears the cache.
ClearedUp == IF DueForCleanup THEN NoEntries ELSE entries

CleanedUp ==
    IF DueForCleanup THEN Without(entries, ExpiredKeys(entries)) ELSE entries

\* Mutant: the last instant counts.
HitsTooLong(cache, key) == key \in DOMAIN cache /\ now <= cache[key].expiresAt

Hits(cache, key) == key \in DOMAIN cache /\ now < cache[key].expiresAt

\* Mutant: no room is made.
NoVictims(cache) == {{}}

\* What deleteOneExpiredOrArbitraryLocked may delete to make room.
Victims(cache) ==
    IF Cardinality(DOMAIN cache) < Cap THEN {{}}
    ELSE IF ExpiredKeys(cache) # {} THEN {{k} : k \in ExpiredKeys(cache)}
    ELSE {{k} : k \in DOMAIN cache}

NewId == Len(born) + 1

Birth(a) ==
    /\ Len(born) < MaxIds
    /\ born' = Append(born, [at |-> now, account |-> a])

LocalId(a, print, id) ==
    LET key   == Key(a, print)
        clean == CleanedUp
    IN  /\ lastCleanup' = IF DueForCleanup THEN now ELSE lastCleanup
        /\ \/ /\ Hits(clean, key)
              /\ id = clean[key].userID
              /\ entries' = clean
              /\ UNCHANGED <<born, dropped>>
           \/ /\ ~Hits(clean, key)
              /\ LET rest == Without(clean, {key})
                 IN  \E gone \in Victims(rest) :
                        /\ entries' = [k \in (DOMAIN rest \ gone) \union {key} |->
                                IF k = key THEN [userID |-> NewId, expiresAt |-> now + TTL]
                                           ELSE rest[k]]
                        /\ dropped' = dropped \union {rest[k].userID : k \in gone}
              /\ id = NewId
              /\ Birth(a)
        /\ UNCHANGED store

-----------------------------------------------------------------------------
(* Core's store.                                                            *)

SharedId(a, print, id) ==
    LET key == Key(a, print)
    IN  /\ \/ /\ key \in DOMAIN store
              /\ id = store[key]
              /\ UNCHANGED <<store, born>>
           \/ /\ key \notin DOMAIN store
              /\ id = NewId
              /\ store' = [k \in DOMAIN store \union {key} |-> IF k = key THEN NewId ELSE store[k]]
              /\ Birth(a)
           \/ /\ id = Blank   \* Update fails
              /\ UNCHANGED <<store, born>>
        /\ UNCHANGED <<cacheVars, dropped>>

StickyUserID(a, print, id) ==
    \/ /\ print = <<>>
       /\ id = NewId
       /\ Birth(a)
       /\ UNCHANGED <<cacheVars, store, dropped>>
    \/ /\ print # <<>>
       /\ IF shared THEN SharedId(a, print, id) ELSE LocalId(a, print, id)

-----------------------------------------------------------------------------

Request(c, n) == [Client[c] EXCEPT !.messages = SubSeq(Says[c], 1, 2 * n - 1)]

\* Turn n of conversation c is sent with a token of account a.
Send(a, c, n) ==
    /\ Cardinality(given) < MaxRequests
    /\ n > 1 => \E g \in given : g.conv = c /\ g.turn = n - 1
    /\ LET body == ImposeSystem(PreprocessBody(Request(c, n)))
           Sent(id) == [conv |-> c, turn |-> n, account |-> a, at |-> now,
                        body |-> DressTools([body EXCEPT !.user_id = id])]
       IN  \/ /\ body.user_id # Missing
              /\ given' = given \union {Sent(body.user_id)}
              /\ UNCHANGED <<cacheVars, store, born, dropped>>
           \/ /\ body.user_id = Missing
              /\ \E id \in 1 .. MaxIds \union {Blank} :
                    /\ StickyUserID(a, ConversationFingerprint(body.messages), id)
                    /\ given' = given \union {Sent(id)}
    /\ UNCHANGED <<mix, shared, now, restarts>>

\* A new process has an empty cache that counts as just cleaned up; nothing
\* else is lost, so there is nothing to see where the cache was empty.
Restart ==
    /\ restarts < MaxRestarts /\ entries # NoEntries
    /\ restarts' = restarts + 1
    /\ dropped' = dropped \union {entries[k].userID : k \in DOMAIN entries}
    /\ entries' = NoEntries
    /\ lastCleanup' = now
    /\ UNCHANGED <<mix, shared, now, store, born, given>>

Tick ==
    /\ now < MaxTime
    /\ now' = now + 1
    /\ UNCHANGED <<mix, shared, cacheVars, store, born, given, dropped, restarts>>

Next ==
    \/ \E a \in Accounts, c \in mix : \E n \in Turns(c) : Send(a, c, n)
    \/ Restart
    \/ Tick

Spec == Init /\ [][Next]_vars

-----------------------------------------------------------------------------

BodyOK(body) ==
    body \in Body({Client[c].system : c \in Conversation} \union {ClaudeCodeList}, UserIds)

TypeOK ==
    /\ now \in 0 .. MaxTime
    /\ lastCleanup \in 0 .. now
    /\ Cardinality(DOMAIN entries) <= Cap
    /\ \A k \in DOMAIN entries : entries[k] \in [userID : 1 .. Len(born), expiresAt : Nat]
    /\ shared => entries = NoEntries
    /\ \A k \in DOMAIN store : shared /\ store[k] \in 1 .. Len(born)
    /\ \A g \in given : BodyOK(g.body)

\* The requests that were sent with an id of ours.
Sticky == {g \in given : g.body.user_id \in 1 .. Len(born)}

\* An id is never used with another account than the one it was born for,
\* however requests, expiry and eviction follow each other: upstream, one
\* session of two accounts would tie them together.
IdsStayWithAccount ==
    \A g \in Sticky : born[g.body.user_id].account = g.account

\* With a cache an id is not used for longer than TTL after its birth.
IdsRetire ==
    ~shared => \A g \in Sticky : g.at < born[g.body.user_id].at + TTL

Repeats(g, h) ==
    /\ g.conv = h.conv /\ g.turn = h.turn /\ g.account = h.account
    /\ g.body.messages # <<>>

\* A turn that is sent again with the same account (a retry, a failover and
\* back) has the id it had: always with a store, and with a cache before the
\* id is TTL old, unless it was lost at the cap or in a restart.  Cleaning up
\* must not take more than what has expired.
RepeatKeepsId ==
    \A g, h \in Sticky :
        Repeats(g, h) /\ g.body.user_id < h.body.user_id =>
            /\ ~shared
            /\ \/ born[h.body.user_id].at >= born[g.body.user_id].at + TTL
               \/ g.body.user_id \in dropped

\* The reply the client answers with turn n > 1.
Reply(g) == Says[g.conv][2 * g.turn - 2]

\* It is not dropped as empty.
Arrives(m) == \E i \in DOMAIN m.blocks : m.blocks[i] \notin {"blank", "thinking"}

\* Two conversations that have got different replies do not have the same id,
\* even where they began with the same words or the same instructions.
AnsweredApart ==
    \A g, h \in Sticky :
        /\ g.turn > 1 /\ h.turn > 1 /\ Reply(g).says # Reply(h).says
        /\ \A x \in {g, h} : Arrives(Reply(x)) /\ Arrives(Says[x.conv][2 * x.turn - 1])
        => g.body.user_id # h.body.user_id

\* What is sent breaks none of the upstream's rules that sanitize.go and
\* forward.go name, whatever the client sent and in whatever combination: no
\* empty blocks or messages, thinking at the end of the assistant's messages
\* only, Claude Code's system prompt, the full name of the model, no temperature,
\* no tool_choice without tools.  Two things the rewriting does not see are passed
\* on as they come: a system prompt that is no string and does not name Claude
\* Code, and a short model name behind a blank.
SentIsAcceptable ==
    \A g \in given : LET body == g.body IN
        /\ \A i \in DOMAIN body.messages : LET m == body.messages[i] IN
             /\ m.blocks # <<>>
             /\ \A j \in DOMAIN m.blocks :
                  /\ m.blocks[j] # "blank"
                  /\ m.blocks[j] = "thinking" => m.role = "assistant" /\ j = Len(m.blocks)
        /\ \/ body.system \in {ClaudeCode, ClaudeCodeList}
           \/ body.system = OtherList /\ Client[g.conv].system = OtherList
        /\ \/ body.model = "full"
           \/ body.model = "short_spaced" /\ Client[g.conv].model = "short_spaced"
        /\ body.user_id # Missing /\ body.max_tokens /\ ~body.temperature
        /\ body.tools \in {"empty", "cached"} /\ (body.tool_choice => body.tools = "cached")

\* What a sequence of messages says, block by block, without what may be left out.
Said(m) ==
    FlattenSeq([i \in DOMAIN m.blocks |->
        IF m.blocks[i] \in {"blank", "thinking"} THEN <<>>
        ELSE << <<m.role, m.says, m.blocks[i]>> >>])

Words(messages) == FlattenSeq([i \in DOMAIN messages |-> Said(messages[i])])

\* Nothing else is lost: the client's instructions come first, once, as its own
\* words if its system prompt is replaced, then every word of every message in order.
WordsArrive ==
    \A g \in given :
        LET body == Request(g.conv, g.turn)
        IN  Words(g.body.messages) =
              Words(Instructions(IF body.system \in {ClaudeCode, ClaudeCodeList, OtherList}
                                 THEN NoSystem ELSE body.system) \o body.messages)
=============================================================================
