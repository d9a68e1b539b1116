-------------------------- MODULE ConversationsProofs --------------------------
(***************************************************************************)
(* Theorems about Conversations, for any conversations, accounts, caps,      *)
(* lifetimes and numbers of requests.                                        *)
(*                                                                          *)
(* Of the session ids: an id stays with the account it was born for, retires *)
(* in time, stays with a turn that is repeated, and is not that of another   *)
(* conversation.  Of the bodies: what is sent is acceptable, and says what   *)
(* the client said.                                                         *)
(***************************************************************************)
EXTENDS Conversations, FiniteSetTheorems, SequenceTheorems, WellFoundedInduction, TLAPS

-----------------------------------------------------------------------------
(* What is kept of a sequence: facts by the least index they fail at.       *)

\* The induction principle, for a set of the indices something holds at.
LEMMA Indices ==
    ASSUME NEW N \in Nat, NEW T, 0 \in T, \A n \in 0 .. N : n < N /\ n \in T => n + 1 \in T
    PROVE  0 .. N \subseteq T
<1> DEFINE Fails == {n \in Nat : n <= N /\ n \notin T}
<1> SUFFICES ASSUME Fails # {} PROVE FALSE
  OBVIOUS
<1>1. PICK m \in Fails : \A n \in Fails : ~(<<n, m>> \in OpToRel(<, Nat))
  BY NatLessThanWellFounded, WFMin
<1>2. m \in Nat /\ m <= N /\ m \notin T /\ m # 0
  BY <1>1
<1>3. m - 1 \in Fails
  BY <1>2
<1>4. <<m - 1, m>> \in OpToRel(<, Nat)
  BY <1>2 DEF OpToRel
<1> QED BY <1>1, <1>3, <1>4

\* What Kept does up to each index.
Builds(f, seq, I) ==
    f = [n \in 0 .. Len(seq) |->
            IF n = 0 THEN <<>>
            ELSE IF n \in I THEN Append(f[n - 1], seq[n]) ELSE f[n - 1]]

UpTo(seq, I) == CHOOSE f : Builds(f, seq, I)

LEMMA KeptUpTo == \A seq, I : Kept(seq, I) = UpTo(seq, I)[Len(seq)]
BY DEF Kept, UpTo, Builds

LEMMA SomeBuilds ==
    ASSUME NEW S, NEW seq \in Seq(S), NEW I
    PROVE  \E f : Builds(f, seq, I)
<1> DEFINE N == Len(seq)
           Starts(f, n) ==
              /\ f[0] = <<>>
              /\ \A i \in 1 .. n :
                    f[i] = IF i \in I THEN Append(f[i - 1], seq[i]) ELSE f[i - 1]
           T == {n \in 0 .. N : \E f : Starts(f, n)}
<1>1. N \in Nat
  OBVIOUS
<1>2. 0 \in T
  <2>1. Starts([i \in {0} |-> <<>>], 0)
    OBVIOUS
  <2>2. \E f : Starts(f, 0)
    BY <2>1
  <2> QED BY <1>1, <2>2
<1>3. ASSUME NEW n \in 0 .. N, n < N, n \in T PROVE n + 1 \in T
  <2>1. PICK f : Starts(f, n)
    BY <1>3
  <2> DEFINE last == IF n + 1 \in I THEN Append(f[n], seq[n + 1]) ELSE f[n]
             g == [i \in 0 .. (n + 1) |-> IF i = n + 1 THEN last ELSE f[i]]
  <2>2. g[0] = <<>>
    BY <1>3, <2>1
  <2>3. ASSUME NEW i \in 1 .. (n + 1)
        PROVE  g[i] = IF i \in I THEN Append(g[i - 1], seq[i]) ELSE g[i - 1]
    <3>1. g[i - 1] = f[i - 1]
      OBVIOUS
    <3>2. CASE i = n + 1
      BY <3>1, <3>2
    <3>3. CASE i # n + 1
      <4>1. i \in 1 .. n /\ g[i] = f[i]
        BY <3>3
      <4> QED BY <2>1, <3>1, <4>1
    <3> QED BY <3>2, <3>3
  <2> HIDE DEF g
  <2>4. Starts(g, n + 1) /\ n + 1 \in 0 .. N
    BY <1>1, <1>3, <2>2, <2>3
  <2>5. \E h : Starts(h, n + 1)
    BY <2>4
  <2> HIDE DEF Starts
  <2> QED BY <2>4, <2>5
<1>4. N \in T
  <2> HIDE DEF T, N
  <2>1. 0 .. N \subseteq T
    BY <1>1, <1>2, <1>3, Indices
  <2> QED BY <1>1, <2>1
<1>5. PICK f : Starts(f, N)
  BY <1>4
<1> DEFINE g == [n \in 0 .. N |-> f[n]]
<1>6. g = [n \in 0 .. N |-> IF n = 0 THEN <<>>
                            ELSE IF n \in I THEN Append(g[n - 1], seq[n]) ELSE g[n - 1]]
  <2> SUFFICES ASSUME NEW n \in 0 .. N
               PROVE  g[n] = IF n = 0 THEN <<>>
                             ELSE IF n \in I THEN Append(g[n - 1], seq[n]) ELSE g[n - 1]
    OBVIOUS
  <2>1. CASE n = 0
    BY <1>5, <2>1
  <2>2. CASE n # 0
    <3>1. n \in 1 .. N /\ g[n] = f[n] /\ g[n - 1] = f[n - 1]
      BY <1>1, <2>2
    <3> QED BY <1>5, <3>1
  <2> QED BY <2>1, <2>2
<1> QED BY <1>6 DEF Builds

LEMMA KeptStep ==
    ASSUME NEW S, NEW seq \in Seq(S), NEW I
    PROVE  /\ UpTo(seq, I)[0] = <<>>
           /\ \A n \in 1 .. Len(seq) :
                UpTo(seq, I)[n] = IF n \in I THEN Append(UpTo(seq, I)[n - 1], seq[n])
                                  ELSE UpTo(seq, I)[n - 1]
<1>1. Builds(UpTo(seq, I), seq, I)
  <2>1. \E f : Builds(f, seq, I)
    BY SomeBuilds
  <2> QED BY <2>1, Zenon DEF UpTo
<1>2. PICK f : f = UpTo(seq, I)
  OBVIOUS
<1>3. Len(seq) \in Nat /\ Builds(f, seq, I)
  BY <1>1, <1>2
<1>4. f[0] = <<>> /\ \A n \in 1 .. Len(seq) : f[n] = IF n \in I THEN Append(f[n - 1], seq[n])
                                                     ELSE f[n - 1]
  <2>1. \A n \in 0 .. Len(seq) : f[n] = IF n = 0 THEN <<>> ELSE
                                         IF n \in I THEN Append(f[n - 1], seq[n]) ELSE f[n - 1]
    BY <1>3, Zenon DEF Builds
  <2> QED BY <1>3, <2>1
<1> QED BY <1>2, <1>4

LEMMA UpToTypes ==
    ASSUME NEW S, NEW seq \in Seq(S), NEW I
    PROVE  \A n \in 0 .. Len(seq) : UpTo(seq, I)[n] \in Seq(S)
<1> DEFINE f == UpTo(seq, I)
           T == {n \in 0 .. Len(seq) : f[n] \in Seq(S)}
<1>1. /\ Len(seq) \in Nat /\ f[0] = <<>>
      /\ \A n \in 1 .. Len(seq) : f[n] = IF n \in I THEN Append(f[n - 1], seq[n]) ELSE f[n - 1]
  BY KeptStep
<1> HIDE DEF f
<1>2. 0 \in T
  <2>1. f[0] \in Seq(S) /\ 0 \in 0 .. Len(seq)
    BY <1>1, EmptySeq
  <2> QED BY <2>1
<1>3. ASSUME NEW n \in 0 .. Len(seq), n < Len(seq), n \in T PROVE n + 1 \in T
  <2>1. n + 1 \in 1 .. Len(seq) /\ (n + 1) - 1 = n /\ seq[n + 1] \in S /\ f[n] \in Seq(S)
    BY <1>3
  <2>2. f[n + 1] = IF n + 1 \in I THEN Append(f[n], seq[n + 1]) ELSE f[n]
    BY <1>1, <2>1
  <2>3. f[n + 1] \in Seq(S) /\ n + 1 \in 0 .. Len(seq)
    BY <2>1, <2>2
  <2> QED BY <2>3
<1> HIDE DEF T
<1>4. 0 .. Len(seq) \subseteq T
  BY <1>1, <1>2, <1>3, Indices
<1> QED BY <1>4 DEF T, f

\* What is kept comes from the sequence, the last element from the end only.
LEMMA KeptFrom ==
    ASSUME NEW S, NEW seq \in Seq(S), NEW I
    PROVE  /\ Kept(seq, I) \in Seq(S)
           /\ \A j \in DOMAIN Kept(seq, I) : \E i \in I \cap (1 .. Len(seq)) :
                /\ Kept(seq, I)[j] = seq[i]
                /\ i = Len(seq) => j = Len(Kept(seq, I))
<1> DEFINE f == UpTo(seq, I)
           From(n) == \A j \in 1 .. Len(f[n]) : \E i \in I \cap (1 .. n) :
                        f[n][j] = seq[i] /\ (i = n => j = Len(f[n]))
           T == {n \in 0 .. Len(seq) : From(n)}
<1>1. /\ Len(seq) \in Nat /\ f[0] = <<>>
      /\ \A n \in 0 .. Len(seq) : f[n] \in Seq(S)
      /\ \A n \in 1 .. Len(seq) : f[n] = IF n \in I THEN Append(f[n - 1], seq[n]) ELSE f[n - 1]
  BY KeptStep, UpToTypes
<1> HIDE DEF f
<1>2. 0 \in T
  BY <1>1
<1>3. ASSUME NEW n \in 0 .. Len(seq), n < Len(seq), n \in T PROVE n + 1 \in T
  <2>1. /\ n + 1 \in 1 .. Len(seq) /\ (n + 1) - 1 = n /\ seq[n + 1] \in S
        /\ f[n] \in Seq(S) /\ From(n)
        /\ f[n + 1] = IF n + 1 \in I THEN Append(f[n], seq[n + 1]) ELSE f[n]
    BY <1>1, <1>3
  <2>2. ASSUME NEW j \in 1 .. Len(f[n + 1])
        PROVE  \E i \in I \cap (1 .. (n + 1)) :
                 f[n + 1][j] = seq[i] /\ (i = n + 1 => j = Len(f[n + 1]))
    <3>1. CASE j \in 1 .. Len(f[n])
      <4>1. PICK i \in I \cap (1 .. n) : f[n][j] = seq[i]
        BY <2>1, <3>1
      <4>2. f[n + 1][j] = f[n][j]
        BY <2>1, <3>1
      <4>3. i \in I \cap (1 .. (n + 1)) /\ i # n + 1
        BY <4>1
      <4> QED BY <4>1, <4>2, <4>3
    <3>2. CASE j \notin 1 .. Len(f[n])
      <4>1. n + 1 \in I /\ j = Len(f[n]) + 1 /\ j = Len(f[n + 1]) /\ f[n + 1][j] = seq[n + 1]
        BY <2>1, <3>2
      <4>2. n + 1 \in I \cap (1 .. (n + 1))
        BY <4>1
      <4> QED BY <4>1, <4>2
    <3> QED BY <3>1, <3>2
  <2>3. From(n + 1)
    BY <2>2
  <2> HIDE DEF From
  <2> QED BY <2>1, <2>3
<1>4. From(Len(seq))
  <2> HIDE DEF T
  <2>1. 0 .. Len(seq) \subseteq T
    BY <1>1, <1>2, <1>3, Indices
  <2> QED BY <1>1, <2>1 DEF T
<1>5. Kept(seq, I) = f[Len(seq)]
  BY KeptUpTo DEF f
<1>6. f[Len(seq)] \in Seq(S)
  BY <1>1
<1>7. PICK g : g = Kept(seq, I) /\ g = f[Len(seq)]
  BY <1>5
<1>8. g \in Seq(S) /\ DOMAIN g = 1 .. Len(g)
  BY <1>6, <1>7
<1>9. \A j \in 1 .. Len(g) : \E i \in I \cap (1 .. Len(seq)) :
        g[j] = seq[i] /\ (i = Len(seq) => j = Len(g))
  BY <1>4, <1>7
<1> QED BY <1>7, <1>8, <1>9

LEMMA KeptSome ==
    ASSUME NEW S, NEW seq \in Seq(S), NEW I, NEW i \in 1 .. Len(seq), i \in I
    PROVE  Kept(seq, I) # <<>>
<1> DEFINE f == UpTo(seq, I)
           T == {n \in 0 .. Len(seq) : n >= i => Len(f[n]) > 0}
<1>1. /\ Len(seq) \in Nat /\ f[0] = <<>>
      /\ \A n \in 0 .. Len(seq) : f[n] \in Seq(S) /\ Len(f[n]) \in Nat
      /\ \A n \in 1 .. Len(seq) : f[n] = IF n \in I THEN Append(f[n - 1], seq[n]) ELSE f[n - 1]
  BY KeptStep, UpToTypes
<1> HIDE DEF f
<1>2. 0 \in T
  BY <1>1
<1>3. ASSUME NEW n \in 0 .. Len(seq), n < Len(seq), n \in T PROVE n + 1 \in T
  <2>1. /\ n + 1 \in 1 .. Len(seq) /\ (n + 1) - 1 = n /\ seq[n + 1] \in S
        /\ f[n] \in Seq(S) /\ Len(f[n]) \in Nat
        /\ f[n + 1] = IF n + 1 \in I THEN Append(f[n], seq[n + 1]) ELSE f[n]
    BY <1>1, <1>3
  <2>2. n + 1 \in I => Len(f[n + 1]) = Len(f[n]) + 1
    BY <2>1
  <2>3. n + 1 \notin I => Len(f[n + 1]) = Len(f[n]) /\ n + 1 # i
    BY <2>1
  <2>4. n >= i => Len(f[n]) > 0
    BY <1>3
  <2>5. n + 1 >= i => Len(f[n + 1]) > 0
    BY <2>1, <2>2, <2>3, <2>4
  <2>6. n + 1 \in 0 .. Len(seq)
    BY <2>1
  <2> QED BY <2>5, <2>6
<1> HIDE DEF T
<1>4. 0 .. Len(seq) \subseteq T
  BY <1>1, <1>2, <1>3, Indices
<1>5. Len(f[Len(seq)]) > 0
  BY <1>1, <1>4 DEF T
<1>6. Kept(seq, I) = f[Len(seq)]
  BY KeptUpTo DEF f
<1> QED BY <1>5, <1>6

LEMMA KeptEnd ==
    ASSUME NEW S, NEW seq \in Seq(S), NEW I, Len(seq) >= 2, {Len(seq) - 1, Len(seq)} \subseteq I
    PROVE  /\ Len(Kept(seq, I)) >= 2
           /\ Kept(seq, I)[Len(Kept(seq, I)) - 1] = seq[Len(seq) - 1]
<1> DEFINE f == UpTo(seq, I)
           N == Len(seq)
<1>1. /\ N \in Nat /\ f[N - 2] \in Seq(S) /\ f[N - 1] \in Seq(S)
      /\ f[N - 1] = Append(f[N - 2], seq[N - 1]) /\ f[N] = Append(f[N - 1], seq[N])
      /\ seq[N - 1] \in S /\ seq[N] \in S
  <2>1. N \in Nat /\ N - 2 \in 0 .. N /\ N - 1 \in 1 .. N /\ N \in 1 .. N /\ (N - 1) - 1 = N - 2
    OBVIOUS
  <2> HIDE DEF N
  <2>2. f[N - 2] \in Seq(S) /\ f[N - 1] \in Seq(S)
    BY <2>1, UpToTypes DEF N
  <2>3. f[N - 1] = Append(f[N - 2], seq[N - 1]) /\ f[N] = Append(f[N - 1], seq[N])
    <3>1. \A n \in 1 .. N : f[n] = IF n \in I THEN Append(f[n - 1], seq[n]) ELSE f[n - 1]
      BY KeptStep DEF N
    <3> HIDE DEF f
    <3> QED BY <2>1, <3>1 DEF N
  <2> QED BY <2>1, <2>2, <2>3 DEF N
<1>2. Kept(seq, I) = f[N]
  BY KeptUpTo
<1> HIDE DEF f
<1>3. Len(f[N]) = Len(f[N - 2]) + 2 /\ f[N][Len(f[N]) - 1] = seq[N - 1] /\ Len(f[N - 2]) \in Nat
  BY <1>1
<1> QED BY <1>2, <1>3

-----------------------------------------------------------------------------
(* What the rewriting makes of any request.                                 *)

\* A message the upstream takes.
Clean(m) ==
    /\ m.blocks # <<>>
    /\ \A j \in DOMAIN m.blocks :
         /\ m.blocks[j] # "blank"
         /\ m.blocks[j] = "thinking" => m.role = "assistant" /\ j = Len(m.blocks)

Blocks == {"text", "blank", "thinking", "tool_use", "image"}

LEMMA MessageFields ==
    \A m : m \in Message <=> /\ m = [role |-> m.role, says |-> m.says, blocks |-> m.blocks]
                             /\ m.role \in {"user", "assistant"} /\ m.says \in STRING
                             /\ m.blocks \in Seq(Blocks)
<1> SUFFICES ASSUME NEW m
             PROVE  m \in Message <=> /\ m = [role |-> m.role, says |-> m.says, blocks |-> m.blocks]
                                       /\ m.role \in {"user", "assistant"} /\ m.says \in STRING
                                       /\ m.blocks \in Seq(Blocks)
  OBVIOUS
<1>1. ASSUME m \in Message
      PROVE  /\ m = [role |-> m.role, says |-> m.says, blocks |-> m.blocks]
             /\ m.role \in {"user", "assistant"} /\ m.says \in STRING
             /\ m.blocks \in Seq(Blocks)
  BY <1>1 DEF Message, Blocks
<1>2. ASSUME NEW r \in {"user", "assistant"}, NEW s \in STRING, NEW b \in Seq(Blocks)
      PROVE  [role |-> r, says |-> s, blocks |-> b] \in Message
  BY Zenon DEF Message, Blocks
<1>3. ASSUME m = [role |-> m.role, says |-> m.says, blocks |-> m.blocks],
             m.role \in {"user", "assistant"}, m.says \in STRING, m.blocks \in Seq(Blocks)
      PROVE  m \in Message
  <2>1. [role |-> m.role, says |-> m.says, blocks |-> m.blocks] \in Message
    BY <1>2, <1>3
  <2> QED BY <1>3, <2>1
<1> QED BY <1>1, <1>3

LEMMA FilteredMessage ==
    ASSUME NEW m \in Message
    PROVE  LET f == FilterContentBlocks(m)
           IN  /\ f \in Message /\ f.role = m.role /\ f.says = m.says
               /\ f.blocks # <<>> => Clean(f)
               /\ (\E i \in DOMAIN m.blocks : m.blocks[i] \notin {"blank", "thinking"})
                     => f.blocks # <<>>
<1>1. /\ m = [role |-> m.role, says |-> m.says, blocks |-> m.blocks]
      /\ m.role \in {"user", "assistant"} /\ m.says \in STRING /\ m.blocks \in Seq(Blocks)
  BY MessageFields
<1> DEFINE f == FilterContentBlocks(m)
<1>2. PICK b : b = Kept(m.blocks, Stays(m))
  OBVIOUS
<1>3. f = [role |-> m.role, says |-> m.says, blocks |-> b]
  BY <1>1, <1>2 DEF FilterContentBlocks
<1>4. /\ b \in Seq(Blocks) /\ DOMAIN b = 1 .. Len(b)
      /\ DOMAIN m.blocks = 1 .. Len(m.blocks)
      /\ \A j \in DOMAIN b : \E i \in Stays(m) \cap (1 .. Len(m.blocks)) :
            b[j] = m.blocks[i] /\ (i = Len(m.blocks) => j = Len(b))
  <2>1. b \in Seq(Blocks) /\ \A j \in DOMAIN b : \E i \in Stays(m) \cap (1 .. Len(m.blocks)) :
            b[j] = m.blocks[i] /\ (i = Len(m.blocks) => j = Len(b))
    BY <1>1, <1>2, KeptFrom
  <2> QED BY <1>1, <2>1
<1>5. f.role = m.role /\ f.says = m.says /\ f.blocks = b
  BY <1>3
<1>6. f \in Message
  <2> HIDE DEF f
  <2> QED BY <1>1, <1>3, <1>4, <1>5, MessageFields
<1>7. b # <<>> => Clean(f)
  <2> HIDE DEF f
  <2> SUFFICES ASSUME NEW j \in DOMAIN b
               PROVE  /\ b[j] # "blank"
                      /\ b[j] = "thinking" => m.role = "assistant" /\ j = Len(b)
    BY <1>5 DEF Clean
  <2>1. PICK i \in Stays(m) \cap (1 .. Len(m.blocks)) :
              b[j] = m.blocks[i] /\ (i = Len(m.blocks) => j = Len(b))
    BY <1>4
  <2> QED BY <2>1 DEF Stays
<1>8. ASSUME NEW i \in DOMAIN m.blocks, m.blocks[i] \notin {"blank", "thinking"} PROVE b # <<>>
  <2>1. i \in 1 .. Len(m.blocks) /\ i \in Stays(m)
    BY <1>4, <1>8 DEF Stays
  <2> QED BY <1>1, <1>2, <2>1, KeptSome
<1> HIDE DEF f
<1> QED BY <1>5, <1>6, <1>7, <1>8 DEF f

Filtered(messages)  == [i \in DOMAIN messages |-> FilterContentBlocks(messages[i])]
NonEmpty(messages)  == {i \in DOMAIN messages : messages[i].blocks # <<>>}
Sanitized(messages) == Kept(Filtered(messages), NonEmpty(Filtered(messages)))

LEMMA FilteredMessages ==
    ASSUME NEW messages \in Seq(Message)
    PROVE  /\ Filtered(messages) \in Seq(Message)
           /\ Len(Filtered(messages)) = Len(messages)
           /\ \A i \in 1 .. Len(messages) : Filtered(messages)[i] = FilterContentBlocks(messages[i])
<1>1. Len(messages) \in Nat /\ DOMAIN messages = 1 .. Len(messages)
  OBVIOUS
<1>2. \A i \in 1 .. Len(messages) : FilterContentBlocks(messages[i]) \in Message
  <2>1. \A i \in 1 .. Len(messages) : messages[i] \in Message
    BY ElementOfSeq
  <2> QED BY <2>1, FilteredMessage
<1>3. Filtered(messages) = [i \in 1 .. Len(messages) |-> FilterContentBlocks(messages[i])]
  BY <1>1 DEF Filtered
<1>4. Filtered(messages) \in Seq(Message)
  BY <1>1, <1>2, <1>3, IsASeq
<1>5. Len(Filtered(messages)) = Len(messages)
  BY <1>1, <1>3, <1>4
<1> QED BY <1>3, <1>4, <1>5

LEMMA SanitizedMessages ==
    ASSUME NEW messages \in Seq(Message)
    PROVE  /\ Sanitized(messages) \in Seq(Message)
           /\ \A j \in 1 .. Len(Sanitized(messages)) : Clean(Sanitized(messages)[j])
<1> DEFINE filtered == Filtered(messages)
<1>1. /\ filtered \in Seq(Message) /\ Len(filtered) = Len(messages) /\ Len(messages) \in Nat
      /\ \A i \in 1 .. Len(messages) :
           filtered[i] = FilterContentBlocks(messages[i]) /\ messages[i] \in Message
  <2>1. \A i \in 1 .. Len(messages) : messages[i] \in Message
    BY ElementOfSeq
  <2> QED BY <2>1, FilteredMessages
<1>2. PICK kept : kept = Sanitized(messages)
  OBVIOUS
<1> HIDE DEF filtered
<1>3. /\ kept \in Seq(Message)
      /\ \A j \in DOMAIN kept : \E i \in NonEmpty(filtered) \cap (1 .. Len(filtered)) :
            kept[j] = filtered[i]
  <2>1. kept = Kept(filtered, NonEmpty(filtered))
    BY <1>2 DEF Sanitized, filtered
  <2> QED BY <1>1, <2>1, KeptFrom
<1>4. ASSUME NEW j \in 1 .. Len(kept) PROVE Clean(kept[j])
  <2>1. DOMAIN kept = 1 .. Len(kept)
    BY <1>3
  <2>2. PICK i \in NonEmpty(filtered) \cap (1 .. Len(filtered)) : kept[j] = filtered[i]
    BY <1>3, <2>1
  <2>3. filtered[i].blocks # <<>> /\ filtered[i] = FilterContentBlocks(messages[i])
        /\ messages[i] \in Message
    BY <1>1, <2>2 DEF NonEmpty
  <2> QED BY <2>2, <2>3, FilteredMessage
<1> QED BY <1>2, <1>3, <1>4

Systems == {Client[c].system : c \in Conversation} \union {ClaudeCodeList}

LEMMA BodyFields ==
    ASSUME NEW S, NEW U, NEW b \in Body(S, U)
    PROVE  /\ b = [messages |-> b.messages, system |-> b.system, model |-> b.model,
                   max_tokens |-> b.max_tokens, tools |-> b.tools,
                   tool_choice |-> b.tool_choice, temperature |-> b.temperature,
                   user_id |-> b.user_id]
           /\ b.messages \in Seq(Message) /\ b.system \in S
           /\ b.model \in {"full", "short", "short_spaced"} /\ b.max_tokens \in BOOLEAN
           /\ b.tools \in {"missing", "empty", "some", "cached"}
           /\ b.tool_choice \in BOOLEAN /\ b.temperature \in BOOLEAN /\ b.user_id \in U
BY DEF Body

LEMMA BodyOf ==
    ASSUME NEW S, NEW U, NEW b, NEW m \in Seq(Message), NEW s \in S,
           NEW l \in {"full", "short", "short_spaced"}, NEW x \in BOOLEAN,
           NEW t \in {"missing", "empty", "some", "cached"},
           NEW tc \in BOOLEAN, NEW te \in BOOLEAN, NEW u \in U,
           b = [messages |-> m, system |-> s, model |-> l, max_tokens |-> x, tools |-> t,
                tool_choice |-> tc, temperature |-> te, user_id |-> u]
    PROVE  /\ b \in Body(S, U)
           /\ b.messages = m /\ b.system = s /\ b.model = l /\ b.max_tokens = x /\ b.tools = t
           /\ b.tool_choice = tc /\ b.temperature = te /\ b.user_id = u
<1>1. b \in Body(S, U)
  BY Zenon DEF Body
<1> QED BY <1>1

LEMMA ClientRequest ==
    ASSUME NEW c \in Conversation, NEW n \in Turns(c)
    PROVE  LET b == Request(c, n)
           IN  /\ b \in Body(Systems, {Own, Missing}) /\ b.system = Client[c].system
               /\ b.model = Client[c].model /\ b.system \in STRING
               /\ b.messages = SubSeq(Says[c], 1, 2 * n - 1)
               /\ b.messages \in Seq(Message) /\ Len(b.messages) = 2 * n - 1
               /\ 2 * n - 1 \in 1 .. Len(Says[c])
               /\ \A i \in 1 .. (2 * n - 1) : b.messages[i] = Says[c][i]
<1>1. Client[c] \in Body(STRING, {Own, Missing}) /\ Says[c] \in Seq(Message)
  BY ConversationsAssumption
<1>2. 2 * n - 1 \in 1 .. Len(Says[c]) /\ Len(Says[c]) \in Nat
  <2>1. PICK len \in Nat : len = Len(Says[c])
    BY <1>1
  <2>2. \A l \in Nat : 2 * ((l + 1) \div 2) <= l + 1 /\ (l + 1) \div 2 \in Nat
    OBVIOUS
  <2>3. n \in 1 .. (len + 1) \div 2
    BY <2>1 DEF Turns
  <2>4. 2 * n <= len + 1 /\ n \in Nat /\ n >= 1
    BY <2>2, <2>3
  <2> QED BY <2>1, <2>4
<1>3. PICK m : m = SubSeq(Says[c], 1, 2 * n - 1)
  OBVIOUS
<1>4. m \in Seq(Message) /\ Len(m) = 2 * n - 1 /\ \A i \in 1 .. (2 * n - 1) : m[i] = Says[c][i]
  BY <1>1, <1>2, <1>3
<1>5. PICK b : b = Request(c, n)
  OBVIOUS
<1>6. PICK k \in Body(STRING, {Own, Missing}) : k = Client[c]
  BY <1>1
<1>7. b = [messages |-> m, system |-> k.system, model |-> k.model,
           max_tokens |-> k.max_tokens, tools |-> k.tools, tool_choice |-> k.tool_choice,
           temperature |-> k.temperature, user_id |-> k.user_id]
  <2>1. k = [messages |-> k.messages, system |-> k.system, model |-> k.model,
             max_tokens |-> k.max_tokens, tools |-> k.tools, tool_choice |-> k.tool_choice,
             temperature |-> k.temperature, user_id |-> k.user_id]
    BY BodyFields
  <2>2. b = [k EXCEPT !.messages = m]
    BY <1>3, <1>5, <1>6 DEF Request
  <2> QED BY <2>1, <2>2
<1>8. k.system \in Systems /\ k.system \in STRING
  BY <1>6, BodyFields DEF Systems
<1>9. b \in Body(Systems, {Own, Missing}) /\ b.messages = m /\ b.system = k.system
      /\ b.model = k.model
  <2>1. /\ k.model \in {"full", "short", "short_spaced"} /\ k.max_tokens \in BOOLEAN
        /\ k.tools \in {"missing", "empty", "some", "cached"}
        /\ k.tool_choice \in BOOLEAN /\ k.temperature \in BOOLEAN
        /\ k.user_id \in {Own, Missing}
    BY BodyFields
  <2> QED BY <1>4, <1>7, <1>8, <2>1, BodyOf
<1> QED BY <1>2, <1>3, <1>4, <1>5, <1>6, <1>8, <1>9

\* What SentIsAcceptable says of a system prompt and of a model, by what the
\* client's own were.
PromptPasses(sent, own) ==
    sent \in {ClaudeCode, ClaudeCodeList} \/ (sent = OtherList /\ own = OtherList)
ModelPasses(sent, own) ==
    sent = "full" \/ (sent = "short_spaced" /\ own = "short_spaced")

\* preprocessBody
LEMMA Preprocessed ==
    ASSUME NEW S, NEW U, NEW b \in Body(S, U)
    PROVE  LET p == PreprocessBody(b)
           IN  /\ p \in Body(S, U) /\ p.system = b.system
               /\ p.messages = Sanitized(b.messages)
               /\ p.max_tokens /\ ModelPasses(p.model, b.model)
<1>1. PICK l : l = IF b.model = "short" THEN "full" ELSE b.model
  OBVIOUS
<1>2. PICK k : k = Sanitized(b.messages)
  OBVIOUS
<1>3. NormalizeRequestBody(b) =
        [messages |-> b.messages, system |-> b.system, model |-> l, max_tokens |-> b.max_tokens,
         tools |-> b.tools, tool_choice |-> b.tool_choice, temperature |-> b.temperature,
         user_id |-> b.user_id]
  BY <1>1, BodyFields DEF NormalizeRequestBody
<1>4. PICK p : p = PreprocessBody(b)
  OBVIOUS
<1>5. p = [messages |-> k, system |-> b.system, model |-> l, max_tokens |-> TRUE,
           tools |-> b.tools, tool_choice |-> b.tool_choice, temperature |-> b.temperature,
           user_id |-> b.user_id]
  <2>1. PICK q : q = NormalizeRequestBody(b)
    OBVIOUS
  <2>2. PICK r : r = IF NeedsMaxTokens(q) THEN [q EXCEPT !.max_tokens = TRUE] ELSE q
    OBVIOUS
  <2>3. q.max_tokens = b.max_tokens /\ b.max_tokens \in BOOLEAN
    BY <1>3, <2>1, BodyFields
  <2>4. r = [messages |-> b.messages, system |-> b.system, model |-> l, max_tokens |-> TRUE,
             tools |-> b.tools, tool_choice |-> b.tool_choice, temperature |-> b.temperature,
             user_id |-> b.user_id]
    <3>1. q.max_tokens = TRUE => r = q
      BY <2>2 DEF NeedsMaxTokens
    <3>2. q.max_tokens = FALSE => r = [q EXCEPT !.max_tokens = TRUE]
      BY <2>2 DEF NeedsMaxTokens
    <3> QED BY <1>3, <2>1, <2>3, <3>1, <3>2
  <2>5. p = SanitizeBody(r)
    BY <1>4, <2>1, <2>2 DEF PreprocessBody
  <2>6. SanitizeBody(r) = [r EXCEPT !.messages = Sanitized(r.messages)]
    BY DEF SanitizeBody, Sanitized, Filtered, NonEmpty
  <2>7. r.messages = b.messages
    BY <2>4
  <2> QED BY <1>2, <2>4, <2>5, <2>6, <2>7
<1>6. k \in Seq(Message)
  BY <1>2, SanitizedMessages, BodyFields
<1>7. l \in {"full", "short", "short_spaced"} /\ ModelPasses(l, b.model) /\ TRUE \in BOOLEAN
  BY <1>1, BodyFields DEF ModelPasses
<1>8. /\ b.system \in S /\ b.tools \in {"missing", "empty", "some", "cached"}
      /\ b.tool_choice \in BOOLEAN /\ b.temperature \in BOOLEAN /\ b.user_id \in U
  BY BodyFields
<1>9. /\ p \in Body(S, U) /\ p.messages = k /\ p.system = b.system /\ p.model = l
      /\ p.max_tokens = TRUE
  <2>1. PICK x \in BOOLEAN : x = TRUE
    OBVIOUS
  <2>2. p = [messages |-> k, system |-> b.system, model |-> l, max_tokens |-> x,
             tools |-> b.tools, tool_choice |-> b.tool_choice, temperature |-> b.temperature,
             user_id |-> b.user_id]
    BY <1>5, <2>1
  <2>3. p \in Body(S, U) /\ p.messages = k /\ p.system = b.system /\ p.model = l /\ p.max_tokens = x
    BY <1>6, <1>7, <1>8, <2>2, BodyOf
  <2> QED BY <2>1, <2>3
<1> QED BY <1>2, <1>4, <1>7, <1>9

\* The client's own instructions, where its system prompt is replaced.
Foreword(system) == IF NeedsRewrite(system) THEN Instructions(system) ELSE <<>>

LEMMA ForewordMessages ==
    ASSUME NEW s \in STRING
    PROVE  /\ Foreword(s) \in Seq(Message)
           /\ \A j \in 1 .. Len(Foreword(s)) : Clean(Foreword(s)[j])
<1>1. CASE Foreword(s) = <<>>
  BY <1>1
<1>2. CASE Foreword(s) # <<>>
  <2> DEFINE u == [role |-> "user", says |-> s, blocks |-> <<"text">>]
             a == [role |-> "assistant", says |-> Understood, blocks |-> <<"text">>]
  <2>1. Foreword(s) = <<u, a>>
    BY <1>2 DEF Foreword, Instructions
  <2>2. <<"text">> \in Seq(Blocks)
    BY DEF Blocks
  <2>3. u \in Message /\ a \in Message
    <3>1. \A r \in {"user", "assistant"}, x \in STRING, b \in Seq(Blocks) :
            [role |-> r, says |-> x, blocks |-> b] \in Message
      BY Zenon DEF Message, Blocks
    <3> QED BY <2>2, <3>1, UnderstoodIsText
  <2>4. Clean(u) /\ Clean(a)
    BY DEF Clean
  <2> HIDE DEF u, a
  <2>5. <<u, a>> \in Seq(Message) /\ Len(<<u, a>>) = 2 /\ <<u, a>>[1] = u /\ <<u, a>>[2] = a
    BY <2>3
  <2> QED BY <2>1, <2>4, <2>5
<1> QED BY <1>1, <1>2

\* preprocessOAuthBody, the system prompt
LEMMA Imposed ==
    ASSUME NEW S, NEW U, NEW b \in Body(S, U), b.system \in STRING, ClaudeCodeList \in S
    PROVE  LET i == ImposeSystem(b)
           IN  /\ i \in Body(S, U) /\ PromptPasses(i.system, b.system)
               /\ i.messages = Foreword(b.system) \o b.messages
               /\ i.model = b.model /\ i.max_tokens = b.max_tokens /\ i.user_id = b.user_id
<1>1. PICK f \in Seq(Message) : f = Foreword(b.system)
  BY ForewordMessages
<1>2. b.messages \in Seq(Message) /\ f \o b.messages \in Seq(Message)
  BY BodyFields
<1>3. CASE NeedsRewrite(b.system)
  <2>1. PICK i : i = ImposeSystem(b)
    OBVIOUS
  <2>2. i = [b EXCEPT !.messages = f \o b.messages, !.system = ClaudeCodeList]
    BY <1>1, <1>3, <2>1 DEF ImposeSystem, Foreword
  <2>3. PICK m \in Seq(Message) : m = f \o b.messages
    BY <1>2
  <2>4. i = [messages |-> m, system |-> ClaudeCodeList, model |-> b.model,
             max_tokens |-> b.max_tokens, tools |-> b.tools, tool_choice |-> b.tool_choice,
             temperature |-> b.temperature, user_id |-> b.user_id]
    <3>1. b = [messages |-> b.messages, system |-> b.system, model |-> b.model,
               max_tokens |-> b.max_tokens, tools |-> b.tools, tool_choice |-> b.tool_choice,
               temperature |-> b.temperature, user_id |-> b.user_id]
      BY BodyFields
    <3> QED BY <2>2, <2>3, <3>1
  <2>5. /\ b.model \in {"full", "short", "short_spaced"} /\ b.max_tokens \in BOOLEAN
        /\ b.tools \in {"missing", "empty", "some", "cached"}
        /\ b.tool_choice \in BOOLEAN /\ b.temperature \in BOOLEAN /\ b.user_id \in U
    BY BodyFields
  <2>6. /\ i \in Body(S, U) /\ i.messages = m /\ i.system = ClaudeCodeList /\ i.model = b.model
        /\ i.max_tokens = b.max_tokens /\ i.user_id = b.user_id
    BY <2>4, <2>5, BodyOf
  <2>7. PromptPasses(i.system, b.system)
    BY <2>6 DEF PromptPasses
  <2> QED BY <1>1, <2>1, <2>3, <2>6, <2>7
<1>4. CASE ~NeedsRewrite(b.system)
  <2>1. ImposeSystem(b) = b /\ PromptPasses(b.system, b.system) /\ f = <<>>
    BY <1>1, <1>4 DEF ImposeSystem, Foreword, NeedsRewrite, PromptPasses
  <2>2. b.messages = f \o b.messages
    BY <1>2, <2>1
  <2> QED BY <1>1, <2>1, <2>2
<1> QED BY <1>3, <1>4

Dressed(body, id) == DressTools([body EXCEPT !.user_id = id])

\* preprocessOAuthBody, the rest
LEMMA DressedBody ==
    ASSUME NEW S, NEW U, NEW b \in Body(S, U), NEW V, NEW id \in V,
           NEW d, d = Dressed(b, id)
    PROVE  /\ d \in Body(S, V) /\ d.user_id = id
           /\ d.messages = b.messages /\ d.system = b.system /\ d.model = b.model
           /\ d.max_tokens = b.max_tokens
           /\ ~d.temperature /\ d.tools \in {"empty", "cached"}
           /\ d.tool_choice => d.tools = "cached"
<1>1. PICK e : e = [b EXCEPT !.user_id = id]
  OBVIOUS
<1>2. e = [messages |-> b.messages, system |-> b.system, model |-> b.model,
           max_tokens |-> b.max_tokens, tools |-> b.tools, tool_choice |-> b.tool_choice,
           temperature |-> b.temperature, user_id |-> id]
  <2>1. b = [messages |-> b.messages, system |-> b.system, model |-> b.model,
             max_tokens |-> b.max_tokens, tools |-> b.tools, tool_choice |-> b.tool_choice,
             temperature |-> b.temperature, user_id |-> b.user_id]
    BY BodyFields
  <2> QED BY <1>1, <2>1
<1>3. /\ b.messages \in Seq(Message) /\ b.system \in S
      /\ b.model \in {"full", "short", "short_spaced"} /\ b.max_tokens \in BOOLEAN
      /\ b.tools \in {"missing", "empty", "some", "cached"} /\ b.tool_choice \in BOOLEAN
  BY BodyFields
<1>4. PICK t : t = IF b.tools = "missing" THEN "empty" ELSE AppendToolsEphemeralCache(b.tools)
  OBVIOUS
<1>5. t \in {"empty", "cached"}
  BY <1>3, <1>4 DEF AppendToolsEphemeralCache
<1>6. PICK tc \in BOOLEAN : tc = (b.tool_choice /\ t # "empty")
  OBVIOUS
<1>7. PICK te \in BOOLEAN : te = FALSE
  OBVIOUS
<1>8. d = DressTools(e)
  BY <1>1 DEF Dressed
<1>9. d = [messages |-> b.messages, system |-> b.system, model |-> b.model,
           max_tokens |-> b.max_tokens, tools |-> t, tool_choice |-> tc,
           temperature |-> te, user_id |-> id]
  <2>1. e.tools = b.tools /\ e.tool_choice = b.tool_choice
    BY <1>2
  <2>2. d = [e EXCEPT !.tools = t, !.temperature = FALSE, !.tool_choice = @ /\ t # "empty"]
    BY <1>4, <1>8, <2>1 DEF DressTools
  <2>3. d = [e EXCEPT !.tools = t, !.temperature = te, !.tool_choice = tc]
    BY <1>6, <1>7, <2>1, <2>2
  <2> QED BY <1>2, <2>3
<1>10. t \in {"missing", "empty", "some", "cached"}
  BY <1>5
<1>11. /\ d \in Body(S, V) /\ d.user_id = id /\ d.messages = b.messages /\ d.system = b.system
       /\ d.model = b.model /\ d.max_tokens = b.max_tokens /\ d.temperature = te
       /\ d.tools = t /\ d.tool_choice = tc
  BY <1>3, <1>9, <1>10, BodyOf
<1> QED BY <1>1, <1>5, <1>6, <1>7, <1>8, <1>11

LEMMA DressedRewritten ==
    ASSUME NEW b \in Body(Systems, {Own, Missing}), NEW id \in UserIds, NEW d, d = Dressed(b, id)
    PROVE  /\ d \in Body(Systems, UserIds) /\ d.user_id = id
           /\ d.messages = b.messages /\ d.system = b.system /\ d.model = b.model
           /\ d.max_tokens = b.max_tokens
           /\ ~d.temperature /\ d.tools \in {"empty", "cached"}
           /\ d.tool_choice => d.tools = "cached"
BY DressedBody

-----------------------------------------------------------------------------
(* The ids.                                                                 *)

USE ConversationsAssumption

Ids == 1 .. Len(born)

\* An id under a key was born for the account the key names; it is as old as
\* the entry says.
KeptOK ==
    /\ \A k \in DOMAIN entries :
         /\ entries[k].userID \in Ids
         /\ born[entries[k].userID].account = k[1]
         /\ entries[k].expiresAt = born[entries[k].userID].at + TTL
    /\ \A k \in DOMAIN store : store[k] \in Ids /\ born[store[k]].account = k[1]

Apt(id, a, t) ==
    /\ born[id].account = a
    /\ ~shared => t < born[id].at + TTL

GivenOK ==
    \A g \in given :
        /\ g.body.user_id \in Ids \union {Own, Blank}
        /\ g.body.user_id \in Ids => Apt(g.body.user_id, g.account, g.at)

IdsInv ==
    /\ born \in Seq([at : Nat, account : Accounts]) /\ now \in Nat
    /\ KeptOK /\ GivenOK

-----------------------------------------------------------------------------
(* The rewriting leaves the user id alone.                                  *)

LEMMA UserIdKept ==
    ASSUME NEW c \in Conversation, NEW n
    PROVE  ImposeSystem(PreprocessBody(Request(c, n))).user_id \in {Own, Missing}
<1> DEFINE body == Request(c, n)
<1>1. body = [f \in DOMAIN body |-> body[f]] /\ "user_id" \in DOMAIN body
      /\ body.user_id \in {Own, Missing}
  <2>1. Client[c] \in Body(STRING, {Own, Missing})
    BY DEF ConversationsAssumption
  <2> QED BY <2>1 DEF Request, Body
<1> HIDE DEF body
<1>2. ImposeSystem(PreprocessBody(body)).user_id = body.user_id
  BY <1>1 DEF ImposeSystem, PreprocessBody, SanitizeBody, NormalizeRequestBody
<1> QED BY <1>1, <1>2 DEF body

LEMMA DressedUserId ==
    ASSUME NEW c \in Conversation, NEW n, NEW id
    PROVE  Dressed(ImposeSystem(PreprocessBody(Request(c, n))), id).user_id = id
<1> DEFINE body == Request(c, n)
           sent == ImposeSystem(PreprocessBody(body))
<1>1. body = [f \in DOMAIN body |-> body[f]] /\ "user_id" \in DOMAIN body
  <2>1. Client[c] \in Body(STRING, {Own, Missing})
    BY DEF ConversationsAssumption
  <2> QED BY <2>1 DEF Request, Body
<1> HIDE DEF body
<1>2. sent = [f \in DOMAIN sent |-> sent[f]] /\ "user_id" \in DOMAIN sent
  <2> DEFINE Named(b) == b = [f \in DOMAIN b |-> b[f]] /\ "user_id" \in DOMAIN b
             normal == NormalizeRequestBody(body)
             capped == IF NeedsMaxTokens(normal) THEN [normal EXCEPT !.max_tokens = TRUE]
                       ELSE normal
             clean == SanitizeBody(capped)
  <2>1. Named(normal)
    BY <1>1 DEF NormalizeRequestBody
  <2> HIDE DEF normal
  <2>2. Named(capped)
    BY <2>1
  <2> HIDE DEF capped
  <2>3. Named(clean)
    BY <2>2 DEF SanitizeBody
  <2>4. clean = PreprocessBody(body)
    BY DEF PreprocessBody, clean, capped, normal
  <2> HIDE DEF clean
  <2>5. Named(ImposeSystem(clean))
    BY <2>3 DEF ImposeSystem
  <2> QED BY <2>4, <2>5
<1> HIDE DEF sent
<1>3. Dressed(sent, id).user_id = id
  BY <1>2 DEF DressTools, Dressed
<1> QED BY <1>3 DEF sent, body

-----------------------------------------------------------------------------
(* Where ids come from.                                                     *)

LEMMA OlderIds ==
    ASSUME NEW a \in Accounts, IdsInv, Birth(a)
    PROVE  /\ born' \in Seq([at : Nat, account : Accounts])
           /\ Len(born') = Len(born) + 1 /\ Len(born) \in Nat /\ Ids \subseteq Ids'
           /\ \A id \in Ids : born'[id] = born[id]
           /\ NewId \in Ids' /\ born'[NewId] = [at |-> now, account |-> a]
<1> DEFINE e == [at |-> now, account |-> a]
<1>1. born \in Seq([at : Nat, account : Accounts]) /\ e \in [at : Nat, account : Accounts]
  BY DEF IdsInv
<1>2. born' = Append(born, e)
  BY DEF Birth
<1> HIDE DEF e
<1>3. /\ born' \in Seq([at : Nat, account : Accounts])
      /\ Len(born') = Len(born) + 1 /\ Len(born) \in Nat
      /\ \A id \in 1 .. Len(born) : born'[id] = born[id]
      /\ born'[Len(born) + 1] = e
  BY <1>1, <1>2, AppendProperties, LenProperties
<1> QED BY <1>3 DEF Ids, NewId, e

\* The ids that were there are what they were.
Grown ==
    /\ born' \in Seq([at : Nat, account : Accounts])
    /\ Ids \subseteq Ids'
    /\ \A id \in Ids : born'[id] = born[id]

LEMMA SameIds == IdsInv /\ UNCHANGED born => Grown
BY DEF IdsInv, Grown, Ids

LEMMA BornIds == ASSUME NEW a \in Accounts, IdsInv, Birth(a) PROVE Grown
BY OlderIds DEF Grown

\* An id that a request of account a may carry now.
Carries(a, id) ==
    /\ id \in Ids' \union {Own, Blank}
    /\ id \in Ids' => born'[id].account = a /\ (~shared => now < born'[id].at + TTL)

LEMMA LocalOK ==
    ASSUME IdsInv, NEW a \in Accounts, NEW print, NEW id, LocalId(a, print, id)
    PROVE  Grown /\ KeptOK' /\ Carries(a, id)
<1> DEFINE k0 == Key(a, print)
           clean == CleanedUp
<1>1. \A k \in DOMAIN clean : k \in DOMAIN entries /\ clean[k] = entries[k]
  BY DEF CleanedUp, Without
<1>2. k0[1] = a
  BY DEF Key
<1>3. UNCHANGED store /\ now \in Nat /\ TTL \in Nat \ {0}
  BY DEF LocalId, IdsInv, ConversationsAssumption
<1>4. CASE Hits(clean, k0) /\ id = clean[k0].userID /\ entries' = clean /\ UNCHANGED born
  <2>1. Grown
    BY <1>4, SameIds
  <2>2. KeptOK'
    BY <1>1, <1>3, <1>4 DEF IdsInv, KeptOK, Ids
  <2>3. Carries(a, id)
    BY <1>1, <1>2, <1>4 DEF Hits, IdsInv, KeptOK, Ids, Carries
  <2> QED BY <2>1, <2>2, <2>3
<1>5. ASSUME NEW gone, id = NewId, Birth(a),
             entries' = [k \in (DOMAIN Without(clean, {k0}) \ gone) \union {k0} |->
                           IF k = k0 THEN [userID |-> NewId, expiresAt |-> now + TTL]
                                     ELSE Without(clean, {k0})[k]]
      PROVE  Grown /\ KeptOK' /\ Carries(a, id)
  <2>1. /\ Grown /\ NewId \in Ids' /\ born'[NewId] = [at |-> now, account |-> a]
    BY <1>5, OlderIds, BornIds
  <2>2. Carries(a, id)
    BY <1>3, <1>5, <2>1 DEF Carries
  <2>3. ASSUME NEW k \in DOMAIN entries'
        PROVE  /\ entries'[k].userID \in Ids'
               /\ born'[entries'[k].userID].account = k[1]
               /\ entries'[k].expiresAt = born'[entries'[k].userID].at + TTL
    <3>1. CASE k = k0
      <4>1. entries'[k] = [userID |-> NewId, expiresAt |-> now + TTL]
        BY <1>5, <3>1
      <4> QED BY <1>2, <2>1, <3>1, <4>1
    <3>2. CASE k # k0
      <4>1. k \in DOMAIN clean /\ entries'[k] = clean[k]
        BY <1>5, <2>3, <3>2 DEF Without
      <4>2. k \in DOMAIN entries /\ entries'[k] = entries[k]
        BY <1>1, <4>1
      <4>3. /\ entries[k].userID \in Ids /\ born[entries[k].userID].account = k[1]
            /\ entries[k].expiresAt = born[entries[k].userID].at + TTL
        BY <4>2 DEF IdsInv, KeptOK
      <4>4. entries[k].userID \in Ids' /\ born'[entries[k].userID] = born[entries[k].userID]
        BY <2>1, <4>3 DEF Grown
      <4> QED BY <4>2, <4>3, <4>4
    <3> QED BY <3>1, <3>2
  <2>4. \A k \in DOMAIN store' : store'[k] \in Ids' /\ born'[store'[k]].account = k[1]
    BY <1>3, <2>1, SMTT(30) DEF IdsInv, KeptOK, Grown
  <2> QED BY <2>1, <2>2, <2>3, <2>4 DEF KeptOK
<1>6. \/ Hits(clean, k0) /\ id = clean[k0].userID /\ entries' = clean /\ UNCHANGED born
      \/ /\ id = NewId /\ Birth(a)
         /\ \E gone \in Victims(Without(clean, {k0})) :
               entries' = [k \in (DOMAIN Without(clean, {k0}) \ gone) \union {k0} |->
                             IF k = k0 THEN [userID |-> NewId, expiresAt |-> now + TTL]
                                       ELSE Without(clean, {k0})[k]]
  BY DEF LocalId
<1> QED BY <1>4, <1>5, <1>6

LEMMA SharedOK ==
    ASSUME IdsInv, NEW a \in Accounts, NEW print, NEW id, SharedId(a, print, id), shared
    PROVE  Grown /\ KeptOK' /\ Carries(a, id)
<1> DEFINE k0 == Key(a, print)
<1>1. UNCHANGED entries /\ k0[1] = a
  BY DEF SharedId, cacheVars, Key
<1>2. CASE k0 \in DOMAIN store /\ id = store[k0] /\ UNCHANGED <<store, born>>
  <2>1. Grown
    BY <1>2, SameIds
  <2> QED BY <1>1, <1>2, <2>1 DEF IdsInv, KeptOK, Ids, Carries
<1>3. CASE /\ k0 \notin DOMAIN store /\ id = NewId /\ Birth(a)
           /\ store' = [k \in DOMAIN store \union {k0} |-> IF k = k0 THEN NewId ELSE store[k]]
  <2>1. Grown /\ NewId \in Ids' /\ born'[NewId] = [at |-> now, account |-> a]
    BY <1>3, OlderIds, BornIds
  <2>2. \A k \in DOMAIN store' : store'[k] \in Ids' /\ born'[store'[k]].account = k[1]
    <3>1. \A k \in DOMAIN store : store[k] \in Ids' /\ born'[store[k]].account = k[1]
      <4>1. \A k \in DOMAIN store : store[k] \in Ids /\ born[store[k]].account = k[1]
        BY DEF IdsInv, KeptOK
      <4>2. Ids \subseteq Ids' /\ \A i \in Ids : born'[i] = born[i]
        BY <2>1 DEF Grown
      <4> QED BY <4>1, <4>2, Zenon
    <3>2. \A k \in DOMAIN store' : \/ k = k0 /\ store'[k] = NewId
                                   \/ k \in DOMAIN store /\ store'[k] = store[k]
      BY <1>3
    <3> HIDE DEF k0
    <3>3. k0[1] = a
      BY <1>1
    <3>4. born'[NewId].account = a
      BY <2>1
    <3> QED BY <2>1, <3>1, <3>2, <3>3, <3>4
  <2>3. \A k \in DOMAIN entries' :
          /\ entries'[k].userID \in Ids'
          /\ born'[entries'[k].userID].account = k[1]
          /\ entries'[k].expiresAt = born'[entries'[k].userID].at + TTL
    BY <1>1, <2>1 DEF IdsInv, KeptOK, Grown
  <2>4. Carries(a, id)
    BY <1>3, <2>1 DEF Carries
  <2> QED BY <2>1, <2>2, <2>3, <2>4 DEF KeptOK
<1>4. CASE id = Blank /\ UNCHANGED <<store, born>>
  <2>1. Grown
    BY <1>4, SameIds
  <2>2. KeptOK'
    BY <1>1, <1>4 DEF IdsInv, KeptOK, Ids
  <2>3. id \notin Ids'
    <3>1. Len(born) \in Nat
      BY LenProperties DEF IdsInv
    <3> QED BY <1>4, <3>1 DEF Ids, ConversationsAssumption
  <2>4. id \in Ids' \union {Own, Blank}
    BY <1>4
  <2> QED BY <2>1, <2>2, <2>3, <2>4 DEF Carries
<1> QED BY <1>2, <1>3, <1>4 DEF SharedId

LEMMA StickyOK ==
    ASSUME IdsInv, NEW a \in Accounts, NEW print, NEW id, StickyUserID(a, print, id)
    PROVE  Grown /\ KeptOK' /\ Carries(a, id)
<1>1. CASE id = NewId /\ Birth(a) /\ UNCHANGED <<cacheVars, store, dropped>>
  <2>1. Grown /\ NewId \in Ids' /\ born'[NewId] = [at |-> now, account |-> a]
    BY <1>1, OlderIds, BornIds
  <2>2. KeptOK'
    BY <1>1, <2>1 DEF IdsInv, KeptOK, Grown, cacheVars
  <2>3. Carries(a, id)
    BY <1>1, <2>1 DEF Carries, IdsInv, ConversationsAssumption
  <2> QED BY <2>1, <2>2, <2>3
<1>2. CASE IF shared THEN SharedId(a, print, id) ELSE LocalId(a, print, id)
  BY <1>2, SharedOK, LocalOK
<1> QED BY <1>1, <1>2 DEF StickyUserID

\* A request that is sent now carries an id of its account, or the client's own.
LEMMA SendOK ==
    ASSUME IdsInv, NEW a \in Accounts, NEW c \in mix, c \in Conversation, NEW n, Send(a, c, n)
    PROVE  IdsInv'
<1> DEFINE body == ImposeSystem(PreprocessBody(Request(c, n)))
           Sent(id) == [conv |-> c, turn |-> n, account |-> a, at |-> now,
                        body |-> DressTools([body EXCEPT !.user_id = id])]
<1>1. body.user_id \in {Own, Missing}
  BY UserIdKept
<1>2. ASSUME NEW id
      PROVE  Sent(id).body.user_id = id /\ Sent(id).account = a /\ Sent(id).at = now
  <2>1. Dressed(body, id).user_id = id
    BY DressedUserId
  <2> HIDE DEF body
  <2>2. Dressed(body, id) = DressTools([body EXCEPT !.user_id = id])
    BY DEF Dressed
  <2> QED BY <2>1, <2>2
<1>3. UNCHANGED <<mix, shared, now>> /\ now \in Nat /\ Len(born) \in Nat
  BY LenProperties DEF Send, IdsInv
<1>4. \E id : /\ given' = given \union {Sent(id)}
              /\ Grown /\ KeptOK' /\ Carries(a, id)
  <2>1. CASE /\ body.user_id # Missing
             /\ given' = given \union {Sent(body.user_id)}
             /\ UNCHANGED <<cacheVars, store, born, dropped>>
    <3>1. Grown
      BY <2>1, SameIds
    <3>2. KeptOK'
      BY <2>1 DEF IdsInv, KeptOK, Ids, cacheVars
    <3>3. body.user_id = Own /\ Own \notin Ids'
      BY <1>1, <1>3, <2>1 DEF Ids, ConversationsAssumption
    <3> QED BY <2>1, <3>1, <3>2, <3>3 DEF Carries
  <2>2. ASSUME NEW id,
               StickyUserID(a, ConversationFingerprint(body.messages), id),
               given' = given \union {Sent(id)}
        PROVE  \E i : given' = given \union {Sent(i)} /\ Grown /\ KeptOK' /\ Carries(a, i)
    <3>1. Grown /\ KeptOK' /\ Carries(a, id)
      BY <2>2, StickyOK
    <3> QED BY <2>2, <3>1
  <2> HIDE DEF Sent, body
  <2>3. \/ /\ body.user_id # Missing
           /\ given' = given \union {Sent(body.user_id)}
           /\ UNCHANGED <<cacheVars, store, born, dropped>>
        \/ \E id \in 1 .. MaxIds \union {Blank} :
              /\ StickyUserID(a, ConversationFingerprint(body.messages), id)
              /\ given' = given \union {Sent(id)}
    BY DEF Send, Sent, body
  <2> QED BY <2>1, <2>2, <2>3
<1> HIDE DEF Sent, body
<1>5. PICK id : given' = given \union {Sent(id)} /\ Grown /\ KeptOK' /\ Carries(a, id)
  BY <1>4
<1>6. GivenOK'
  <2>1. SUFFICES ASSUME NEW g \in given'
                 PROVE  /\ g.body.user_id \in Ids' \union {Own, Blank}
                        /\ g.body.user_id \in Ids' =>
                             /\ born'[g.body.user_id].account = g.account
                             /\ ~shared => g.at < born'[g.body.user_id].at + TTL
    BY <1>3 DEF GivenOK, Apt
  <2>2. CASE g = Sent(id)
    BY <1>2, <1>5, <2>1, <2>2 DEF Carries
  <2>3. CASE g \in given /\ g.body.user_id \in Ids
    BY <1>5, <2>3 DEF IdsInv, GivenOK, Apt, Grown
  <2>4. CASE g \in given /\ g.body.user_id \in {Own, Blank}
    <3>1. {Own, Blank} \cap Nat = {}
      BY DEF ConversationsAssumption
    <3>2. g.body.user_id \notin Ids'
      BY <2>4, <3>1 DEF Ids
    <3> QED BY <2>4, <3>2
  <2> QED BY <1>5, <2>2, <2>3, <2>4 DEF IdsInv, GivenOK
<1> QED BY <1>3, <1>5, <1>6 DEF IdsInv, Grown

-----------------------------------------------------------------------------

LEMMA MixKnown == Spec => [](mix \in Mixes)
<1>1. Init => mix \in Mixes
  BY DEF Init
<1>2. mix \in Mixes /\ [Next]_vars => (mix \in Mixes)'
  BY DEF Next, Send, Restart, Tick, vars
<1> QED BY <1>1, <1>2, PTL DEF Spec

LEMMA IdsStep == mix \in Mixes /\ IdsInv /\ [Next]_vars => IdsInv'
<1> SUFFICES ASSUME mix \in Mixes, IdsInv, [Next]_vars PROVE IdsInv'
  OBVIOUS
<1>1. ASSUME NEW a \in Accounts, NEW c \in mix, NEW n, Send(a, c, n) PROVE IdsInv'
  <2>1. c \in Conversation
    BY DEF ConversationsAssumption
  <2> QED BY <1>1, <2>1, SendOK
<1>2. CASE Restart
  <2>1. /\ UNCHANGED <<shared, now, store, born, given>>
        /\ \A k \in DOMAIN entries' : k \in {}
    BY <1>2 DEF Restart, NoEntries
  <2> QED BY <2>1 DEF IdsInv, KeptOK, GivenOK, Apt, Ids
<1>3. CASE Tick
  <2>1. now' \in Nat /\ UNCHANGED <<shared, entries, store, born, given>>
    BY <1>3 DEF Tick, cacheVars, IdsInv
  <2> QED BY <2>1 DEF IdsInv, KeptOK, GivenOK, Apt, Ids
<1>4. CASE UNCHANGED vars
  BY <1>4 DEF vars, cacheVars, IdsInv, KeptOK, GivenOK, Apt, Ids
<1> QED BY <1>1, <1>2, <1>3, <1>4 DEF Next

LEMMA IdsAlways == Spec => []IdsInv
<1>1. Init => IdsInv
  <2> SUFFICES ASSUME Init PROVE IdsInv
    OBVIOUS
  <2>1. born \in Seq([at : Nat, account : Accounts]) /\ now \in Nat
    BY EmptySeq DEF Init
  <2>2. KeptOK /\ GivenOK
    BY DEF Init, NoEntries, KeptOK, GivenOK
  <2> QED BY <2>1, <2>2 DEF IdsInv
<1> QED BY <1>1, IdsStep, MixKnown, PTL DEF Spec

\* No id is ever sent with two accounts, in either store, whatever expires, is
\* evicted or restarted in between.
THEOREM OneAccountPerId == Spec => []IdsStayWithAccount
<1>1. IdsInv => IdsStayWithAccount
  BY DEF IdsInv, GivenOK, Apt, Ids, IdsStayWithAccount, Sticky
<1> QED BY <1>1, IdsAlways, PTL

\* With the plugin's own cache no id is sent once it is TTL old.
THEOREM IdsRetireInTime == Spec => []IdsRetire
<1>1. IdsInv => IdsRetire
  BY DEF IdsInv, GivenOK, Apt, Ids, IdsRetire, Sticky
<1> QED BY <1>1, IdsAlways, PTL

-----------------------------------------------------------------------------
(* A turn that is repeated keeps its id.                                    *)

Rewritten(c, n) == ImposeSystem(PreprocessBody(Request(c, n)))

\* The requests that got an id for their messages, and the key it is kept at.
Keyed    == {g \in Sticky : g.body.messages # <<>>}
KeyOf(g) == Key(g.account, ConversationFingerprint(g.body.messages))

\* Nothing has to remember an id any more, and another one may be in its place.
Past(id)            == id \in dropped \/ now >= born[id].at + TTL
Replaced(id, other) == id \in dropped \/ born[other].at >= born[id].at + TTL

\* The store, or the cache, has the id under the key of the request.
Linked(g) ==
    IF shared THEN KeyOf(g) \in DOMAIN store /\ store[KeyOf(g)] = g.body.user_id
    ELSE KeyOf(g) \in DOMAIN entries /\ entries[KeyOf(g)].userID = g.body.user_id

\* An id and the one that is kept, or was sent, under the same key.
Follows(g, id) == g.body.user_id = id \/ (g.body.user_id < id /\ Replaced(g.body.user_id, id))

RepeatInv ==
    /\ \A g \in given : g.body.messages = Rewritten(g.conv, g.turn).messages
    /\ \A g \in Keyed : Linked(g) \/ (~shared /\ Past(g.body.user_id))
    /\ \A g \in Keyed :
         ~shared /\ KeyOf(g) \in DOMAIN entries => Follows(g, entries[KeyOf(g)].userID)
    /\ \A g, h \in Keyed :
         KeyOf(g) = KeyOf(h) /\ g.body.user_id < h.body.user_id =>
           ~shared /\ Replaced(g.body.user_id, h.body.user_id)

\* What a step does to the store and to the cache: the first keeps what it
\* has, the second loses what is past, or counts as dropped, and may get one
\* id that is new.
Lost(id)   == id \in dropped' \/ now >= born[id].at + TTL
KeepsStore == \A k \in DOMAIN store : k \in DOMAIN store' /\ store'[k] = store[k]
LosesPast  ==
    /\ dropped \subseteq dropped'
    /\ \A k \in DOMAIN entries :
         (k \in DOMAIN entries' /\ entries'[k] = entries[k]) \/ Lost(entries[k].userID)
AddsNew ==
    \A k \in DOMAIN entries' :
      \/ k \in DOMAIN entries /\ entries'[k] = entries[k]
      \/ entries'[k].userID = NewId /\ NewId \in Ids' /\ born'[NewId].at = now
\* The requests that are sent in a step.
JoinsLinked(X) ==
    /\ given' = given \union X
    /\ \A x \in X : /\ x.body.messages = Rewritten(x.conv, x.turn).messages
                    /\ x \in Keyed' => Linked(x)'

LEMMA RepeatKept ==
    ASSUME IdsInv, IdsInv', RepeatInv, Grown, shared' = shared, now <= now',
           KeepsStore, LosesPast, AddsNew, NEW X, JoinsLinked(X)
    PROVE  RepeatInv'
<1>1. /\ Len(born) \in Nat /\ Len(born') \in Nat /\ now \in Nat /\ now' \in Nat /\ TTL \in Nat
      /\ \A id \in Ids : /\ id \in Ids' /\ born'[id] = born[id] /\ id \in Nat
                         /\ born[id].at \in Nat
      /\ {Own, Blank} \cap Nat = {}
  <2>1. born \in Seq([at : Nat, account : Accounts]) /\ born' \in Seq([at : Nat, account : Accounts])
    BY DEF IdsInv
  <2>2. \A id \in Ids : born[id] \in [at : Nat, account : Accounts]
    BY <2>1, ElementOfSeq DEF Ids
  <2>3. Len(born) \in Nat /\ Len(born') \in Nat
    BY <2>1, LenProperties
  <2>4. \A id \in Ids : id \in Ids' /\ born'[id] = born[id]
    BY DEF Grown
  <2>5. now \in Nat /\ now' \in Nat /\ TTL \in Nat /\ {Own, Blank} \cap Nat = {}
    BY DEF IdsInv, ConversationsAssumption
  <2> QED BY <2>2, <2>3, <2>4, <2>5 DEF Ids
<1>2. ASSUME NEW g \in given PROVE g.body.user_id \in Ids' => g.body.user_id \in Ids
  <2>1. g.body.user_id \in Ids \union {Own, Blank}
    BY <1>2 DEF IdsInv, GivenOK
  <2>2. \A id \in Ids' : id \in Nat
    BY <1>1 DEF Ids
  <2> QED BY <1>1, <2>1, <2>2
<1>3. \A g \in Keyed' : g \in Keyed \/ (g \in X /\ Linked(g)')
  BY <1>2 DEF Keyed, Sticky, Ids, JoinsLinked
<1>4. \A g \in Keyed : g.body.user_id \in Ids
  BY DEF Keyed, Sticky, Ids
<1>5. ASSUME NEW id \in Ids
      PROVE  /\ Past(id) => Past(id)'
             /\ Lost(id) => Past(id)'
             /\ \A other \in Ids : Replaced(id, other) => Replaced(id, other)'
  <2>1. id \in dropped => id \in dropped'
    BY DEF LosesPast
  <2>2. born'[id] = born[id] /\ born[id].at \in Nat
    BY <1>1, <1>5
  <2>3. now >= born[id].at + TTL => now' >= born'[id].at + TTL
    <3>1. now \in Nat /\ now' \in Nat /\ TTL \in Nat
      BY <1>1
    <3> QED BY <2>2, <3>1
  <2>4. \A other \in Ids : Replaced(id, other) => Replaced(id, other)'
    BY <1>1, <2>1, <2>2 DEF Replaced
  <2> QED BY <2>1, <2>3, <2>4 DEF Past, Lost
<1>6. \A g \in Keyed' : Linked(g)' \/ (~shared' /\ Past(g.body.user_id)')
  <2> SUFFICES ASSUME NEW g \in Keyed PROVE Linked(g)' \/ (~shared' /\ Past(g.body.user_id)')
    BY <1>3
  <2>1. CASE shared
    <3>1. KeyOf(g) \in DOMAIN store /\ store[KeyOf(g)] = g.body.user_id
      BY <2>1 DEF RepeatInv, Linked
    <3>2. KeyOf(g) \in DOMAIN store' /\ store'[KeyOf(g)] = g.body.user_id
      BY <3>1 DEF KeepsStore
    <3> QED BY <2>1, <3>2 DEF Linked
  <2>2. CASE ~shared /\ Past(g.body.user_id)
    BY <1>4, <1>5, <2>2
  <2>3. CASE ~shared /\ ~Past(g.body.user_id)
    <3>1. KeyOf(g) \in DOMAIN entries /\ entries[KeyOf(g)].userID = g.body.user_id
      BY <2>3 DEF RepeatInv, Linked
    <3>2. \/ KeyOf(g) \in DOMAIN entries' /\ entries'[KeyOf(g)].userID = g.body.user_id
          \/ Lost(g.body.user_id)
      BY <3>1 DEF LosesPast
    <3> QED BY <1>4, <1>5, <2>3, <3>2 DEF Linked
  <2> QED BY <2>1, <2>2, <2>3
<1>7. \A g \in Keyed' :
        ~shared' /\ KeyOf(g) \in DOMAIN entries' => Follows(g, entries[KeyOf(g)].userID)'
  <2> SUFFICES ASSUME NEW g \in Keyed', ~shared', KeyOf(g) \in DOMAIN entries'
               PROVE  \/ g.body.user_id = entries'[KeyOf(g)].userID
                      \/ /\ g.body.user_id < entries'[KeyOf(g)].userID
                         /\ \/ g.body.user_id \in dropped'
                            \/ born'[entries'[KeyOf(g)].userID].at >= born'[g.body.user_id].at + TTL
    BY DEF Follows, Replaced
  <2> DEFINE k == KeyOf(g)
             i == g.body.user_id
  <2>1. CASE Linked(g)'
    BY <2>1 DEF Linked
  <2>2. CASE g \in Keyed
    <3>0. i \in Ids
      BY <1>4, <2>2
    <3>1. CASE k \in DOMAIN entries /\ entries'[k] = entries[k]
      <4>1. Follows(g, entries[k].userID) /\ entries[k].userID \in Ids
        BY <2>2, <3>1 DEF RepeatInv, IdsInv, KeptOK
      <4> QED BY <1>1, <3>0, <3>1, <4>1 DEF Follows, Replaced, LosesPast
    <3>2. CASE /\ ~(k \in DOMAIN entries /\ entries'[k] = entries[k])
               /\ entries'[k].userID = NewId /\ born'[NewId].at = now
      <4>1. Past(i) \/ Lost(i)
        BY <2>2, <3>2 DEF RepeatInv, Linked, LosesPast
      <4>2. i \in dropped' \/ now >= born[i].at + TTL
        BY <4>1 DEF Past, Lost, LosesPast
      <4>3. i < NewId
        BY <1>1, <3>0 DEF Ids, NewId
      <4> QED BY <1>1, <3>0, <3>2, <4>2, <4>3
    <3> QED BY <3>1, <3>2 DEF AddsNew
  <2> QED BY <1>3, <2>1, <2>2
<1>8. ASSUME NEW g \in Keyed', NEW h \in Keyed', KeyOf(g) = KeyOf(h),
             g.body.user_id < h.body.user_id
      PROVE  ~shared' /\ Replaced(g.body.user_id, h.body.user_id)'
  <2>0. g.body.user_id \in Nat /\ h.body.user_id \in Nat
    BY <1>1 DEF Keyed, Sticky
  <2>1. ~shared'
    BY <1>6, <1>8, <2>0 DEF Linked
  <2>2. CASE g \in Keyed /\ h \in Keyed
    <3>1. Replaced(g.body.user_id, h.body.user_id)
      BY <1>8, <2>2 DEF RepeatInv
    <3> QED BY <1>4, <1>5, <2>1, <2>2, <3>1
  <2>3. CASE Linked(h)'
    <3>1. KeyOf(g) \in DOMAIN entries' /\ entries'[KeyOf(g)].userID = h.body.user_id
      BY <1>8, <2>1, <2>3 DEF Linked
    <3>2. Follows(g, h.body.user_id)'
      BY <1>7, <2>1, <3>1 DEF Follows, Replaced
    <3> QED BY <1>8, <2>0, <2>1, <3>2 DEF Follows
  <2>4. CASE Linked(g)'
    <3>1. KeyOf(h) \in DOMAIN entries' /\ entries'[KeyOf(h)].userID = g.body.user_id
      BY <1>8, <2>1, <2>4 DEF Linked
    <3>2. h.body.user_id = g.body.user_id \/ h.body.user_id < g.body.user_id
      BY <1>7, <2>1, <3>1 DEF Follows
    <3> QED BY <1>8, <2>0, <3>2
  <2> QED BY <1>3, <2>2, <2>3, <2>4
<1>9. \A g \in given' : g.body.messages = Rewritten(g.conv, g.turn).messages
  BY DEF RepeatInv, JoinsLinked
<1> QED BY <1>6, <1>7, <1>8, <1>9 DEF RepeatInv

\* The id of a request is kept under its key.
Bound(k, id) ==
    IF shared THEN k \in DOMAIN store' /\ store'[k] = id
    ELSE k \in DOMAIN entries' /\ entries'[k].userID = id

LEMMA LocalMoves ==
    ASSUME IdsInv, ~shared, NEW a \in Accounts, NEW print, NEW id, LocalId(a, print, id)
    PROVE  KeepsStore /\ LosesPast /\ AddsNew /\ Bound(Key(a, print), id)
<1> DEFINE k0 == Key(a, print)
           clean == CleanedUp
           rest == Without(clean, {k0})
<1>1. /\ \A k \in DOMAIN clean : k \in DOMAIN entries /\ clean[k] = entries[k]
      /\ \A k \in DOMAIN entries : k \in DOMAIN clean \/ now > entries[k].expiresAt
  BY DEF CleanedUp, Without, ExpiredKeys
<1>2. \A k \in DOMAIN rest : k \in DOMAIN clean /\ k # k0 /\ rest[k] = clean[k]
  BY DEF Without
<1>3. \A k \in DOMAIN clean : k = k0 \/ k \in DOMAIN rest
  BY DEF Without
<1>4. KeepsStore
  BY DEF LocalId, KeepsStore
<1>5. \A k \in DOMAIN entries : /\ entries[k].userID \in Ids
                                /\ entries[k].expiresAt = born[entries[k].userID].at + TTL
                                /\ entries[k].expiresAt \in Nat /\ now \in Nat
  <2>1. born \in Seq([at : Nat, account : Accounts]) /\ now \in Nat /\ KeptOK /\ TTL \in Nat
    BY DEF IdsInv, ConversationsAssumption
  <2>2. \A i \in Ids : born[i] \in [at : Nat, account : Accounts]
    BY <2>1, ElementOfSeq DEF Ids
  <2>3. \A k \in DOMAIN entries :
          /\ entries[k].userID \in Ids
          /\ entries[k].expiresAt = born[entries[k].userID].at + TTL
    BY <2>1 DEF KeptOK
  <2>4. \A i \in Ids : born[i].at \in Nat /\ born[i].at + TTL \in Nat
    BY <2>1, <2>2
  <2> QED BY <2>1, <2>3, <2>4
<1>6. ASSUME NEW k \in DOMAIN entries, now >= entries[k].expiresAt PROVE Lost(entries[k].userID)
  BY <1>5, <1>6 DEF Lost
<1>7. CASE /\ Hits(clean, k0) /\ id = clean[k0].userID /\ entries' = clean
           /\ UNCHANGED <<born, dropped>>
  <2>1. LosesPast
    BY <1>1, <1>5, <1>6, <1>7 DEF LosesPast
  <2>2. AddsNew
    BY <1>1, <1>7 DEF AddsNew
  <2>3. Bound(k0, id)
    BY <1>7 DEF Bound, Hits
  <2> QED BY <1>4, <2>1, <2>2, <2>3
<1>8. ASSUME NEW gone, ~Hits(clean, k0), id = NewId, Birth(a),
             entries' = [k \in (DOMAIN rest \ gone) \union {k0} |->
                           IF k = k0 THEN [userID |-> NewId, expiresAt |-> now + TTL]
                                     ELSE rest[k]],
             dropped' = dropped \union {rest[k].userID : k \in gone}
      PROVE  LosesPast /\ AddsNew /\ Bound(k0, id)
  <2> HIDE DEF rest, clean, k0
  <2>1. NewId \in Ids' /\ born'[NewId].at = now
    <3>1. NewId \in Ids' /\ born'[NewId] = [at |-> now, account |-> a]
      BY <1>8, OlderIds
    <3> QED BY <3>1
  <2>2. k0 \in DOMAIN entries' /\ entries'[k0].userID = NewId
    BY <1>8
  <2>3. \A k \in DOMAIN entries' : k # k0 => k \in DOMAIN rest /\ entries'[k] = rest[k]
    BY <1>8
  <2>4. AddsNew
    BY <1>1, <1>2, <2>1, <2>2, <2>3 DEF AddsNew
  <2>5. ASSUME NEW k \in DOMAIN entries
        PROVE  (k \in DOMAIN entries' /\ entries'[k] = entries[k]) \/ Lost(entries[k].userID)
    <3>1. CASE k \notin DOMAIN clean
      BY <1>1, <1>5, <1>6, <3>1
    <3>2. CASE k \in DOMAIN clean /\ k = k0
      <4>1. now >= entries[k].expiresAt
        BY <1>1, <1>5, <1>8, <3>2 DEF Hits
      <4> QED BY <1>6, <4>1
    <3>3. CASE k \in DOMAIN rest /\ k \notin gone
      <4>1. k \in DOMAIN entries' /\ entries'[k] = rest[k]
        BY <1>2, <1>8, <3>3
      <4> QED BY <1>1, <1>2, <3>3, <4>1
    <3>4. CASE k \in DOMAIN rest /\ k \in gone
      <4>1. rest[k].userID \in dropped'
        BY <1>8, <3>4
      <4> QED BY <1>1, <1>2, <3>4, <4>1 DEF Lost
    <3> QED BY <1>3, <3>1, <3>2, <3>3, <3>4
  <2>6. LosesPast
    BY <1>8, <2>5 DEF LosesPast
  <2> QED BY <1>8, <2>2, <2>4, <2>6 DEF Bound
<1>9. \/ /\ Hits(clean, k0) /\ id = clean[k0].userID /\ entries' = clean
         /\ UNCHANGED <<born, dropped>>
      \/ /\ ~Hits(clean, k0) /\ id = NewId /\ Birth(a)
         /\ \E gone \in Victims(rest) :
               /\ entries' = [k \in (DOMAIN rest \ gone) \union {k0} |->
                               IF k = k0 THEN [userID |-> NewId, expiresAt |-> now + TTL]
                                         ELSE rest[k]]
               /\ dropped' = dropped \union {rest[k].userID : k \in gone}
  BY DEF LocalId
<1> QED BY <1>4, <1>7, <1>8, <1>9

LEMMA SharedMoves ==
    ASSUME IdsInv, shared, NEW a \in Accounts, NEW print, NEW id, SharedId(a, print, id)
    PROVE  KeepsStore /\ LosesPast /\ AddsNew /\ (id \in Ids' => Bound(Key(a, print), id))
<1> DEFINE k0 == Key(a, print)
<1>1. LosesPast /\ AddsNew
  BY DEF SharedId, cacheVars, LosesPast, AddsNew
<1>2. CASE k0 \in DOMAIN store /\ id = store[k0] /\ UNCHANGED <<store, born>>
  BY <1>1, <1>2 DEF KeepsStore, Bound
<1>3. CASE /\ k0 \notin DOMAIN store /\ id = NewId
           /\ store' = [k \in DOMAIN store \union {k0} |-> IF k = k0 THEN NewId ELSE store[k]]
  BY <1>1, <1>3 DEF KeepsStore, Bound
<1>4. CASE id = Blank /\ UNCHANGED <<store, born>>
  <2>1. id \notin Ids'
    <3>1. Len(born) \in Nat
      BY LenProperties DEF IdsInv
    <3> QED BY <1>4, <3>1 DEF Ids, ConversationsAssumption
  <2> QED BY <1>1, <1>4, <2>1 DEF KeepsStore
<1> QED BY <1>2, <1>3, <1>4 DEF SharedId

LEMMA StickyMoves ==
    ASSUME IdsInv, NEW a \in Accounts, NEW print, NEW id, StickyUserID(a, print, id)
    PROVE  /\ KeepsStore /\ LosesPast /\ AddsNew
           /\ print # <<>> /\ id \in Ids' => Bound(Key(a, print), id)
<1>1. CASE print = <<>> /\ UNCHANGED <<cacheVars, store, dropped>>
  BY <1>1 DEF KeepsStore, LosesPast, AddsNew, cacheVars
<1>2. CASE IF shared THEN SharedId(a, print, id) ELSE LocalId(a, print, id)
  BY <1>2, SharedMoves, LocalMoves
<1> QED BY <1>1, <1>2 DEF StickyUserID

LEMMA PrintOfMessages ==
    ASSUME NEW messages, messages # <<>>
    PROVE  ConversationFingerprint(messages) # <<>>
BY DEF ConversationFingerprint

LEMMA DressedMessages ==
    ASSUME NEW c \in Conversation, NEW n, NEW id
    PROVE  Dressed(Rewritten(c, n), id).messages = Rewritten(c, n).messages
<1> DEFINE sent == Rewritten(c, n)
           Named(b) == b = [f \in DOMAIN b |-> b[f]] /\ "messages" \in DOMAIN b
<1>1. Named(Request(c, n))
  <2>1. Client[c] \in Body(STRING, {Own, Missing})
    BY DEF ConversationsAssumption
  <2> QED BY <2>1 DEF Request, Body
<1>2. Named(sent)
  <2> DEFINE normal == NormalizeRequestBody(Request(c, n))
             capped == IF NeedsMaxTokens(normal) THEN [normal EXCEPT !.max_tokens = TRUE]
                       ELSE normal
             clean == SanitizeBody(capped)
  <2>1. Named(normal)
    BY <1>1 DEF NormalizeRequestBody
  <2> HIDE DEF normal
  <2>2. Named(capped)
    BY <2>1
  <2> HIDE DEF capped
  <2>3. Named(clean)
    BY <2>2 DEF SanitizeBody
  <2>4. clean = PreprocessBody(Request(c, n))
    BY DEF PreprocessBody, clean, capped, normal
  <2> HIDE DEF clean
  <2>5. Named(ImposeSystem(clean))
    BY <2>3 DEF ImposeSystem
  <2> QED BY <2>4, <2>5 DEF Rewritten
<1> HIDE DEF sent
<1>3. Dressed(sent, id).messages = sent.messages
  BY <1>2 DEF DressTools, Dressed
<1> QED BY <1>3 DEF sent

LEMMA SendKeeps ==
    ASSUME IdsInv, IdsInv', RepeatInv, NEW a \in Accounts, NEW c \in Conversation, NEW n,
           Send(a, c, n)
    PROVE  RepeatInv'
<1> DEFINE body == Rewritten(c, n)
           Sent(id) == [conv |-> c, turn |-> n, account |-> a, at |-> now,
                        body |-> DressTools([body EXCEPT !.user_id = id])]
<1>1. body.user_id \in {Own, Missing}
  BY UserIdKept DEF Rewritten
<1>2. ASSUME NEW id
      PROVE  /\ Sent(id).body.user_id = id /\ Sent(id).account = a
             /\ Sent(id).body.messages = body.messages
             /\ body.messages = Rewritten(Sent(id).conv, Sent(id).turn).messages
  <2>1. Dressed(body, id).user_id = id /\ Dressed(body, id).messages = body.messages
    BY DressedUserId, DressedMessages DEF Rewritten
  <2> HIDE DEF body
  <2>2. Dressed(body, id) = DressTools([body EXCEPT !.user_id = id])
    BY DEF Dressed
  <2> QED BY <2>1, <2>2 DEF body
<1>3. /\ UNCHANGED <<mix, shared, now>> /\ now \in Nat /\ Len(born) \in Nat
      /\ {Own, Blank} \cap Nat = {}
  BY LenProperties DEF Send, IdsInv, ConversationsAssumption
<1> DEFINE print == ConversationFingerprint(body.messages)
<1>4. \E id : /\ given' = given \union {Sent(id)}
              /\ Grown /\ KeepsStore /\ LosesPast /\ AddsNew
              /\ print # <<>> /\ id \in Ids' => Bound(Key(a, print), id)
  <2>1. CASE /\ body.user_id # Missing
             /\ given' = given \union {Sent(body.user_id)}
             /\ UNCHANGED <<cacheVars, store, born, dropped>>
    <3>1. Grown /\ KeepsStore /\ LosesPast /\ AddsNew
      BY <2>1, SameIds DEF KeepsStore, LosesPast, AddsNew, cacheVars
    <3>2. body.user_id = Own /\ Own \notin Ids'
      BY <1>1, <1>3, <2>1 DEF Ids
    <3> QED BY <2>1, <3>1, <3>2
  <2>2. ASSUME NEW id, StickyUserID(a, print, id), given' = given \union {Sent(id)}
        PROVE  \E i : /\ given' = given \union {Sent(i)}
                      /\ Grown /\ KeepsStore /\ LosesPast /\ AddsNew
                      /\ print # <<>> /\ i \in Ids' => Bound(Key(a, print), i)
    <3>1. /\ Grown /\ KeepsStore /\ LosesPast /\ AddsNew
          /\ print # <<>> /\ id \in Ids' => Bound(Key(a, print), id)
      BY <2>2, StickyOK, StickyMoves
    <3> QED BY <2>2, <3>1
  <2> HIDE DEF Sent, print
  <2>3. \/ /\ body.user_id # Missing
           /\ given' = given \union {Sent(body.user_id)}
           /\ UNCHANGED <<cacheVars, store, born, dropped>>
        \/ \E id \in 1 .. MaxIds \union {Blank} :
              StickyUserID(a, print, id) /\ given' = given \union {Sent(id)}
    BY DEF Send, Sent, print, Rewritten
  <2> QED BY <2>1, <2>2, <2>3
<1> HIDE DEF Sent, body
<1>5. PICK id : /\ given' = given \union {Sent(id)}
                /\ Grown /\ KeepsStore /\ LosesPast /\ AddsNew
                /\ print # <<>> /\ id \in Ids' => Bound(Key(a, print), id)
  BY <1>4
<1>6. PICK g : g = Sent(id)
  OBVIOUS
<1>7. /\ g.body.user_id = id /\ g.account = a /\ g.body.messages = body.messages
      /\ g.body.messages = Rewritten(g.conv, g.turn).messages
      /\ KeyOf(g) = Key(a, print)
  BY <1>2, <1>6 DEF KeyOf
<1> HIDE DEF print
<1>8. ASSUME g \in Keyed' PROVE Linked(g)'
  <2>1. id \in Ids' /\ body.messages # <<>>
    BY <1>7, <1>8 DEF Keyed, Sticky, Ids
  <2>2. Bound(Key(a, print), id)
    BY <1>5, <2>1, PrintOfMessages DEF print
  <2> QED BY <1>3, <1>7, <2>2 DEF Bound, Linked
<1>9. JoinsLinked({g})
  BY <1>5, <1>6, <1>7, <1>8 DEF JoinsLinked
<1>10. Grown /\ KeepsStore /\ LosesPast /\ AddsNew /\ shared' = shared /\ now <= now'
  BY <1>3, <1>5
<1> QED BY <1>9, <1>10, RepeatKept

LEMMA RepeatStep == mix \in Mixes /\ IdsInv /\ IdsInv' /\ RepeatInv /\ [Next]_vars => RepeatInv'
<1> SUFFICES ASSUME mix \in Mixes, IdsInv, IdsInv', RepeatInv, [Next]_vars PROVE RepeatInv'
  OBVIOUS
<1>1. ASSUME NEW a \in Accounts, NEW c \in mix, NEW n, Send(a, c, n) PROVE RepeatInv'
  <2>1. c \in Conversation
    BY DEF ConversationsAssumption
  <2> QED BY <1>1, <2>1, SendKeeps
<1>2. ASSUME UNCHANGED <<shared, store, born, given>>, now <= now', LosesPast, AddsNew
      PROVE  RepeatInv'
  <2>1. Grown /\ KeepsStore
    BY <1>2, SameIds DEF KeepsStore
  <2>2. JoinsLinked({})
    BY <1>2 DEF JoinsLinked
  <2> QED BY <1>2, <2>1, <2>2, RepeatKept
<1>3. CASE Restart
  <2>1. /\ UNCHANGED <<shared, now, store, born, given>> /\ now \in Nat
        /\ \A k \in DOMAIN entries' : k \in {}
        /\ dropped' = dropped \union {entries[k].userID : k \in DOMAIN entries}
    BY <1>3 DEF Restart, NoEntries, IdsInv
  <2>2. LosesPast /\ AddsNew
    BY <2>1 DEF LosesPast, AddsNew, Lost
  <2> QED BY <1>2, <2>1, <2>2
<1>4. CASE Tick \/ UNCHANGED vars
  <2>1. /\ UNCHANGED <<shared, entries, store, born, given, dropped>> /\ now <= now'
    BY <1>4 DEF Tick, vars, cacheVars, IdsInv
  <2>2. LosesPast /\ AddsNew
    BY <2>1 DEF LosesPast, AddsNew
  <2> QED BY <1>2, <2>1, <2>2
<1> QED BY <1>1, <1>3, <1>4 DEF Next

\* A turn that is sent again with the same account keeps its id: always where
\* Core has a store, and with the plugin's cache until the id is TTL old or was
\* dropped at the cap or in a restart, whatever was sent, expired, was cleaned
\* up or was evicted in between.
THEOREM RepeatedTurnsKeepTheirId == Spec => []RepeatKeepsId
<1>1. Init => RepeatInv
  BY DEF Init, RepeatInv, Keyed, Sticky
<1>2. ASSUME RepeatInv PROVE RepeatKeepsId
  <2> SUFFICES ASSUME NEW g \in Sticky, NEW h \in Sticky, Repeats(g, h),
                      g.body.user_id < h.body.user_id
               PROVE  ~shared /\ Replaced(g.body.user_id, h.body.user_id)
    BY DEF RepeatKeepsId, Replaced
  <2>1. g \in given /\ h \in given
    BY DEF Sticky
  <2>2. h.body.messages = g.body.messages
    BY <1>2, <2>1 DEF RepeatInv, Repeats
  <2>3. g \in Keyed /\ h \in Keyed /\ KeyOf(g) = KeyOf(h)
    BY <2>2 DEF Keyed, KeyOf, Repeats
  <2> QED BY <1>2, <2>3 DEF RepeatInv
<1>3. RepeatInv => RepeatKeepsId
  BY <1>2
<1> QED BY <1>1, <1>3, RepeatStep, IdsAlways, MixKnown, PTL DEF Spec

-----------------------------------------------------------------------------
(* What is sent, for any conversations.                                     *)

HIDE ConversationsAssumption

LEMMA CleanConcat ==
    ASSUME NEW s \in Seq(Message), NEW t \in Seq(Message),
           \A j \in 1 .. Len(s) : Clean(s[j]), \A j \in 1 .. Len(t) : Clean(t[j])
    PROVE  s \o t \in Seq(Message) /\ \A j \in 1 .. Len(s \o t) : Clean((s \o t)[j])
<1>1. s \o t \in Seq(Message) /\ Len(s \o t) = Len(s) + Len(t) /\ Len(s) \in Nat /\ Len(t) \in Nat
  OBVIOUS
<1>2. ASSUME NEW j \in 1 .. Len(s \o t) PROVE Clean((s \o t)[j])
  <2>1. CASE j <= Len(s)
    BY <1>1, <2>1
  <2>2. CASE j > Len(s)
    <3>1. (s \o t)[j] = t[j - Len(s)] /\ j - Len(s) \in 1 .. Len(t)
      BY <1>1, <2>2
    <3> QED BY <3>1
  <2> QED BY <1>1, <2>1, <2>2
<1> QED BY <1>1, <1>2

LEMMA RewrittenBody ==
    ASSUME NEW c \in Conversation, NEW n \in Turns(c)
    PROVE  LET b == Rewritten(c, n)
           IN  /\ b \in Body(Systems, {Own, Missing}) /\ PromptPasses(b.system, Client[c].system)
               /\ b.max_tokens /\ ModelPasses(b.model, Client[c].model)
               /\ b.messages = Foreword(Client[c].system) \o Sanitized(SubSeq(Says[c], 1, 2 * n - 1))
               /\ b.messages \in Seq(Message)
               /\ \A j \in 1 .. Len(b.messages) : Clean(b.messages[j])
<1>1. PICK r \in Body(Systems, {Own, Missing}) :
            /\ r = Request(c, n) /\ r.system = Client[c].system /\ r.system \in STRING
            /\ r.model = Client[c].model
            /\ r.messages = SubSeq(Says[c], 1, 2 * n - 1) /\ r.messages \in Seq(Message)
  BY ClientRequest
<1>2. PICK p \in Body(Systems, {Own, Missing}) :
            /\ p = PreprocessBody(r) /\ p.system = r.system
            /\ p.messages = Sanitized(r.messages) /\ p.max_tokens /\ ModelPasses(p.model, r.model)
  BY Preprocessed
<1>3. ClaudeCodeList \in Systems /\ p.system \in STRING
  BY <1>1, <1>2 DEF Systems
<1>4. PICK b \in Body(Systems, {Own, Missing}) :
            /\ b = ImposeSystem(p) /\ PromptPasses(b.system, p.system)
            /\ b.messages = Foreword(p.system) \o p.messages
            /\ b.model = p.model /\ b.max_tokens = p.max_tokens
  BY <1>3, Imposed
<1>5. b = Rewritten(c, n)
  BY <1>1, <1>2, <1>4 DEF Rewritten
<1>6. /\ b.messages \in Seq(Message)
      /\ \A j \in 1 .. Len(b.messages) : Clean(b.messages[j])
  <2>1. PICK s \in Seq(Message) : s = Foreword(p.system) /\ \A j \in 1 .. Len(s) : Clean(s[j])
    BY <1>3, ForewordMessages
  <2>2. PICK m \in Seq(Message) : m = p.messages /\ \A j \in 1 .. Len(m) : Clean(m[j])
    BY <1>1, <1>2, SanitizedMessages
  <2>3. b.messages = s \o m
    BY <1>4, <2>1, <2>2
  <2>4. s \o m \in Seq(Message) /\ \A j \in 1 .. Len(s \o m) : Clean((s \o m)[j])
    BY <2>1, <2>2, CleanConcat
  <2> QED BY <2>3, <2>4
<1> QED BY <1>1, <1>2, <1>4, <1>5, <1>6

\* Every request that was sent is a dressed, rewritten one of a client.
SentInv ==
    \A g \in given :
        /\ g.conv \in Conversation /\ g.turn \in Turns(g.conv)
        /\ g.body.user_id \in UserIds \ {Missing}
        /\ g.body = Dressed(Rewritten(g.conv, g.turn), g.body.user_id)

LEMMA SentSend ==
    ASSUME SentInv, NEW a \in Accounts, NEW c \in Conversation, NEW n \in Turns(c), Send(a, c, n)
    PROVE  SentInv'
<1> DEFINE body == Rewritten(c, n)
           Sent(id) == [conv |-> c, turn |-> n, account |-> a, at |-> now,
                        body |-> DressTools([body EXCEPT !.user_id = id])]
<1>1. body.user_id \in {Own, Missing}
  BY UserIdKept DEF Rewritten
<1>2. Own \in UserIds \ {Missing} /\ 1 .. MaxIds \union {Blank} \subseteq UserIds \ {Missing}
  BY ConversationsAssumption DEF UserIds
<1>3. \E id \in UserIds \ {Missing} : given' = given \union {Sent(id)}
  <2>1. CASE body.user_id # Missing /\ given' = given \union {Sent(body.user_id)}
    <3>1. body.user_id \in UserIds \ {Missing}
      BY <1>1, <1>2, <2>1
    <3> HIDE DEF Sent, body
    <3> QED BY <2>1, <3>1
  <2> HIDE DEF Sent, body
  <2>2. \/ body.user_id # Missing /\ given' = given \union {Sent(body.user_id)}
        \/ \E id \in 1 .. MaxIds \union {Blank} : given' = given \union {Sent(id)}
    BY DEF Send, Sent, body, Rewritten
  <2> QED BY <1>2, <2>1, <2>2
<1>4. PICK id \in UserIds \ {Missing} : given' = given \union {Sent(id)}
  BY <1>3
<1>5. PICK g : g = Sent(id)
  OBVIOUS
<1>6. /\ g.conv = c /\ g.turn = n /\ g.body.user_id = id
      /\ g.body = Dressed(Rewritten(g.conv, g.turn), g.body.user_id)
  <2>1. Dressed(body, id).user_id = id
    BY DressedUserId DEF Rewritten
  <2>2. g.conv = c /\ g.turn = n /\ g.body = Dressed(body, id)
    BY <1>5 DEF Dressed
  <2> QED BY <2>1, <2>2
<1> HIDE DEF Sent, body
<1> QED BY <1>4, <1>5, <1>6 DEF SentInv

LEMMA SentAlways == Spec => []SentInv
<1>1. Init => SentInv
  BY DEF Init, SentInv
<1>2. mix \in Mixes /\ SentInv /\ [Next]_vars => SentInv'
  <2> SUFFICES ASSUME mix \in Mixes, SentInv, [Next]_vars PROVE SentInv'
    OBVIOUS
  <2>1. ASSUME NEW a \in Accounts, NEW c \in mix, NEW n \in Turns(c), Send(a, c, n) PROVE SentInv'
    <3>1. c \in Conversation
      BY ConversationsAssumption
    <3> QED BY <2>1, <3>1, SentSend
  <2>2. CASE Restart \/ Tick \/ UNCHANGED vars
    BY <2>2 DEF Restart, Tick, vars, SentInv
  <2> QED BY <2>1, <2>2 DEF Next
<1> QED BY <1>1, <1>2, MixKnown, PTL DEF Spec

\* sanitize.go, forward.go: whatever the clients say, in whatever blocks and
\* fields, what is sent breaks none of the rules the two files name, but for a
\* system prompt that is no string and does not name Claude Code and a short
\* model name behind a blank: these are sent where, and only where, the client
\* sent them.
THEOREM WhatIsSentIsAcceptable == Spec => []SentIsAcceptable
<1>1. ASSUME SentInv, NEW g \in given
      PROVE  LET body == g.body
             IN  /\ PromptPasses(body.system, Client[g.conv].system) /\ body.user_id # Missing
                 /\ body.max_tokens /\ ModelPasses(body.model, Client[g.conv].model)
                 /\ ~body.temperature
                 /\ body.tools \in {"empty", "cached"}
                 /\ body.tool_choice => body.tools = "cached"
                 /\ \A i \in DOMAIN body.messages : Clean(body.messages[i])
  <2>1. PICK c \in Conversation : c = g.conv
    BY <1>1 DEF SentInv
  <2>2. PICK n \in Turns(c) : n = g.turn
    BY <1>1, <2>1 DEF SentInv
  <2>3. PICK b \in Body(Systems, {Own, Missing}) :
              /\ b = Rewritten(c, n) /\ PromptPasses(b.system, Client[c].system)
              /\ b.max_tokens /\ ModelPasses(b.model, Client[c].model) /\ b.messages \in Seq(Message)
              /\ \A j \in 1 .. Len(b.messages) : Clean(b.messages[j])
    BY RewrittenBody
  <2>4. PICK id \in UserIds \ {Missing} : id = g.body.user_id
    BY <1>1 DEF SentInv
  <2>5. PICK d : d = g.body
    OBVIOUS
  <2>6. d = Dressed(b, id)
    BY <1>1, <2>1, <2>2, <2>3, <2>4, <2>5 DEF SentInv
  <2>7. /\ d.user_id = id /\ d.messages = b.messages /\ d.system = b.system
        /\ d.model = b.model /\ d.max_tokens = b.max_tokens
        /\ ~d.temperature /\ d.tools \in {"empty", "cached"}
        /\ d.tool_choice => d.tools = "cached"
    <3>1. id \in UserIds
      OBVIOUS
    <3>2. /\ d.user_id = id /\ d.messages = b.messages /\ d.system = b.system
          /\ d.model = b.model
      BY <2>6, <3>1, DressedRewritten
    <3>3. d.max_tokens = b.max_tokens
      BY <2>6, <3>1, DressedRewritten
    <3>4. ~d.temperature
      BY <2>6, <3>1, DressedRewritten, Zenon
    <3>5. d.tools \in {"empty", "cached"}
      BY <2>6, <3>1, DressedRewritten
    <3>6. d.tool_choice => d.tools = "cached"
      BY <2>6, <3>1, DressedRewritten
    <3> QED BY <3>2, <3>3, <3>4, <3>5, <3>6
  <2>8. DOMAIN b.messages = 1 .. Len(b.messages)
    BY <2>3
  <2> QED BY <2>1, <2>3, <2>5, <2>7, <2>8
<1>2. SentInv => SentIsAcceptable
  BY <1>1 DEF SentIsAcceptable, Clean, PromptPasses, ModelPasses
<1> QED BY <1>2, SentAlways, PTL

-----------------------------------------------------------------------------
(* Types, and the cap of the cache.                                         *)

CacheInv ==
    /\ now \in 0 .. MaxTime /\ lastCleanup \in 0 .. now
    /\ IsFiniteSet(DOMAIN entries) /\ Cardinality(DOMAIN entries) <= Cap
    /\ \A k \in DOMAIN entries : entries[k] \in [userID : Nat, expiresAt : Nat]
    /\ shared => entries = NoEntries
    /\ \A k \in DOMAIN store : shared

\* What a request does to the cache.
CacheKept ==
    /\ lastCleanup' \in 0 .. now
    /\ IsFiniteSet(DOMAIN entries') /\ Cardinality(DOMAIN entries') <= Cap
    /\ \A k \in DOMAIN entries' : entries'[k] \in [userID : Nat, expiresAt : Nat]
    /\ shared => entries' = NoEntries
    /\ \A k \in DOMAIN store' : shared

LEMMA CacheUnchanged == CacheInv /\ UNCHANGED cacheVars /\ UNCHANGED store => CacheKept
BY DEF CacheInv, CacheKept, cacheVars

\* Making room: what goes leaves less than the cap.
LEMMA RoomMade ==
    ASSUME NEW cache, IsFiniteSet(DOMAIN cache), Cardinality(DOMAIN cache) <= Cap,
           NEW gone \in Victims(cache), NEW key
    PROVE  LET keys == (DOMAIN cache \ gone) \union {key}
           IN  IsFiniteSet(keys) /\ Cardinality(keys) <= Cap
<1> DEFINE D == DOMAIN cache
           keys == (D \ gone) \union {key}
<1>1. Cap \in Nat \ {0} /\ Cardinality(D) \in Nat
  BY ConversationsAssumption, FS_CardinalityType
<1>2. IsFiniteSet(D \ gone) /\ Cardinality(D \ gone) < Cap
  <2>1. CASE Cardinality(D) < Cap
    <3>1. gone = {}
      BY <2>1 DEF Victims
    <3> QED BY <2>1, <3>1
  <2>2. CASE ~(Cardinality(D) < Cap)
    <3>1. PICK k \in D : gone = {k}
      BY <2>2 DEF Victims, ExpiredKeys
    <3>2. IsFiniteSet(D \ {k}) /\ Cardinality(D \ {k}) = Cardinality(D) - 1
      BY FS_RemoveElement
    <3> QED BY <1>1, <3>1, <3>2
  <2> QED BY <2>1, <2>2
<1>3. IsFiniteSet(keys) /\ (Cardinality(keys) = Cardinality(D \ gone)
                            \/ Cardinality(keys) = Cardinality(D \ gone) + 1)
  BY <1>2, FS_AddElement
<1>4. Cardinality(D \ gone) \in Nat
  BY <1>2, FS_CardinalityType
<1> QED BY <1>1, <1>2, <1>3, <1>4

LEMMA LocalCache ==
    ASSUME IdsInv, CacheInv, ~shared, NEW a \in Accounts, NEW print, NEW id, LocalId(a, print, id)
    PROVE  CacheKept
<1> DEFINE k0 == Key(a, print)
           clean == CleanedUp
           rest == Without(clean, {k0})
<1>1. now \in Nat /\ TTL \in Nat /\ NewId \in Nat
  BY ConversationsAssumption, LenProperties DEF IdsInv, NewId
<1>2. /\ IsFiniteSet(DOMAIN clean) /\ Cardinality(DOMAIN clean) <= Cap
      /\ \A k \in DOMAIN clean : clean[k] \in [userID : Nat, expiresAt : Nat]
  <2>1. DOMAIN clean \subseteq DOMAIN entries /\ \A k \in DOMAIN clean : clean[k] = entries[k]
    BY DEF CleanedUp, Without
  <2>2. Cardinality(DOMAIN clean) <= Cardinality(DOMAIN entries) /\ IsFiniteSet(DOMAIN clean)
        /\ Cardinality(DOMAIN clean) \in Nat /\ Cardinality(DOMAIN entries) \in Nat
    BY <2>1, FS_Subset, FS_CardinalityType DEF CacheInv
  <2> QED BY <2>1, <2>2, ConversationsAssumption DEF CacheInv
<1>3. /\ IsFiniteSet(DOMAIN rest) /\ Cardinality(DOMAIN rest) <= Cap
      /\ \A k \in DOMAIN rest : rest[k] \in [userID : Nat, expiresAt : Nat]
  <2> HIDE DEF clean
  <2>1. DOMAIN rest \subseteq DOMAIN clean /\ \A k \in DOMAIN rest : rest[k] = clean[k]
    BY DEF Without
  <2> HIDE DEF rest
  <2>2. Cardinality(DOMAIN rest) <= Cardinality(DOMAIN clean) /\ IsFiniteSet(DOMAIN rest)
        /\ Cardinality(DOMAIN clean) \in Nat /\ Cardinality(DOMAIN rest) \in Nat
    BY <1>2, <2>1, FS_Subset, FS_CardinalityType
  <2> QED BY <1>2, <2>1, <2>2, ConversationsAssumption
<1>4. /\ lastCleanup' \in 0 .. now
      /\ \A k \in DOMAIN store' : shared
  BY <1>1 DEF LocalId, CacheInv
<1>5. CASE entries' = clean
  BY <1>2, <1>4, <1>5 DEF CacheKept
<1>6. ASSUME NEW gone \in Victims(rest),
             entries' = [k \in (DOMAIN rest \ gone) \union {k0} |->
                           IF k = k0 THEN [userID |-> NewId, expiresAt |-> now + TTL]
                                     ELSE rest[k]]
      PROVE  CacheKept
  <2> HIDE DEF rest, clean, k0
  <2>1. DOMAIN entries' = (DOMAIN rest \ gone) \union {k0}
    BY <1>6
  <2>2. IsFiniteSet(DOMAIN entries') /\ Cardinality(DOMAIN entries') <= Cap
    BY <1>3, <1>6, <2>1, RoomMade
  <2>3. [userID |-> NewId, expiresAt |-> now + TTL] \in [userID : Nat, expiresAt : Nat]
    BY <1>1
  <2>4. \A k \in DOMAIN entries' : entries'[k] \in [userID : Nat, expiresAt : Nat]
    BY <1>3, <1>6, <2>1, <2>3
  <2> QED BY <1>4, <2>2, <2>4 DEF CacheKept
<1> QED BY <1>5, <1>6 DEF LocalId

LEMMA StickyCache ==
    ASSUME IdsInv, CacheInv, NEW a \in Accounts, NEW print, NEW id, StickyUserID(a, print, id)
    PROVE  CacheKept
<1>1. CASE UNCHANGED <<cacheVars, store>>
  BY <1>1, CacheUnchanged
<1>2. CASE ~shared /\ LocalId(a, print, id)
  BY <1>2, LocalCache
<1>3. CASE shared /\ SharedId(a, print, id)
  BY <1>3 DEF SharedId, CacheInv, CacheKept, cacheVars
<1> QED BY <1>1, <1>2, <1>3 DEF StickyUserID

LEMMA CacheAlways == Spec => []CacheInv
<1>1. Init => CacheInv
  <2> SUFFICES ASSUME Init PROVE CacheInv
    OBVIOUS
  <2>1. DOMAIN entries = {} /\ DOMAIN store = {} /\ entries = NoEntries
    BY DEF Init, NoEntries
  <2>2. now \in 0 .. MaxTime /\ lastCleanup \in 0 .. now /\ 0 <= Cap
    BY ConversationsAssumption DEF Init
  <2> QED BY <2>1, <2>2, FS_EmptySet DEF CacheInv
<1>2. IdsInv /\ CacheInv /\ [Next]_vars => CacheInv'
  <2> SUFFICES ASSUME IdsInv, CacheInv, [Next]_vars PROVE CacheInv'
    OBVIOUS
  <2>1. ASSUME NEW a \in Accounts, NEW c, NEW n, Send(a, c, n) PROVE CacheInv'
    <3>1. CacheKept
      <4>1. \/ UNCHANGED <<cacheVars, store>>
            \/ \E print, id : StickyUserID(a, print, id)
        BY <2>1 DEF Send
      <4> QED BY <4>1, CacheUnchanged, StickyCache
    <3>2. UNCHANGED <<shared, now>>
      BY <2>1 DEF Send
    <3> QED BY <3>1, <3>2 DEF CacheKept, CacheInv
  <2>2. CASE Restart
    <3>1. DOMAIN entries' = {} /\ entries' = NoEntries
      BY <2>2 DEF Restart, NoEntries
    <3>2. lastCleanup' = now /\ now' = now /\ UNCHANGED <<shared, store>> /\ 0 <= Cap /\ now \in Nat
      BY <2>2, ConversationsAssumption DEF Restart, IdsInv
    <3> QED BY <3>1, <3>2, FS_EmptySet DEF CacheInv
  <2>3. CASE Tick
    <3>1. now' \in 0 .. MaxTime /\ lastCleanup \in 0 .. now'
      BY <2>3, ConversationsAssumption DEF Tick, CacheInv
    <3>2. UNCHANGED <<shared, entries, lastCleanup, store>>
      BY <2>3 DEF Tick, cacheVars
    <3> QED BY <3>1, <3>2 DEF CacheInv
  <2>4. CASE UNCHANGED vars
    BY <2>4 DEF vars, cacheVars, CacheInv
  <2> QED BY <2>1, <2>2, <2>3, <2>4 DEF Next
<1> QED BY <1>1, <1>2, IdsAlways, PTL DEF Spec

\* session.go: the cache never holds more than its cap, and what it and the
\* store hold was born; what is sent is a well-formed body.
THEOREM ConversationTypes == Spec => []TypeOK
<1>1. ASSUME SentInv, NEW g \in given PROVE BodyOK(g.body)
  <2>1. PICK c \in Conversation : c = g.conv
    BY <1>1 DEF SentInv
  <2>2. PICK n \in Turns(c) : n = g.turn
    BY <1>1, <2>1 DEF SentInv
  <2>3. PICK b \in Body(Systems, {Own, Missing}) : b = Rewritten(c, n)
    BY RewrittenBody
  <2>4. PICK id \in UserIds : id = g.body.user_id
    BY <1>1 DEF SentInv
  <2>5. g.body = Dressed(b, id)
    BY <1>1, <2>1, <2>2, <2>3, <2>4 DEF SentInv
  <2> QED BY <2>5, DressedRewritten DEF BodyOK, Systems
<1>2. ASSUME IdsInv, CacheInv, SentInv PROVE TypeOK
  <2>1. \A k \in DOMAIN entries : entries[k] \in [userID : 1 .. Len(born), expiresAt : Nat]
    BY <1>2 DEF IdsInv, KeptOK, Ids, CacheInv
  <2>2. \A k \in DOMAIN store : shared /\ store[k] \in 1 .. Len(born)
    BY <1>2 DEF IdsInv, KeptOK, Ids, CacheInv
  <2>3. \A g \in given : BodyOK(g.body)
    BY <1>1, <1>2
  <2> QED BY <1>2, <2>1, <2>2, <2>3 DEF CacheInv, TypeOK
<1>3. IdsInv /\ CacheInv /\ SentInv => TypeOK
  BY <1>2
<1> QED BY <1>3, IdsAlways, CacheAlways, SentAlways, PTL

-----------------------------------------------------------------------------
(* Whose id it is.                                                          *)

\* Key k keeps id i.
Holds(k, i) ==
    \/ k \in DOMAIN entries /\ entries[k].userID = i
    \/ k \in DOMAIN store /\ store[k] = i

\* An id belongs to one key: of the requests that carry it, and where it is kept.
KeysInv ==
    /\ \A g, h \in Sticky : g.body.user_id = h.body.user_id => KeyOf(g) = KeyOf(h)
    /\ \A k, i : Holds(k, i) =>
         /\ \A g \in Sticky : g.body.user_id = i => KeyOf(g) = k
         /\ \A l : Holds(l, i) => l = k

\* Where a request at key k takes its id from, and what it leaves.
Places(k, id) ==
    /\ \A l, i : Holds(l, i)' => Holds(l, i) \/ (l = k /\ i = NewId /\ id = NewId)
    /\ id \notin Ids' \/ id = NewId \/ Holds(k, id)

LEMMA PlacesSame == UNCHANGED <<entries, store>> => \A k, id : id \notin Ids' => Places(k, id)
BY DEF Places, Holds

LEMMA LocalPlaces ==
    ASSUME NEW a, NEW print, NEW id, LocalId(a, print, id)
    PROVE  Places(Key(a, print), id)
<1> DEFINE k0 == Key(a, print)
           clean == CleanedUp
           rest == Without(clean, {k0})
<1>1. /\ \A k \in DOMAIN clean : k \in DOMAIN entries /\ clean[k] = entries[k]
      /\ \A k \in DOMAIN rest : k \in DOMAIN clean /\ rest[k] = clean[k]
  BY DEF CleanedUp, Without
<1>2. store' = store
  BY DEF LocalId
<1>3. CASE Hits(clean, k0) /\ id = clean[k0].userID /\ entries' = clean
  BY <1>1, <1>2, <1>3 DEF Hits, Places, Holds
<1>4. ASSUME NEW gone, id = NewId,
             entries' = [k \in (DOMAIN rest \ gone) \union {k0} |->
                           IF k = k0 THEN [userID |-> NewId, expiresAt |-> now + TTL]
                                     ELSE rest[k]]
      PROVE  Places(k0, id)
  <2> HIDE DEF rest, clean, k0
  <2>1. \A k \in DOMAIN entries' : \/ k = k0 /\ entries'[k].userID = NewId
                                   \/ k \in DOMAIN rest /\ entries'[k] = rest[k]
    BY <1>4
  <2> QED BY <1>1, <1>2, <1>4, <2>1 DEF Places, Holds
<1> QED BY <1>3, <1>4 DEF LocalId

LEMMA SharedPlaces ==
    ASSUME IdsInv, NEW a, NEW print, NEW id, SharedId(a, print, id)
    PROVE  Places(Key(a, print), id)
<1> DEFINE k0 == Key(a, print)
<1>1. entries' = entries
  BY DEF SharedId, cacheVars
<1>2. CASE k0 \in DOMAIN store /\ id = store[k0] /\ UNCHANGED store
  BY <1>1, <1>2 DEF Places, Holds
<1>3. CASE /\ id = NewId
           /\ store' = [k \in DOMAIN store \union {k0} |-> IF k = k0 THEN NewId ELSE store[k]]
  BY <1>1, <1>3 DEF Places, Holds
<1>4. CASE id = Blank /\ UNCHANGED <<store, born>>
  <2>1. id \notin Ids'
    BY <1>4, ConversationsAssumption, LenProperties DEF Ids, IdsInv
  <2> QED BY <1>1, <1>4, <2>1, PlacesSame
<1> QED BY <1>2, <1>3, <1>4 DEF SharedId

LEMMA StickyPlaces ==
    ASSUME IdsInv, NEW a, NEW print, NEW id, StickyUserID(a, print, id)
    PROVE  Places(Key(a, print), id)
<1>1. CASE id = NewId /\ UNCHANGED <<cacheVars, store>>
  BY <1>1 DEF Places, Holds, cacheVars
<1>2. CASE IF shared THEN SharedId(a, print, id) ELSE LocalId(a, print, id)
  BY <1>2, SharedPlaces, LocalPlaces
<1> QED BY <1>1, <1>2 DEF StickyUserID

\* The key of an id stays what it is, and a request may join at the key that
\* holds its id.
LEMMA KeysKept ==
    ASSUME IdsInv, IdsInv', KeysInv, Grown, NEW g, given' \subseteq given \union {g},
           Places(KeyOf(g), g.body.user_id)
    PROVE  KeysInv'
<1> DEFINE id == g.body.user_id
           k0 == KeyOf(g)
<1>1. NewId \notin Ids /\ {Own, Blank} \cap (Ids \union Ids') = {}
  BY ConversationsAssumption, LenProperties DEF IdsInv, Ids, NewId
<1>2. /\ \A x \in Sticky : x.body.user_id \in Ids
      /\ \A x \in Sticky' : x \in Sticky \/ (x = g /\ id \in Ids')
  <2>1. \A x \in given : x.body.user_id \in Ids \union {Own, Blank}
    BY DEF IdsInv, GivenOK
  <2> QED BY <1>1, <2>1 DEF Sticky, Ids
<1>3. \A k, i : Holds(k, i) => i \in Ids
  BY DEF IdsInv, KeptOK, Holds
<1>4. /\ \A l, i : Holds(l, i)' => Holds(l, i) \/ (l = k0 /\ i = NewId /\ id = NewId)
      /\ id \in Ids' => id = NewId \/ Holds(k0, id)
  BY DEF Places
<1>5. \A x : KeyOf(x)' = KeyOf(x)
  BY DEF KeyOf
<1>6. /\ \A x, y \in Sticky : x.body.user_id = y.body.user_id => KeyOf(x) = KeyOf(y)
      /\ \A k, i : Holds(k, i) =>
           /\ \A x \in Sticky : x.body.user_id = i => KeyOf(x) = k
           /\ \A l : Holds(l, i) => l = k
  BY DEF KeysInv
<1>7. \A x \in Sticky : g \in Sticky' /\ x.body.user_id = id => KeyOf(x) = k0
  BY <1>1, <1>2, <1>4, <1>6 DEF Sticky, Ids
<1> HIDE DEF Holds, KeyOf, NewId, Ids, Sticky
<1>8. \A x, y \in Sticky' : x.body.user_id = y.body.user_id => KeyOf(x) = KeyOf(y)
  BY <1>2, <1>6, <1>7
<1>9. ASSUME NEW k, NEW i, Holds(k, i)'
      PROVE  /\ \A x \in Sticky' : x.body.user_id = i => KeyOf(x) = k
             /\ \A l : Holds(l, i)' => l = k
  <2>1. CASE Holds(k, i)
    <3>1. i \in Ids /\ i # NewId
      BY <1>1, <1>3, <2>1
    <3>2. \A l : Holds(l, i)' => l = k
      BY <1>4, <1>6, <2>1, <3>1
    <3>3. \A x \in Sticky' : x.body.user_id = i => KeyOf(x) = k
      BY <1>2, <1>4, <1>6, <2>1, <3>1
    <3> QED BY <3>2, <3>3
  <2>2. CASE k = k0 /\ i = NewId /\ id = NewId
    <3>1. \A l : Holds(l, i)' => l = k
      BY <1>1, <1>3, <1>4, <2>2
    <3>2. \A x \in Sticky' : x.body.user_id = i => KeyOf(x) = k
      BY <1>1, <1>2, <2>2
    <3> QED BY <3>1, <3>2
  <2> QED BY <1>4, <1>9, <2>1, <2>2
<1> QED BY <1>5, <1>8, <1>9 DEF KeysInv

LEMMA KeysSend ==
    ASSUME IdsInv, IdsInv', KeysInv, NEW a \in Accounts, NEW c \in Conversation, NEW n,
           Send(a, c, n)
    PROVE  KeysInv'
<1> DEFINE body == Rewritten(c, n)
           print == ConversationFingerprint(body.messages)
           Sent(id) == [conv |-> c, turn |-> n, account |-> a, at |-> now,
                        body |-> DressTools([body EXCEPT !.user_id = id])]
<1>1. body.user_id \in {Own, Missing}
  BY UserIdKept DEF Rewritten
<1>2. ASSUME NEW id
      PROVE  /\ Sent(id).body.user_id = id /\ Sent(id).account = a
             /\ Sent(id).body.messages = body.messages
  <2>1. Dressed(body, id).user_id = id /\ Dressed(body, id).messages = body.messages
    BY DressedUserId, DressedMessages DEF Rewritten
  <2> HIDE DEF body
  <2>2. Dressed(body, id) = DressTools([body EXCEPT !.user_id = id])
    BY DEF Dressed
  <2> QED BY <2>1, <2>2 DEF body
<1>3. \E id : given' = given \union {Sent(id)} /\ Grown /\ Places(Key(a, print), id)
  <2>1. CASE /\ body.user_id # Missing
             /\ given' = given \union {Sent(body.user_id)}
             /\ UNCHANGED <<cacheVars, store, born, dropped>>
    <3>1. Grown
      BY <2>1, SameIds
    <3>2. body.user_id = Own /\ Own \notin Ids'
      BY <1>1, <2>1, ConversationsAssumption, LenProperties DEF Ids, IdsInv
    <3>3. UNCHANGED <<entries, store>>
      BY <2>1 DEF cacheVars
    <3>4. Places(Key(a, print), body.user_id)
      BY <3>2, <3>3, PlacesSame
    <3> QED BY <2>1, <3>1, <3>4
  <2>2. ASSUME NEW id, StickyUserID(a, print, id), given' = given \union {Sent(id)}
        PROVE  \E i : given' = given \union {Sent(i)} /\ Grown /\ Places(Key(a, print), i)
    BY <2>2, StickyOK, StickyPlaces
  <2> HIDE DEF Sent, print
  <2>3. \/ /\ body.user_id # Missing
           /\ given' = given \union {Sent(body.user_id)}
           /\ UNCHANGED <<cacheVars, store, born, dropped>>
        \/ \E id \in 1 .. MaxIds \union {Blank} :
              StickyUserID(a, print, id) /\ given' = given \union {Sent(id)}
    BY DEF Send, Sent, print, Rewritten
  <2> QED BY <2>1, <2>2, <2>3
<1> HIDE DEF Sent, body
<1>4. PICK id : given' = given \union {Sent(id)} /\ Grown /\ Places(Key(a, print), id)
  BY <1>3
<1>5. PICK g : g = Sent(id)
  OBVIOUS
<1>6. g.body.user_id = id /\ KeyOf(g) = Key(a, print) /\ given' \subseteq given \union {g}
  BY <1>2, <1>4, <1>5 DEF KeyOf
<1> QED BY <1>4, <1>6, KeysKept

LEMMA KeysAlways == Spec => []KeysInv
<1>1. Init => KeysInv
  BY DEF Init, NoEntries, KeysInv, Holds, Sticky
<1>2. mix \in Mixes /\ IdsInv /\ IdsInv' /\ KeysInv /\ [Next]_vars => KeysInv'
  <2> SUFFICES ASSUME mix \in Mixes, IdsInv, IdsInv', KeysInv, [Next]_vars PROVE KeysInv'
    OBVIOUS
  <2>1. ASSUME NEW a \in Accounts, NEW c \in mix, NEW n, Send(a, c, n) PROVE KeysInv'
    <3>1. c \in Conversation
      BY ConversationsAssumption
    <3> QED BY <2>1, <3>1, KeysSend
  <2>2. CASE Restart
    <3>1. given' = given /\ born' = born /\ store' = store /\ \A k \in DOMAIN entries' : k \in {}
      BY <2>2 DEF Restart, NoEntries
    <3> QED BY <3>1 DEF KeysInv, Holds, Sticky, KeyOf
  <2>3. CASE Tick \/ UNCHANGED vars
    <3>1. given' = given /\ born' = born /\ store' = store /\ entries' = entries
      BY <2>3 DEF Tick, vars, cacheVars
    <3> QED BY <3>1 DEF KeysInv, Holds, Sticky, KeyOf
  <2> QED BY <2>1, <2>2, <2>3 DEF Next
<1> QED BY <1>1, <1>2, IdsAlways, MixKnown, PTL DEF Spec

\* Whatever comes before, the last message but one of a body is the client's,
\* where neither it nor the last is dropped as empty.
LEMMA AnsweredReply ==
    ASSUME NEW c \in Conversation, NEW n \in Turns(c), n > 1,
           Arrives(Says[c][2 * n - 2]), Arrives(Says[c][2 * n - 1])
    PROVE  LET m == Rewritten(c, n).messages
           IN  m \in Seq(Message) /\ Len(m) >= 2 /\ m[Len(m) - 1].says = Says[c][2 * n - 2].says
<1>1. PICK said \in Seq(Message) :
            /\ said = SubSeq(Says[c], 1, 2 * n - 1) /\ Len(said) = 2 * n - 1
            /\ said[2 * n - 2] = Says[c][2 * n - 2] /\ said[2 * n - 1] = Says[c][2 * n - 1]
  <2>1. PICK r : r = Request(c, n)
    OBVIOUS
  <2>2. /\ r.messages = SubSeq(Says[c], 1, 2 * n - 1)
        /\ r.messages \in Seq(Message) /\ Len(r.messages) = 2 * n - 1
        /\ \A i \in 1 .. (2 * n - 1) : r.messages[i] = Says[c][i]
    BY <2>1, ClientRequest
  <2>3. n \in Nat
    BY ConversationsAssumption DEF Turns
  <2>4. 2 * n - 2 \in 1 .. (2 * n - 1) /\ 2 * n - 1 \in 1 .. (2 * n - 1)
    BY <2>3
  <2> QED BY <2>2, <2>4
<1>2. PICK N \in Nat : N = 2 * n - 1 /\ N >= 2 /\ N - 1 = 2 * n - 2
  <2>1. n \in Nat
    BY ConversationsAssumption DEF Turns
  <2> QED BY <2>1
<1>3. PICK filtered \in Seq(Message) :
            /\ filtered = Filtered(said) /\ Len(filtered) = N
            /\ \A i \in 1 .. N : filtered[i] = FilterContentBlocks(said[i]) /\ said[i] \in Message
  <2>1. \A i \in 1 .. N : said[i] \in Message
    BY <1>1, <1>2, ElementOfSeq
  <2>2. /\ Filtered(said) \in Seq(Message) /\ Len(Filtered(said)) = Len(said)
        /\ \A i \in 1 .. Len(said) : Filtered(said)[i] = FilterContentBlocks(said[i])
    BY FilteredMessages
  <2> QED BY <1>1, <1>2, <2>1, <2>2
<1>4. /\ filtered[N - 1].blocks # <<>> /\ filtered[N].blocks # <<>>
      /\ filtered[N - 1].says = Says[c][2 * n - 2].says
  <2>1. N - 1 \in 1 .. N /\ N \in 1 .. N
    BY <1>2
  <2>2. Arrives(said[N - 1]) /\ Arrives(said[N]) /\ said[N - 1].says = Says[c][2 * n - 2].says
    BY <1>1, <1>2
  <2> QED BY <1>3, <2>1, <2>2, FilteredMessage DEF Arrives
<1>5. PICK kept \in Seq(Message) :
            kept = Sanitized(said) /\ Len(kept) >= 2 /\ kept[Len(kept) - 1] = filtered[N - 1]
  <2>1. {N - 1, N} \subseteq NonEmpty(filtered)
    BY <1>2, <1>3, <1>4 DEF NonEmpty
  <2>2. Sanitized(said) = Kept(filtered, NonEmpty(filtered))
    BY <1>3 DEF Sanitized
  <2>3. Sanitized(said) \in Seq(Message)
    BY SanitizedMessages
  <2> QED BY <1>2, <1>3, <2>1, <2>2, <2>3, KeptEnd
<1>6. PICK front \in Seq(Message) : front = Foreword(Client[c].system)
  <2>1. Client[c].system \in STRING
    BY ConversationsAssumption, BodyFields
  <2> QED BY <2>1, ForewordMessages
<1>7. PICK m : m = Rewritten(c, n).messages
  OBVIOUS
<1>8. m = front \o kept
  BY <1>1, <1>5, <1>6, <1>7, RewrittenBody
<1>9. /\ m \in Seq(Message)
      /\ Len(m) = Len(front) + Len(kept) /\ Len(front) \in Nat /\ Len(kept) \in Nat
      /\ m[Len(m) - 1] = kept[Len(kept) - 1]
  BY <1>5, <1>8
<1> QED BY <1>4, <1>5, <1>7, <1>9

LEMMA LastButOne ==
    ASSUME NEW m \in Seq(Message), Len(m) >= 2
    PROVE  ConversationFingerprint(m)[2] = m[Len(m) - 1]
<1>1. m # <<>> /\ Head(m) \in Message /\ m[Len(m) - 1] \in Message
  OBVIOUS
<1>2. ConversationFingerprint(m) = <<Head(m)>> \o <<m[Len(m) - 1]>>
  BY <1>1 DEF ConversationFingerprint
<1>3. PICK h \in Message, x \in Message : h = Head(m) /\ x = m[Len(m) - 1]
  BY <1>1
<1>4. <<h>> \in Seq(Message) /\ <<x>> \in Seq(Message) /\ Len(<<h>>) = 1 /\ Len(<<x>>) = 1
  OBVIOUS
<1>5. (<<h>> \o <<x>>)[2] = x
  BY <1>4
<1> QED BY <1>2, <1>3, <1>5

\* Requests of two conversations that were answered differently never carry the
\* same id of ours, whatever the conversations have in common before that
\* answer, and wherever the ids are kept.
THEOREM DifferentAnswersDifferentIds == Spec => []AnsweredApart
<1>1. ASSUME IdsInv, SentInv, KeysInv, NEW g \in Sticky, NEW h \in Sticky,
             g.turn > 1, h.turn > 1, g.body.user_id = h.body.user_id,
             \A x \in {g, h} : Arrives(Reply(x)) /\ Arrives(Says[x.conv][2 * x.turn - 1])
      PROVE  Reply(g).says = Reply(h).says
  <2>1. ASSUME NEW x \in {g, h}
        PROVE  \E m : /\ m = x.body.messages
                      /\ ConversationFingerprint(m)[2].says = Reply(x).says
    <3>1. PICK c \in Conversation : c = x.conv
      BY <1>1, <2>1 DEF SentInv, Sticky
    <3>2. PICK n \in Turns(c) : n = x.turn
      BY <1>1, <2>1, <3>1 DEF SentInv, Sticky
    <3>3. x.body.messages = Rewritten(c, n).messages
      <4>1. x.body = Dressed(Rewritten(c, n), x.body.user_id)
        BY <1>1, <2>1, <3>1, <3>2 DEF SentInv, Sticky
      <4> QED BY <4>1, DressedMessages
    <3>4. n > 1 /\ Arrives(Says[c][2 * n - 2]) /\ Arrives(Says[c][2 * n - 1])
          /\ Reply(x) = Says[c][2 * n - 2]
      BY <1>1, <3>1, <3>2 DEF Reply
    <3>5. PICK m : m = Rewritten(c, n).messages
      OBVIOUS
    <3>6. m \in Seq(Message) /\ Len(m) >= 2 /\ m[Len(m) - 1].says = Reply(x).says
      BY <3>4, <3>5, AnsweredReply
    <3>7. ConversationFingerprint(m)[2] = m[Len(m) - 1]
      BY <3>6, LastButOne
    <3> QED BY <3>3, <3>5, <3>6, <3>7
  <2>2. KeyOf(g) = KeyOf(h)
    BY <1>1 DEF KeysInv
  <2>3. ConversationFingerprint(g.body.messages) = ConversationFingerprint(h.body.messages)
    BY <2>2 DEF KeyOf, Key
  <2> QED BY <2>1, <2>3
<1>2. IdsInv /\ SentInv /\ KeysInv => AnsweredApart
  BY <1>1 DEF AnsweredApart
<1> QED BY <1>2, IdsAlways, SentAlways, KeysAlways, PTL

-----------------------------------------------------------------------------
(* Flattening a sequence of sequences, and what may be left out of it.      *)

\* F flattens seqs from its beginning.
Flattens(F, seqs) ==
    F[0] = <<>> /\ \A n \in 1 .. Len(seqs) : F[n] = F[n - 1] \o seqs[n]

LEMMA SomeFlatten ==
    ASSUME NEW W, NEW seqs \in Seq(Seq(W))
    PROVE  \E F : Flattens(F, seqs)
<1> DEFINE N == Len(seqs)
           Starts(f, n) == f[0] = <<>> /\ \A i \in 1 .. n : f[i] = f[i - 1] \o seqs[i]
           T == {n \in 0 .. N : \E f : Starts(f, n)}
<1>1. N \in Nat
  OBVIOUS
<1>2. 0 \in T
  <2>1. Starts([i \in {0} |-> <<>>], 0)
    OBVIOUS
  <2>2. \E f : Starts(f, 0)
    BY <2>1
  <2> HIDE DEF Starts, N
  <2> QED BY <1>1, <2>2
<1>3. ASSUME NEW n \in 0 .. N, n < N, n \in T PROVE n + 1 \in T
  <2>1. PICK f : Starts(f, n)
    BY <1>3
  <2> DEFINE g == [i \in 0 .. (n + 1) |-> IF i = n + 1 THEN f[n] \o seqs[n + 1] ELSE f[i]]
  <2>2. g[0] = <<>>
    BY <1>3, <2>1
  <2>3. ASSUME NEW i \in 1 .. (n + 1) PROVE g[i] = g[i - 1] \o seqs[i]
    <3>1. g[i - 1] = f[i - 1]
      OBVIOUS
    <3>2. CASE i = n + 1
      <4>1. i - 1 = n /\ n + 1 \in 0 .. (n + 1)
        BY <3>2
      <4>2. g[n + 1] = f[n] \o seqs[n + 1]
        BY <4>1
      <4> HIDE DEF g
      <4> QED BY <3>1, <3>2, <4>1, <4>2
    <3>3. CASE i # n + 1
      <4>1. i \in 1 .. n /\ g[i] = f[i]
        BY <3>3
      <4> QED BY <2>1, <3>1, <4>1
    <3> QED BY <3>2, <3>3
  <2> HIDE DEF g
  <2>4. Starts(g, n + 1)
    BY <2>2, <2>3
  <2>5. \E h : Starts(h, n + 1)
    BY <2>4
  <2> HIDE DEF Starts, N
  <2> QED BY <1>1, <1>3, <2>5
<1>4. N \in T
  <2> HIDE DEF T, N
  <2>1. 0 .. N \subseteq T
    BY <1>1, <1>2, <1>3, Indices
  <2> QED BY <1>1, <2>1
<1>5. \E f : Starts(f, N)
  BY <1>4
<1> QED BY <1>5 DEF Flattens

\* There is one way to do it.
LEMMA FlattensOnce ==
    ASSUME NEW W, NEW seqs \in Seq(Seq(W)), NEW F, Flattens(F, seqs), NEW G, Flattens(G, seqs)
    PROVE  \A n \in 0 .. Len(seqs) : F[n] = G[n] /\ F[n] \in Seq(W)
<1> DEFINE T == {n \in 0 .. Len(seqs) : F[n] = G[n] /\ F[n] \in Seq(W)}
<1>1. Len(seqs) \in Nat
  OBVIOUS
<1>2. 0 \in T
  <2>1. F[0] = <<>> /\ G[0] = <<>> /\ 0 \in 0 .. Len(seqs)
    BY <1>1 DEF Flattens
  <2> QED BY <2>1, EmptySeq
<1>3. ASSUME NEW n \in 0 .. Len(seqs), n < Len(seqs), n \in T PROVE n + 1 \in T
  <2>1. n + 1 \in 1 .. Len(seqs) /\ (n + 1) - 1 = n /\ seqs[n + 1] \in Seq(W)
    BY <1>1, <1>3, ElementOfSeq
  <2>2. F[n + 1] = F[n] \o seqs[n + 1] /\ G[n + 1] = G[n] \o seqs[n + 1]
    BY <2>1 DEF Flattens
  <2>3. F[n] = G[n] /\ F[n] \in Seq(W)
    BY <1>3
  <2>4. F[n + 1] \in Seq(W) /\ n + 1 \in 0 .. Len(seqs)
    BY <2>1, <2>2, <2>3, ConcatProperties
  <2> QED BY <2>2, <2>3, <2>4
<1> HIDE DEF T
<1>4. 0 .. Len(seqs) \subseteq T
  BY <1>1, <1>2, <1>3, Indices
<1> QED BY <1>4 DEF T

\* What FlattenSeq does, which starts at the first element.
FlatTo(seqs) ==
    CHOOSE f : f = [i \in 1 .. Len(seqs) |-> IF i = 1 THEN seqs[i] ELSE f[i - 1] \o seqs[i]]

LEMMA FlatToEnd ==
    \A seqs : FlattenSeq(seqs) = IF Len(seqs) = 0 THEN seqs ELSE FlatTo(seqs)[Len(seqs)]
BY DEF FlattenSeq, FlatTo

LEMMA Flattened ==
    ASSUME NEW W, NEW seqs \in Seq(Seq(W)), NEW F, Flattens(F, seqs)
    PROVE  FlattenSeq(seqs) = F[Len(seqs)] /\ FlattenSeq(seqs) \in Seq(W)
<1>1. PICK N \in Nat : N = Len(seqs)
  OBVIOUS
<1>2. F[N] \in Seq(W)
  BY <1>1, FlattensOnce
<1>3. CASE N = 0
  <2>1. seqs = <<>> /\ F[0] = <<>>
    BY <1>1, <1>3, EmptySeq DEF Flattens
  <2> QED BY <1>1, <1>2, <1>3, <2>1, FlatToEnd
<1>4. CASE N # 0
  <2> DEFINE Builds1(f) == f = [i \in 1 .. N |-> IF i = 1 THEN seqs[i] ELSE f[i - 1] \o seqs[i]]
             f0 == [i \in 1 .. N |-> F[i]]
  <2>1. \A i \in 1 .. N : f0[i] = IF i = 1 THEN seqs[i] ELSE f0[i - 1] \o seqs[i]
    <3> SUFFICES ASSUME NEW i \in 1 .. N
                 PROVE  f0[i] = IF i = 1 THEN seqs[i] ELSE f0[i - 1] \o seqs[i]
      OBVIOUS
    <3>1. F[i] = F[i - 1] \o seqs[i] /\ F[0] = <<>>
      BY <1>1 DEF Flattens
    <3>2. CASE i = 1
      <4>1. seqs[1] \in Seq(W)
        BY <1>1, <1>4, ElementOfSeq
      <4>2. <<>> \o seqs[1] = seqs[1]
        BY <4>1
      <4>3. f0[i] = F[i] /\ i - 1 = 0
        BY <3>2
      <4> HIDE DEF f0
      <4> QED BY <3>1, <3>2, <4>2, <4>3
    <3>3. CASE i # 1
      <4>1. f0[i] = F[i] /\ f0[i - 1] = F[i - 1]
        BY <3>3
      <4> HIDE DEF f0
      <4> QED BY <3>1, <3>3, <4>1
    <3> QED BY <3>2, <3>3
  <2>2. Builds1(f0)
    BY <2>1
  <2>3. \E f : Builds1(f)
    BY <2>2
  <2>4. PICK f : f = FlatTo(seqs)
    OBVIOUS
  <2>5. f = [i \in 1 .. N |-> IF i = 1 THEN seqs[i] ELSE f[i - 1] \o seqs[i]]
    <3>1. FlatTo(seqs) = CHOOSE g : Builds1(g)
      BY <1>1 DEF FlatTo
    <3> QED BY <2>3, <2>4, <3>1, Zenon
  <2> DEFINE G == [n \in 0 .. N |-> IF n = 0 THEN <<>> ELSE f[n]]
  <2>6. \A n \in 1 .. N : G[n] = G[n - 1] \o seqs[n]
    <3> SUFFICES ASSUME NEW n \in 1 .. N PROVE G[n] = G[n - 1] \o seqs[n]
      OBVIOUS
    <3>1. f[n] = IF n = 1 THEN seqs[n] ELSE f[n - 1] \o seqs[n]
      BY <2>5
    <3>2. CASE n = 1
      <4>1. seqs[1] \in Seq(W)
        BY <1>1, <1>4, ElementOfSeq
      <4>2. <<>> \o seqs[1] = seqs[1]
        BY <4>1
      <4>3. G[n] = seqs[1] /\ G[n - 1] = <<>>
        BY <3>1, <3>2
      <4> HIDE DEF G
      <4> QED BY <3>2, <4>2, <4>3
    <3>3. CASE n # 1
      <4>1. n - 1 \in 1 .. N /\ G[n - 1] = f[n - 1] /\ G[n] = f[n]
        BY <3>3
      <4> HIDE DEF G
      <4> QED BY <3>1, <3>3, <4>1
    <3> QED BY <3>2, <3>3
  <2>7. Flattens(G, seqs) /\ G[N] = f[N]
    <3>1. G[0] = <<>> /\ G[N] = f[N]
      BY <1>4
    <3> HIDE DEF G
    <3> QED BY <1>1, <2>6, <3>1 DEF Flattens
  <2> HIDE DEF G
  <2>8. F[N] = G[N]
    BY <1>1, <2>7, FlattensOnce
  <2> QED BY <1>1, <1>2, <1>4, <2>4, <2>7, <2>8, FlatToEnd
<1> QED BY <1>3, <1>4

LEMMA OneMore ==
    ASSUME NEW S, NEW s \in Seq(S), NEW e \in S, NEW N, N = Len(s), NEW t, t = Append(s, e)
    PROVE  /\ t \in Seq(S) /\ Len(t) = N + 1 /\ t[N + 1] = e
           /\ \A n \in 1 .. N : t[n] = s[n]
BY AppendProperties

LEMMA OneAfterTheOther ==
    ASSUME NEW S, NEW s \in Seq(S), NEW t \in Seq(S), NEW M, NEW N,
           M = Len(s), N = Len(t), NEW u, u = s \o t
    PROVE  /\ u \in Seq(S) /\ Len(u) = M + N
           /\ \A n \in 1 .. M : u[n] = s[n]
           /\ \A n \in 1 .. N : u[M + n] = t[n]
<1>1. u \in Seq(S) /\ Len(u) = M + N /\ M \in Nat /\ N \in Nat
  BY ConcatProperties
<1>2. \A n \in 1 .. M : u[n] = s[n]
  OBVIOUS
<1>3. \A n \in 1 .. N : u[M + n] = t[n]
  <2> SUFFICES ASSUME NEW n \in 1 .. N PROVE u[M + n] = t[n]
    OBVIOUS
  <2>1. M + n \in 1 .. (M + N) /\ ~(M + n <= M) /\ (M + n) - M = n
    BY <1>1
  <2> QED BY <2>1, ConcatProperties
<1> QED BY <1>1, <1>2, <1>3

LEMMA FlattenTypes ==
    ASSUME NEW W, NEW seqs \in Seq(Seq(W))
    PROVE  FlattenSeq(seqs) \in Seq(W)
<1>1. PICK F : Flattens(F, seqs)
  BY SomeFlatten
<1> QED BY <1>1, Flattened

LEMMA FlattenConcat ==
    ASSUME NEW W, NEW s \in Seq(Seq(W)), NEW t \in Seq(Seq(W))
    PROVE  FlattenSeq(s \o t) = FlattenSeq(s) \o FlattenSeq(t)
<1>1. PICK F, G : Flattens(F, s) /\ Flattens(G, t)
  BY SomeFlatten
<1>2. PICK M \in Nat, N \in Nat : M = Len(s) /\ N = Len(t)
  OBVIOUS
<1> PICK st : st = s \o t
  OBVIOUS
<1>3. /\ st \in Seq(Seq(W)) /\ Len(st) = M + N
      /\ \A n \in 1 .. M : st[n] = s[n]
      /\ \A n \in 1 .. N : st[M + n] = t[n]
  BY <1>2, OneAfterTheOther
<1>4. /\ \A n \in 0 .. M : F[n] \in Seq(W)
      /\ \A n \in 0 .. N : G[n] \in Seq(W)
      /\ F[0] = <<>> /\ \A n \in 1 .. M : F[n] = F[n - 1] \o s[n]
      /\ G[0] = <<>> /\ \A n \in 1 .. N : G[n] = G[n - 1] \o t[n]
  BY <1>1, <1>2, FlattensOnce DEF Flattens
<1> DEFINE H == [n \in 0 .. (M + N) |-> IF n <= M THEN F[n] ELSE F[M] \o G[n - M]]
<1>5. /\ \A n \in 0 .. M : H[n] = F[n]
      /\ \A n \in 1 .. N : H[M + n] = F[M] \o G[n]
  <2>1. \A n \in 0 .. M : n \in 0 .. (M + N) /\ n <= M
    OBVIOUS
  <2>2. \A n \in 1 .. N : M + n \in 0 .. (M + N) /\ ~(M + n <= M) /\ (M + n) - M = n
    OBVIOUS
  <2> QED BY <2>1, <2>2
<1> HIDE DEF H
<1>6. H[M + 0] = F[M] \o G[0]
  <2>1. F[M] \in Seq(W) /\ M + 0 = M /\ M \in 0 .. M
    BY <1>4
  <2>2. F[M] \o <<>> = F[M]
    BY <2>1
  <2> QED BY <1>4, <1>5, <2>1, <2>2
<1>7. ASSUME NEW n \in 1 .. N PROVE H[M + n] = H[M + (n - 1)] \o t[n]
  <2>1. H[M + (n - 1)] = F[M] \o G[n - 1]
    <3>1. n - 1 = 0 \/ n - 1 \in 1 .. N
      OBVIOUS
    <3> QED BY <1>5, <1>6, <3>1
  <2>2. H[M + n] = F[M] \o (G[n - 1] \o t[n])
    <3>1. G[n] = G[n - 1] \o t[n]
      BY <1>4
    <3> QED BY <1>5, <3>1
  <2>3. F[M] \in Seq(W) /\ G[n - 1] \in Seq(W) /\ t[n] \in Seq(W)
    <3>1. M \in 0 .. M /\ n - 1 \in 0 .. N
      OBVIOUS
    <3> QED BY <1>2, <1>4, <3>1, ElementOfSeq
  <2>4. F[M] \o (G[n - 1] \o t[n]) = (F[M] \o G[n - 1]) \o t[n]
    <3>1. PICK x \in Seq(W), y \in Seq(W), z \in Seq(W) : x = F[M] /\ y = G[n - 1] /\ z = t[n]
      BY <2>3
    <3>2. (x \o y) \o z = x \o (y \o z)
      <4>1. x \in Seq(W) /\ y \in Seq(W) /\ z \in Seq(W)
        BY <3>1
      <4> QED BY <4>1, ConcatAssociative, SMTT(20)
    <3> QED BY <3>1, <3>2
  <2> QED BY <2>1, <2>2, <2>4
<1>8. Flattens(H, st)
  <2>1. H[0] = <<>>
    BY <1>4, <1>5
  <2>2. ASSUME NEW n \in 1 .. (M + N) PROVE H[n] = H[n - 1] \o st[n]
    <3>1. CASE n <= M
      <4>1. n \in 1 .. M /\ n \in 0 .. M /\ n - 1 \in 0 .. M
        BY <3>1
      <4> QED BY <1>3, <1>4, <1>5, <4>1
    <3>2. CASE ~(n <= M)
      <4>1. PICK k \in 1 .. N : n = M + k /\ n - 1 = M + (k - 1)
        <5>1. n - M \in 1 .. N /\ n = M + (n - M) /\ n - 1 = M + ((n - M) - 1)
          BY <3>2
        <5> QED BY <5>1
      <4>2. H[M + k] = H[M + (k - 1)] \o t[k] /\ st[M + k] = t[k]
        BY <1>3, <1>7
      <4> QED BY <4>1, <4>2
    <3> QED BY <3>1, <3>2
  <2> QED BY <1>3, <2>1, <2>2 DEF Flattens
<1>9. H[M + N] = F[M] \o G[N]
  <2>1. N = 0 \/ N \in 1 .. N
    OBVIOUS
  <2> QED BY <1>5, <1>6, <2>1
<1>10. FlattenSeq(s) = F[M] /\ FlattenSeq(t) = G[N] /\ FlattenSeq(st) = H[M + N]
  <2>1. FlattenSeq(s) = F[M]
    BY <1>1, <1>2, Flattened
  <2>2. FlattenSeq(t) = G[N]
    BY <1>1, <1>2, Flattened
  <2>3. FlattenSeq(st) = H[M + N]
    BY <1>3, <1>8, Flattened
  <2> QED BY <2>1, <2>2, <2>3
<1> QED BY <1>3, <1>9, <1>10

LEMMA FlattenAppend ==
    ASSUME NEW W, NEW s \in Seq(Seq(W)), NEW e \in Seq(W)
    PROVE  FlattenSeq(Append(s, e)) = FlattenSeq(s) \o e
<1>1. PICK F : Flattens(F, s)
  BY SomeFlatten
<1>2. PICK N \in Nat : N = Len(s)
  OBVIOUS
<1> PICK t : t = Append(s, e)
  OBVIOUS
<1>3. /\ t \in Seq(Seq(W)) /\ Len(t) = N + 1 /\ t[N + 1] = e
      /\ \A n \in 1 .. N : t[n] = s[n]
  BY <1>2, OneMore
<1> DEFINE G == [n \in 0 .. (N + 1) |-> IF n = N + 1 THEN F[N] \o e ELSE F[n]]
<1>4. G[N + 1] = F[N] \o e /\ \A n \in 0 .. N : G[n] = F[n]
  <2>1. N + 1 \in 0 .. (N + 1) /\ \A n \in 0 .. N : n \in 0 .. (N + 1) /\ n # N + 1
    OBVIOUS
  <2> QED BY <2>1
<1> HIDE DEF G
<1>5. Flattens(G, t)
  <2>1. F[0] = <<>> /\ \A n \in 1 .. N : F[n] = F[n - 1] \o s[n]
    BY <1>1, <1>2 DEF Flattens
  <2>2. G[0] = <<>>
    BY <1>4, <2>1
  <2>3. ASSUME NEW n \in 1 .. (N + 1) PROVE G[n] = G[n - 1] \o t[n]
    <3>1. CASE n = N + 1
      <4>1. n - 1 = N /\ N \in 0 .. N
        BY <3>1
      <4> QED BY <1>3, <1>4, <3>1, <4>1
    <3>2. CASE n # N + 1
      <4>1. n \in 1 .. N /\ n \in 0 .. N /\ n - 1 \in 0 .. N
        BY <3>2
      <4> QED BY <1>3, <1>4, <2>1, <4>1
    <3> QED BY <3>1, <3>2
  <2> QED BY <1>3, <2>2, <2>3 DEF Flattens
<1>6. FlattenSeq(s) = F[N] /\ FlattenSeq(t) = G[N + 1]
  BY <1>1, <1>2, <1>3, <1>5, Flattened
<1> QED BY <1>3, <1>4, <1>6

\* What h makes of the elements of seq, one after the other.
Made(seq, h) == [i \in DOMAIN seq |-> h[seq[i]]]

LEMMA MadeTypes ==
    ASSUME NEW S, NEW seq \in Seq(S), NEW X, NEW h, \A e \in S : h[e] \in X
    PROVE  Made(seq, h) \in Seq(X)
<1>1. PICK N \in Nat : N = Len(seq) /\ DOMAIN seq = 1 .. N
  OBVIOUS
<1>2. \A n \in 1 .. N : h[seq[n]] \in X
  BY <1>1, ElementOfSeq
<1>3. Made(seq, h) = [n \in 1 .. N |-> h[seq[n]]]
  BY <1>1 DEF Made
<1> QED BY <1>2, <1>3, IsASeq

LEMMA MadeOf ==
    ASSUME NEW S, NEW seq \in Seq(S), NEW h
    PROVE  /\ Len(Made(seq, h)) = Len(seq)
           /\ \A n \in 1 .. Len(seq) : Made(seq, h)[n] = h[seq[n]]
<1>1. PICK N \in Nat : N = Len(seq) /\ DOMAIN seq = 1 .. N
  OBVIOUS
<1>2. PICK made : made = Made(seq, h)
  OBVIOUS
<1>3. made = [n \in 1 .. N |-> h[seq[n]]]
  BY <1>1, <1>2 DEF Made
<1>4. made \in Seq({h[e] : e \in S})
  <2>1. \A n \in 1 .. N : seq[n] \in S
    BY <1>1, ElementOfSeq
  <2>2. \A n \in 1 .. N : h[seq[n]] \in {h[e] : e \in S}
    BY <2>1
  <2> QED BY <1>3, <2>2, IsASeq
<1>5. Len(made) = N
  BY <1>3, <1>4
<1> QED BY <1>1, <1>2, <1>3, <1>5

LEMMA MadeAppend ==
    ASSUME NEW S, NEW seq \in Seq(S), NEW e \in S, NEW h
    PROVE  Made(Append(seq, e), h) = Append(Made(seq, h), h[e])
<1>1. PICK N \in Nat : N = Len(seq)
  OBVIOUS
<1> PICK t : t = Append(seq, e)
  OBVIOUS
<1>2. /\ t \in Seq(S) /\ Len(t) = N + 1 /\ t[N + 1] = e
      /\ \A n \in 1 .. N : t[n] = seq[n]
  BY <1>1, OneMore
<1> PICK m, k : m = Made(t, h) /\ k = Made(seq, h)
  OBVIOUS
<1> PICK X : \A x \in S : h[x] \in X
  <2>1. \A x \in S : h[x] \in {h[y] : y \in S}
    OBVIOUS
  <2> QED BY <2>1
<1>3. m \in Seq(X) /\ Len(m) = N + 1 /\ \A n \in 1 .. (N + 1) : m[n] = h[t[n]]
  <2>0. t \in Seq(S)
    BY <1>2
  <2>1. m \in Seq(X)
    BY <2>0, MadeTypes
  <2>2. Len(m) = Len(t)
    BY <2>0, MadeOf
  <2>3. \A n \in 1 .. Len(t) : m[n] = h[t[n]]
    BY <2>0, MadeOf
  <2> QED BY <1>2, <2>1, <2>2, <2>3
<1>4. k \in Seq(X) /\ Len(k) = N /\ \A n \in 1 .. N : k[n] = h[seq[n]]
  BY <1>1, MadeTypes, MadeOf
<1> PICK l : l = Append(k, h[e])
  OBVIOUS
<1>5. /\ l \in Seq(X) /\ Len(l) = N + 1 /\ l[N + 1] = h[e]
      /\ \A n \in 1 .. N : l[n] = k[n]
  <2>1. h[e] \in X
    OBVIOUS
  <2> QED BY <1>4, <2>1, OneMore
<1>6. \A n \in 1 .. (N + 1) : m[n] = l[n]
  <2>1. \A n \in 1 .. (N + 1) : n = N + 1 \/ n \in 1 .. N
    OBVIOUS
  <2>2. m[N + 1] = l[N + 1]
    BY <1>2, <1>3, <1>5
  <2>3. \A n \in 1 .. N : m[n] = l[n]
    <3> SUFFICES ASSUME NEW n \in 1 .. N PROVE m[n] = l[n]
      OBVIOUS
    <3>1. m[n] = h[t[n]] /\ t[n] = seq[n]
      BY <1>2, <1>3
    <3>2. l[n] = k[n] /\ k[n] = h[seq[n]]
      BY <1>4, <1>5
    <3> QED BY <3>1, <3>2
  <2> QED BY <2>1, <2>2, <2>3
<1> QED BY <1>3, <1>5, <1>6, SeqEqual

\* What nothing is made of may be left out.
LEMMA FlattenKept ==
    ASSUME NEW S, NEW seq \in Seq(S), NEW W, NEW h, NEW I, \A e \in S : h[e] \in Seq(W),
           \A n \in (1 .. Len(seq)) \ I : h[seq[n]] = <<>>
    PROVE  FlattenSeq(Made(Kept(seq, I), h)) = FlattenSeq(Made(seq, h))
<1>1. PICK made \in Seq(Seq(W)) :
            /\ made = Made(seq, h) /\ Len(made) = Len(seq)
            /\ \A n \in 1 .. Len(seq) : made[n] = h[seq[n]]
  <2>1. Made(seq, h) \in Seq(Seq(W))
    BY MadeTypes
  <2>2. Len(Made(seq, h)) = Len(seq)
    BY MadeOf
  <2>3. \A n \in 1 .. Len(seq) : Made(seq, h)[n] = h[seq[n]]
    BY MadeOf
  <2> QED BY <2>1, <2>2, <2>3
<1>2. PICK F : Flattens(F, made)
  BY SomeFlatten
<1>3. PICK N \in Nat : N = Len(seq)
  OBVIOUS
<1>4. PICK u : u = UpTo(seq, I)
  OBVIOUS
<1>5. /\ u[0] = <<>> /\ \A n \in 0 .. N : u[n] \in Seq(S)
      /\ \A n \in 1 .. N : u[n] = IF n \in I THEN Append(u[n - 1], seq[n]) ELSE u[n - 1]
  <2>1. u[0] = <<>>
    BY <1>4, KeptStep
  <2>2. \A n \in 0 .. N : u[n] \in Seq(S)
    BY <1>3, <1>4, UpToTypes
  <2>3. \A n \in 1 .. N : u[n] = IF n \in I THEN Append(u[n - 1], seq[n]) ELSE u[n - 1]
    <3>1. \A n \in 1 .. Len(seq) : UpTo(seq, I)[n] =
             IF n \in I THEN Append(UpTo(seq, I)[n - 1], seq[n]) ELSE UpTo(seq, I)[n - 1]
      BY KeptStep
    <3> QED BY <1>3, <1>4, <3>1
  <2> QED BY <2>1, <2>2, <2>3
<1>6. /\ F[0] = <<>> /\ \A n \in 0 .. N : F[n] \in Seq(W)
      /\ \A n \in 1 .. N : F[n] = F[n - 1] \o made[n]
  <2>1. \A n \in 0 .. N : F[n] \in Seq(W)
    BY <1>1, <1>2, <1>3, FlattensOnce
  <2>2. F[0] = <<>> /\ \A n \in 1 .. N : F[n] = F[n - 1] \o made[n]
    BY <1>1, <1>2, <1>3 DEF Flattens
  <2> QED BY <2>1, <2>2
<1> DEFINE T == {n \in 0 .. N : FlattenSeq(Made(u[n], h)) = F[n]}
<1>7. 0 \in T
  <2>1. Made(u[0], h) = <<>>
    BY <1>5 DEF Made
  <2>2. FlattenSeq(<<>>) = <<>>
    BY FlatToEnd
  <2> QED BY <1>6, <2>1, <2>2
<1>8. ASSUME NEW n \in 0 .. N, n < N, n \in T PROVE n + 1 \in T
  <2>1. n + 1 \in 1 .. N /\ n + 1 \in 0 .. N /\ (n + 1) - 1 = n
    BY <1>8
  <2>2. PICK e \in S : e = seq[n + 1]
    BY <1>3, <2>1, ElementOfSeq
  <2>3. PICK v \in Seq(S) : v = u[n]
    BY <1>5
  <2>4. PICK w \in Seq(Seq(W)) : w = Made(v, h)
    BY MadeTypes
  <2>5. FlattenSeq(w) = F[n] /\ F[n] \in Seq(W)
    BY <1>6, <1>8, <2>3, <2>4
  <2>6. F[n + 1] = F[n] \o h[e] /\ h[e] \in Seq(W)
    BY <1>1, <1>3, <1>6, <2>1, <2>2
  <2>7. FlattenSeq(Made(u[n + 1], h)) = F[n + 1]
    <3>1. CASE n + 1 \in I
      <4>1. u[n + 1] = Append(v, e)
        BY <1>5, <2>1, <2>2, <2>3, <3>1
      <4>2. Made(Append(v, e), h) = Append(w, h[e])
        <5>1. Made(Append(v, e), h) = Append(Made(v, h), h[e])
          BY <2>2, <2>3, MadeAppend
        <5> QED BY <2>4, <5>1
      <4>3. FlattenSeq(Append(w, h[e])) = FlattenSeq(w) \o h[e]
        BY <2>6, FlattenAppend
      <4> QED BY <2>5, <2>6, <4>1, <4>2, <4>3
    <3>2. CASE n + 1 \notin I
      <4>1. u[n + 1] = v
        BY <1>5, <2>1, <2>3, <3>2
      <4>2. h[e] = <<>>
        BY <1>3, <2>1, <2>2, <3>2
      <4>3. F[n] \o <<>> = F[n]
        BY <2>5
      <4> QED BY <2>4, <2>5, <2>6, <4>1, <4>2, <4>3
    <3> QED BY <3>1, <3>2
  <2> QED BY <2>1, <2>7
<1> HIDE DEF T
<1>9. 0 .. N \subseteq T
  BY <1>7, <1>8, Indices
<1>10. FlattenSeq(Made(u[N], h)) = F[N]
  BY <1>9 DEF T
<1>11. Kept(seq, I) = u[N]
  BY <1>3, <1>4, KeptUpTo
<1>12. FlattenSeq(made) = F[N]
  BY <1>1, <1>2, <1>3, Flattened
<1> QED BY <1>1, <1>10, <1>11, <1>12

-----------------------------------------------------------------------------
(* Nothing that is said is lost.                                            *)

Word == {"user", "assistant"} \X STRING \X Blocks

Saying(role, says) ==
    [b \in Blocks |-> IF b \in {"blank", "thinking"} THEN <<>> ELSE << <<role, says, b>> >>]

Telling == [m \in Message |-> Said(m)]

LEMMA SayingType ==
    ASSUME NEW role \in {"user", "assistant"}, NEW says \in STRING
    PROVE  \A b \in Blocks : Saying(role, says)[b] \in Seq(Word)
<1> SUFFICES ASSUME NEW b \in Blocks PROVE Saying(role, says)[b] \in Seq(Word)
  OBVIOUS
<1>1. CASE b \in {"blank", "thinking"}
  <2>1. Saying(role, says)[b] = <<>>
    BY <1>1 DEF Saying
  <2> QED BY <2>1, EmptySeq
<1>2. CASE b \notin {"blank", "thinking"}
  <2>1. PICK w : w = <<role, says, b>>
    OBVIOUS
  <2>2. w \in Word
    BY <2>1 DEF Word
  <2>3. Saying(role, says)[b] = <<w>>
    BY <1>2, <2>1 DEF Saying
  <2>4. <<w>> \in Seq(Word)
    BY <2>2
  <2> QED BY <2>3, <2>4
<1> QED BY <1>1, <1>2

LEMMA SaidByBlocks ==
    ASSUME NEW m, m.blocks \in Seq(Blocks)
    PROVE  Said(m) = FlattenSeq(Made(m.blocks, Saying(m.role, m.says)))
<1>1. PICK r, s, b : r = m.role /\ s = m.says /\ b = m.blocks
  OBVIOUS
<1>2. \A i \in DOMAIN b : b[i] \in Blocks
  BY <1>1
<1>3. \A i \in DOMAIN b :
        Saying(r, s)[b[i]] = IF b[i] \in {"blank", "thinking"} THEN <<>> ELSE << <<r, s, b[i]>> >>
  BY <1>2 DEF Saying
<1>4. Made(b, Saying(r, s)) =
        [i \in DOMAIN b |-> IF b[i] \in {"blank", "thinking"} THEN <<>> ELSE << <<r, s, b[i]>> >>]
  BY <1>3 DEF Made
<1> QED BY <1>1, <1>4 DEF Said

LEMMA SaidType ==
    ASSUME NEW m \in Message
    PROVE  Said(m) \in Seq(Word)
<1>1. m.role \in {"user", "assistant"} /\ m.says \in STRING /\ m.blocks \in Seq(Blocks)
  BY MessageFields
<1>2. PICK made : made = Made(m.blocks, Saying(m.role, m.says))
  OBVIOUS
<1>3. made \in Seq(Seq(Word))
  BY <1>1, <1>2, SayingType, MadeTypes
<1>4. FlattenSeq(made) \in Seq(Word)
  BY <1>3, FlattenTypes
<1> QED BY <1>1, <1>2, <1>4, SaidByBlocks

\* filterContentBlocks takes only what says nothing.
LEMMA SaidFiltered ==
    ASSUME NEW m \in Message
    PROVE  Said(FilterContentBlocks(m)) = Said(m)
<1>1. /\ m = [role |-> m.role, says |-> m.says, blocks |-> m.blocks]
      /\ m.role \in {"user", "assistant"} /\ m.says \in STRING /\ m.blocks \in Seq(Blocks)
  BY MessageFields
<1>2. PICK b, kept, h :
            /\ b = m.blocks /\ kept = Kept(b, Stays(m)) /\ h = Saying(m.role, m.says)
  OBVIOUS
<1>3. PICK f : f = FilterContentBlocks(m)
  OBVIOUS
<1>4. f.role = m.role /\ f.says = m.says /\ f.blocks = kept
  <2>1. f = [role |-> m.role, says |-> m.says, blocks |-> kept]
    BY <1>1, <1>2, <1>3 DEF FilterContentBlocks
  <2> QED BY <2>1
<1>5. \A n \in (1 .. Len(b)) \ Stays(m) : h[b[n]] = <<>>
  <2> SUFFICES ASSUME NEW n \in 1 .. Len(b), n \notin Stays(m) PROVE h[b[n]] = <<>>
    OBVIOUS
  <2>1. b[n] \in Blocks /\ n \in DOMAIN b
    BY <1>1, <1>2
  <2>2. b[n] \in {"blank", "thinking"}
    BY <1>2, <2>1 DEF Stays
  <2> QED BY <1>2, <2>1, <2>2 DEF Saying
<1>6. b \in Seq(Blocks) /\ \A x \in Blocks : h[x] \in Seq(Word)
  BY <1>1, <1>2, SayingType
<1>7. FlattenSeq(Made(kept, h)) = FlattenSeq(Made(b, h))
  BY <1>2, <1>5, <1>6, FlattenKept
<1>8. f.blocks \in Seq(Blocks)
  BY <1>2, <1>4, <1>6, KeptFrom
<1>9. Said(f) = FlattenSeq(Made(kept, h)) /\ Said(m) = FlattenSeq(Made(b, h))
  BY <1>1, <1>2, <1>4, <1>8, SaidByBlocks
<1> QED BY <1>3, <1>7, <1>9

LEMMA SaidNothing ==
    ASSUME NEW m, m.blocks = <<>>
    PROVE  Said(m) = <<>>
<1>1. m.blocks \in Seq(Blocks)
  BY EmptySeq
<1>2. Made(m.blocks, Saying(m.role, m.says)) = <<>>
  BY DEF Made
<1>3. FlattenSeq(<<>>) = <<>>
  BY FlatToEnd
<1> QED BY <1>1, <1>2, <1>3, SaidByBlocks

LEMMA WordsByMessages ==
    ASSUME NEW messages \in Seq(Message)
    PROVE  /\ Words(messages) = FlattenSeq(Made(messages, Telling))
           /\ Made(messages, Telling) \in Seq(Seq(Word))
<1>1. \A m \in Message : Telling[m] = Said(m) /\ Telling[m] \in Seq(Word)
  BY SaidType DEF Telling
<1>2. \A i \in DOMAIN messages : messages[i] \in Message
  OBVIOUS
<1>3. Made(messages, Telling) = [i \in DOMAIN messages |-> Said(messages[i])]
  BY <1>1, <1>2 DEF Made
<1>4. Made(messages, Telling) \in Seq(Seq(Word))
  BY <1>1, MadeTypes
<1> QED BY <1>3, <1>4 DEF Words

\* sanitizeBody takes only messages that say nothing.
LEMMA WordsSanitized ==
    ASSUME NEW messages \in Seq(Message)
    PROVE  Words(Sanitized(messages)) = Words(messages)
<1>1. PICK N \in Nat : N = Len(messages)
  OBVIOUS
<1>2. PICK filtered : filtered = Filtered(messages)
  OBVIOUS
<1>3. /\ filtered \in Seq(Message) /\ Len(filtered) = N
      /\ \A i \in 1 .. N : /\ filtered[i] = FilterContentBlocks(messages[i])
                           /\ messages[i] \in Message /\ filtered[i] \in Message
  <2>1. filtered \in Seq(Message) /\ Len(filtered) = N
    BY <1>1, <1>2, FilteredMessages
  <2>2. \A i \in 1 .. N : filtered[i] = FilterContentBlocks(messages[i])
    BY <1>1, <1>2, FilteredMessages
  <2>3. \A i \in 1 .. N : messages[i] \in Message /\ filtered[i] \in Message
    BY <1>1, <2>1, ElementOfSeq
  <2> QED BY <2>1, <2>2, <2>3
<1>4. \A m \in Message : Telling[m] = Said(m) /\ Telling[m] \in Seq(Word)
  BY SaidType DEF Telling
<1>5. \A n \in (1 .. N) \ NonEmpty(filtered) : Telling[filtered[n]] = <<>>
  <2> SUFFICES ASSUME NEW n \in 1 .. N, n \notin NonEmpty(filtered)
               PROVE  Telling[filtered[n]] = <<>>
    OBVIOUS
  <2>1. n \in DOMAIN filtered
    BY <1>3
  <2>2. filtered[n].blocks = <<>>
    BY <2>1 DEF NonEmpty
  <2> QED BY <1>3, <1>4, <2>2, SaidNothing
<1>6. PICK kept : kept = Kept(filtered, NonEmpty(filtered))
  OBVIOUS
<1>7. FlattenSeq(Made(kept, Telling)) = FlattenSeq(Made(filtered, Telling))
  <2>1. \A m \in Message : Telling[m] \in Seq(Word)
    BY <1>4
  <2>2. \A n \in (1 .. Len(filtered)) \ NonEmpty(filtered) : Telling[filtered[n]] = <<>>
    BY <1>3, <1>5
  <2> HIDE DEF Telling
  <2> QED BY <1>3, <1>6, <2>1, <2>2, FlattenKept
<1>8. Made(filtered, Telling) = Made(messages, Telling)
  <2>1. DOMAIN filtered = 1 .. N /\ DOMAIN messages = 1 .. N
    BY <1>1, <1>3
  <2>2. \A i \in 1 .. N : Telling[filtered[i]] = Telling[messages[i]]
    BY <1>3, <1>4, SaidFiltered
  <2> HIDE DEF Telling
  <2> QED BY <2>1, <2>2 DEF Made
<1>9. kept \in Seq(Message) /\ kept = Sanitized(messages)
  <2>1. kept = Sanitized(messages)
    BY <1>2, <1>6 DEF Sanitized
  <2> QED BY <2>1, SanitizedMessages
<1> QED BY <1>7, <1>8, <1>9, WordsByMessages

LEMMA WordsConcat ==
    ASSUME NEW s \in Seq(Message), NEW t \in Seq(Message)
    PROVE  Words(s \o t) = Words(s) \o Words(t)
<1> PICK u, h : u = s \o t /\ h = Telling
  OBVIOUS
<1>1. PICK M \in Nat, N \in Nat : M = Len(s) /\ N = Len(t)
  OBVIOUS
<1>2. /\ u \in Seq(Message) /\ Len(u) = M + N
      /\ \A n \in 1 .. M : u[n] = s[n]
      /\ \A n \in 1 .. N : u[M + n] = t[n]
  BY <1>1, OneAfterTheOther
<1> PICK a, b, c : a = Made(s, h) /\ b = Made(t, h) /\ c = Made(u, h)
  OBVIOUS
<1>0. PICK ab : ab = a \o b
  OBVIOUS
<1>3. /\ a \in Seq(Seq(Word)) /\ b \in Seq(Seq(Word)) /\ c \in Seq(Seq(Word))
      /\ Words(s) = FlattenSeq(a) /\ Words(t) = FlattenSeq(b) /\ Words(u) = FlattenSeq(c)
  BY <1>2, WordsByMessages
<1>4. /\ Len(a) = M /\ \A n \in 1 .. M : a[n] = h[s[n]]
      /\ Len(b) = N /\ \A n \in 1 .. N : b[n] = h[t[n]]
  BY <1>1, MadeOf
<1>5. Len(c) = M + N /\ \A n \in 1 .. (M + N) : c[n] = h[u[n]]
  <2>1. u \in Seq(Message)
    BY <1>2
  <2>2. Len(c) = Len(u)
    BY <2>1, MadeOf
  <2>3. \A n \in 1 .. Len(u) : c[n] = h[u[n]]
    BY <2>1, MadeOf
  <2> QED BY <1>2, <2>2, <2>3
<1>6. /\ ab \in Seq(Seq(Word)) /\ Len(ab) = M + N
      /\ \A n \in 1 .. M : ab[n] = a[n]
      /\ \A n \in 1 .. N : ab[M + n] = b[n]
  <2>1. a \in Seq(Seq(Word)) /\ b \in Seq(Seq(Word)) /\ M = Len(a) /\ N = Len(b)
    BY <1>3, <1>4
  <2> PICK S : S = Seq(Word)
    OBVIOUS
  <2>2. a \in Seq(S) /\ b \in Seq(S)
    BY <2>1
  <2>3. /\ ab \in Seq(S) /\ Len(ab) = M + N
        /\ \A n \in 1 .. M : ab[n] = a[n]
        /\ \A n \in 1 .. N : ab[M + n] = b[n]
    BY <1>0, <2>1, <2>2, OneAfterTheOther
  <2> QED BY <2>3
<1>7. \A n \in 1 .. (M + N) : c[n] = ab[n]
  <2> SUFFICES ASSUME NEW n \in 1 .. (M + N) PROVE c[n] = ab[n]
    OBVIOUS
  <2>1. CASE n <= M
    <3>1. n \in 1 .. M
      BY <2>1
    <3>2. c[n] = h[u[n]] /\ u[n] = s[n]
      BY <1>2, <1>5, <3>1
    <3>3. ab[n] = a[n] /\ a[n] = h[s[n]]
      BY <1>4, <1>6, <3>1
    <3> QED BY <3>2, <3>3
  <2>2. CASE ~(n <= M)
    <3>1. PICK k \in 1 .. N : n = M + k
      <4>1. n - M \in 1 .. N /\ n = M + (n - M)
        BY <1>1, <2>2
      <4> QED BY <4>1
    <3>2. c[n] = h[u[n]] /\ u[n] = t[k]
      BY <1>2, <1>5, <3>1
    <3>3. ab[n] = b[k] /\ b[k] = h[t[k]]
      BY <1>4, <1>6, <3>1
    <3> QED BY <3>2, <3>3
  <2> QED BY <2>1, <2>2
<1>8. c = ab
  <2>1. c = [n \in 1 .. (M + N) |-> c[n]]
    BY <1>3, <1>5
  <2>2. ab = [n \in 1 .. (M + N) |-> ab[n]]
    BY <1>6
  <2>3. [n \in 1 .. (M + N) |-> c[n]] = [n \in 1 .. (M + N) |-> ab[n]]
    BY <1>7
  <2> QED BY <2>1, <2>2, <2>3
<1>9. FlattenSeq(ab) = FlattenSeq(a) \o FlattenSeq(b)
  <2>1. a \in Seq(Seq(Word)) /\ b \in Seq(Seq(Word))
    BY <1>3
  <2>2. FlattenSeq(a \o b) = FlattenSeq(a) \o FlattenSeq(b)
    BY <2>1, FlattenConcat, Zenon
  <2> QED BY <1>0, <2>2
<1> QED BY <1>3, <1>8, <1>9

\* sanitize.go, forward.go: of what the client says, every block arrives but
\* blank text and thinking, in its order, with its role, after the client's own
\* instructions.
THEOREM EveryWordArrives == Spec => []WordsArrive
<1>1. ASSUME SentInv, NEW g \in given
      PROVE  LET body == Request(g.conv, g.turn)
             IN  Words(g.body.messages) =
                   Words(Instructions(IF body.system \in {ClaudeCode, ClaudeCodeList, OtherList} THEN NoSystem
                                      ELSE body.system) \o body.messages)
  <2>1. PICK c \in Conversation : c = g.conv
    BY <1>1 DEF SentInv
  <2>2. PICK n \in Turns(c) : n = g.turn
    BY <1>1, <2>1 DEF SentInv
  <2>3. PICK body : body = Request(c, n)
    OBVIOUS
  <2>4. /\ body.system = Client[c].system /\ body.system \in STRING
        /\ body.messages = SubSeq(Says[c], 1, 2 * n - 1) /\ body.messages \in Seq(Message)
    BY <2>3, ClientRequest
  <2>5. g.body.messages = Rewritten(c, n).messages
    <3>1. g.body = Dressed(Rewritten(c, n), g.body.user_id)
      BY <1>1, <2>1, <2>2 DEF SentInv
    <3> QED BY <3>1, DressedMessages
  <2>6. Rewritten(c, n).messages = Foreword(body.system) \o Sanitized(body.messages)
    BY <2>4, RewrittenBody
  <2>7. Foreword(body.system) =
          Instructions(IF body.system \in {ClaudeCode, ClaudeCodeList, OtherList} THEN NoSystem ELSE body.system)
    BY DEF Foreword, NeedsRewrite, Instructions
  <2>8. PICK front \in Seq(Message) : front = Foreword(body.system)
    BY <2>4, ForewordMessages
  <2>9. PICK said \in Seq(Message) : said = body.messages
    BY <2>4
  <2>10. Words(front \o Sanitized(said)) = Words(front \o said)
    <3>1. Sanitized(said) \in Seq(Message)
      BY <2>9, SanitizedMessages
    <3>2. Words(front \o Sanitized(said)) = Words(front) \o Words(Sanitized(said))
      BY <2>8, <3>1, WordsConcat
    <3>3. Words(front \o said) = Words(front) \o Words(said)
      BY <2>8, <2>9, WordsConcat
    <3>4. Words(Sanitized(said)) = Words(said)
      BY <2>9, WordsSanitized
    <3> QED BY <3>2, <3>3, <3>4
  <2> QED BY <2>1, <2>2, <2>3, <2>5, <2>6, <2>7, <2>8, <2>9, <2>10
<1>2. SentInv => WordsArrive
  BY <1>1 DEF WordsArrive
<1> QED BY <1>2, SentAlways, PTL
=============================================================================
