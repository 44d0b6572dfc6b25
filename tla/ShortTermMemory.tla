-------------------------- MODULE ShortTermMemory --------------------------
(***************************************************************************)
(* The token-budgeted message buffer of                                    *)
(* runtime/src/memory/short_term.rs.                                       *)
(*                                                                         *)
(* A message is its kind and its token count; nothing in the buffer looks  *)
(* at the text.  The buffer is the code's struct: the deque and the token  *)
(* count the code keeps beside it.                                         *)
(***************************************************************************)
EXTENDS Naturals, Sequences

CONSTANTS
    Messages,           \* messages callers construct: [kind, tokens] records
    MaxTokens           \* max_tokens

\* ShortTermMemory::new panics on 0.  Message::new asserts a positive token
\* count in debug builds only.
ASSUME BudgetAssumption == MaxTokens \in Nat \ {0}
ASSUME MessagesAssumption == \A m \in Messages : m.tokens \in Nat

VARIABLE stm            \* [messages, token_count]

Empty == [messages |-> <<>>, token_count |-> 0]

SaturatingSub(a, b) == IF a >= b THEN a - b ELSE 0

\* token_count after the k oldest messages have been popped, one by one.
CountAfter(b, k) ==
    LET count[i \in 0..Len(b.messages)] ==
            IF i = 0 THEN b.token_count
            ELSE SaturatingSub(count[i - 1], b.messages[i].tokens)
    IN  count[k]

\* Mutant: a full budget counts as exceeded.
StopsBelow(b, tokens, k) ==
    k = Len(b.messages) \/ CountAfter(b, k) + tokens < MaxTokens

\* The eviction loop stops when the buffer is empty or the message fits.
StopsAt(b, tokens, k) ==
    k = Len(b.messages) \/ CountAfter(b, k) + tokens <= MaxTokens

Evictions(b, tokens) ==
    CHOOSE k \in 0..Len(b.messages) :
        /\ StopsAt(b, tokens, k)
        /\ \A j \in 0..(k - 1) : ~StopsAt(b, tokens, j)

Pushed(b, msg) ==
    LET k == Evictions(b, msg.tokens)
        kept == SubSeq(b.messages, k + 1, Len(b.messages))
    IN  [messages    |-> Append(kept, msg),
         token_count |-> CountAfter(b, k) + msg.tokens]

\* token_count >= 0.8 * max_tokens, without the fraction.
NeedsSummarization(b) == 5 * b.token_count >= 4 * MaxTokens

\* Mutant: the count is not reset with the messages.
SummarizedOnTop(summary) ==
    [messages |-> <<summary>>, token_count |-> stm.token_count + summary.tokens]

Summarized(summary) ==
    [messages |-> <<summary>>, token_count |-> summary.tokens]

-----------------------------------------------------------------------------

MemoryInit == stm = Empty

Push(msg) == stm' = Pushed(stm, msg)

ReplaceWithSummary(summary) == stm' = Summarized(summary)

ClearMemory == stm' = Empty

MemoryNext ==
    \/ \E m \in Messages : Push(m) \/ ReplaceWithSummary(m)
    \/ ClearMemory

MemorySpec == MemoryInit /\ [][MemoryNext]_stm

-----------------------------------------------------------------------------

\* The tokens of messages i..j.
TokensOf(messages, i, j) ==
    LET sum[k \in (i - 1)..j] ==
            IF k = i - 1 THEN 0 ELSE sum[k - 1] + messages[k].tokens
    IN  IF i > j THEN 0 ELSE sum[j]

\* The count kept beside the deque is the sum over the deque: it never drifts
\* through evictions and summaries, and the saturating subtraction never bites.
CountIsSum ==
    stm.token_count = TokensOf(stm.messages, 1, Len(stm.messages))

\* The budget is exceeded only by a single message that is larger than the
\* budget on its own.
BudgetExceededOnlyByOneMessage ==
    stm.token_count > MaxTokens => Len(stm.messages) = 1

\* Type and representation invariant of the buffer.
MemoryTypeOK ==
    /\ stm.messages \in Seq(Messages)
    /\ stm.token_count \in Nat
    /\ CountIsSum
    /\ BudgetExceededOnlyByOneMessage

\* Reference definition of push: the new message after the longest suffix of
\* the old messages that fits with it, or after nothing if none fits.
LongestFittingSuffix(messages, tokens) ==
    LET n == Len(messages)
        fits == {s \in 1..(n + 1) :
                    TokensOf(messages, s, n) + tokens <= MaxTokens}
        start == IF fits = {} THEN n + 1
                 ELSE CHOOSE s \in fits : \A t \in fits : s <= t
    IN  SubSeq(messages, start, n)

\* A push evicts no more than it has to and never reorders: what is kept is
\* the longest suffix that fits beside the new message.
PushKeepsLongestSuffix ==
    \A m \in Messages :
        Pushed(stm, m).messages =
            Append(LongestFittingSuffix(stm.messages, m.tokens), m)
=============================================================================
