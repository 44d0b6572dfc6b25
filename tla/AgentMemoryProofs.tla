------------------------- MODULE AgentMemoryProofs --------------------------
(***************************************************************************)
(* Proofs about LoopDetector and ShortTermMemory, for every capacity of    *)
(* the window and every token budget.                                      *)
(*                                                                         *)
(* The sums over messages are recursive functions, and what they compute   *)
(* is proved by the least number at which it would fail.                   *)
(***************************************************************************)
EXTENDS LoopDetector, ShortTermMemory, FiniteSetTheorems, SequenceTheorems,
        WellFoundedInduction, TLAPS

\* Every set of natural numbers that is not empty has a least element.
LEMMA LeastNumber ==
    ASSUME NEW T, T \subseteq Nat, T # {}
    PROVE  \E m \in T : \A n \in T : m <= n
<1> DEFINE R == OpToRel(<, Nat)
<1>1. IsWellFoundedOn(R, Nat)
  BY NatLessThanWellFounded
<1>2. \A x, y \in Nat : <<x, y>> \in R <=> x < y
  BY DEF OpToRel
<1> HIDE DEF R
<1>3. PICK m \in T : \A n \in T : ~(<<n, m>> \in R)
  BY <1>1, WFMin
<1>4. ASSUME NEW n \in T PROVE m <= n
  <2>1. n \in Nat /\ m \in Nat
    OBVIOUS
  <2>2. ~(n < m)
    BY <1>2, <1>3, <2>1
  <2> QED
    BY <2>1, <2>2
<1> QED
  BY <1>4

\* r starts with v and follows the steps up to n.
Recurs(r, n, v, step) == r[0] = v /\ \A i \in 1..n : r[i] = step[i][r[i - 1]]

\* A recursion over the numbers 0..n whose steps are functions has a solution.
LEMMA RecursionExists ==
    ASSUME NEW S, NEW n \in Nat, NEW v \in S, NEW step \in [1..n -> [S -> S]]
    PROVE  \E r \in [0..n -> S] : Recurs(r, n, v, step)
<1> USE DEF Recurs
<1> DEFINE Solves(r, k) == Recurs(r, k, v, step)
           T == {k \in 0..n : ~\E r \in [0..k -> S] : Solves(r, k)}
<1>1. SUFFICES ASSUME T # {} PROVE FALSE
  <2>1. n \notin T
    BY <1>1
  <2> QED
    BY <2>1
<1>2. PICK m \in T : \A k \in T : m <= k
  <2>1. T \subseteq Nat
    OBVIOUS
  <2> HIDE DEF T
  <2> QED
    BY <1>1, <2>1, LeastNumber
<1>3. CASE m = 0
  <2> DEFINE r == [i \in 0..0 |-> v]
  <2>1. r \in [0..0 -> S] /\ Solves(r, 0)
    OBVIOUS
  <2> QED
    BY <1>2, <1>3, <2>1
<1>4. CASE m # 0
  <2>1. m \in 1..n /\ m - 1 \in 0..n /\ m - 1 \notin T
    BY <1>2, <1>4
  <2>2. PICK r \in [0..(m - 1) -> S] : Solves(r, m - 1)
    BY <2>1
  <2> DEFINE last == step[m][r[m - 1]]
             q == [i \in 0..m |-> IF i < m THEN r[i] ELSE last]
  <2>3. last \in S
    BY <2>1
  <2>4. q \in [0..m -> S]
    BY <2>1, <2>3
  <2>5. q[0] = v
    BY <2>1, <2>2
  <2>6. ASSUME NEW i \in 1..m PROVE q[i] = step[i][q[i - 1]]
    <3>1. CASE i < m
      BY <2>1, <2>2, <3>1
    <3>2. CASE i = m
      BY <2>1, <3>2
    <3> QED
      BY <2>1, <3>1, <3>2
  <2>7. Solves(q, m)
    BY <2>5, <2>6
  <2> QED
    BY <1>2, <2>4, <2>7
<1> QED
  BY <1>3, <1>4

-----------------------------------------------------------------------------

(***************************************************************************)
(* Sums over the messages.                                                 *)
(***************************************************************************)

\* p[i] is the sum over the first i messages.
IsPrefixSum(p, ms) ==
    /\ p \in [0..Len(ms) -> Nat]
    /\ p[0] = 0
    /\ \A i \in 1..Len(ms) : p[i] = p[i - 1] + ms[i].tokens

\* Every sequence of messages has the sums of its prefixes.
LEMMA PrefixSumExists ==
    ASSUME NEW ms \in Seq(Messages)
    PROVE  \E p : IsPrefixSum(p, ms)
<1> DEFINE n == Len(ms)
           step == [i \in 1..n |-> [x \in Nat |-> x + ms[i].tokens]]
<1>1. \A i \in 1..n : ms[i].tokens \in Nat
  BY MessagesAssumption
<1>2. step \in [1..n -> [Nat -> Nat]] /\ n \in Nat
  BY <1>1
<1>3. \A i \in 1..n, x \in Nat : step[i][x] = x + ms[i].tokens
  OBVIOUS
<1> HIDE DEF step, n
<1>4. PICK p : p \in [0..n -> Nat] /\ Recurs(p, n, 0, step)
  <2>1. 0 \in Nat
    OBVIOUS
  <2> QED
    BY <1>2, <2>1, RecursionExists
<1>5. ASSUME NEW i \in 1..n PROVE p[i] = p[i - 1] + ms[i].tokens
  <2>1. i \in 1..n /\ i - 1 \in 0..n /\ p[i - 1] \in Nat
    BY <1>2, <1>4
  <2> QED
    BY <1>3, <1>4, <2>1 DEF Recurs
<1> QED
  BY <1>4, <1>5 DEF IsPrefixSum, Recurs, n

\* Prefix sums do not decrease.
LEMMA PrefixSumGrows ==
    ASSUME NEW ms \in Seq(Messages), NEW p, IsPrefixSum(p, ms),
           NEW i \in 0..Len(ms), NEW j \in i..Len(ms)
    PROVE  p[i] <= p[j]
<1> DEFINE n == Len(ms)
           T == {k \in i..n : ~(p[i] <= p[k])}
<1>1. SUFFICES ASSUME T # {} PROVE FALSE
  <2>1. j \notin T
    BY <1>1
  <2> QED
    BY <2>1
<1>2. PICK m \in T : \A k \in T : m <= k
  <2>1. T \subseteq Nat
    OBVIOUS
  <2> HIDE DEF T
  <2> QED
    BY <1>1, <2>1, LeastNumber
<1>3. m # i
  BY <1>2 DEF IsPrefixSum
<1>4. m \in 1..n /\ m - 1 \in i..n /\ m - 1 \notin T
  BY <1>2, <1>3
<1>5. p[m] = p[m - 1] + ms[m].tokens /\ ms[m].tokens \in Nat
  BY <1>4, MessagesAssumption DEF IsPrefixSum
<1>6. p[i] \in Nat /\ p[m - 1] \in Nat
  <2>1. i \in 0..n /\ m - 1 \in 0..n
    BY <1>4
  <2> QED
    BY <2>1 DEF IsPrefixSum
<1>7. p[i] <= p[m - 1] /\ ~(p[i] <= p[m])
  BY <1>2, <1>4
<1> HIDE DEF T
<1> QED
  BY <1>5, <1>6, <1>7

\* What the recursion of TokensOf computes.
LEMMA TokensFromPrefix ==
    ASSUME NEW ms \in Seq(Messages), NEW p, IsPrefixSum(p, ms),
           NEW i \in 1..(Len(ms) + 1), NEW j \in (i - 1)..Len(ms)
    PROVE  TokensOf(ms, i, j) = p[j] - p[i - 1]
<1> DEFINE Solves(s) == s = [k \in (i - 1)..j |->
                               IF k = i - 1 THEN 0 ELSE s[k - 1] + ms[k].tokens]
           sum == CHOOSE s : Solves(s)
           T == {k \in (i - 1)..j : sum[k] # p[k] - p[i - 1]}
<1>0. \A k \in 1..Len(ms) : p[k] = p[k - 1] + ms[k].tokens
                            /\ ms[k].tokens \in Nat /\ p[k - 1] \in Nat
  BY MessagesAssumption DEF IsPrefixSum
<1>1. Solves(sum)
  <2> DEFINE s == [k \in (i - 1)..j |-> p[k] - p[i - 1]]
  <2>1. ASSUME NEW k \in (i - 1)..j
        PROVE  s[k] = IF k = i - 1 THEN 0 ELSE s[k - 1] + ms[k].tokens
    <3>1. p[i - 1] \in Nat
      BY DEF IsPrefixSum
    <3>2. CASE k = i - 1
      BY <3>1, <3>2
    <3>3. CASE k # i - 1
      <4>1. k \in 1..Len(ms) /\ k - 1 \in (i - 1)..j
        BY <3>3
      <4>2. s[k] = p[k] - p[i - 1] /\ s[k - 1] = p[k - 1] - p[i - 1]
        BY <4>1
      <4>3. /\ p[k] = p[k - 1] + ms[k].tokens
            /\ ms[k].tokens \in Nat /\ p[k - 1] \in Nat
        BY <1>0, <4>1
      <4> HIDE DEF s
      <4> QED
        BY <3>1, <3>3, <4>2, <4>3
    <3> QED
      BY <3>2, <3>3
  <2>2. Solves(s)
    BY <2>1
  <2> HIDE DEF Solves, s
  <2> QED
    BY <2>2
<1>2. TokensOf(ms, i, j) = IF i > j THEN 0 ELSE sum[j]
  BY DEF TokensOf
<1> HIDE DEF sum
<1>3. T = {}
  <2> SUFFICES ASSUME T # {} PROVE FALSE
    OBVIOUS
  <2>1. PICK m \in T : \A k \in T : m <= k
    <3>1. T \subseteq Nat
      OBVIOUS
    <3> HIDE DEF T
    <3> QED
      BY <3>1, LeastNumber
  <2>2. m # i - 1
    <3>1. p[i - 1] \in Nat
      BY DEF IsPrefixSum
    <3>2. i - 1 \in (i - 1)..j
      OBVIOUS
    <3>3. sum[i - 1] = 0
      BY <1>1, <3>2
    <3>4. i - 1 \notin T
      BY <3>1, <3>3
    <3> QED
      BY <2>1, <3>4
  <2>3. m \in 1..Len(ms) /\ m - 1 \in (i - 1)..j /\ m - 1 \notin T
    BY <2>1, <2>2
  <2>4. sum[m] = sum[m - 1] + ms[m].tokens
    BY <1>1, <2>1, <2>2
  <2>5. p[i - 1] \in Nat
    BY DEF IsPrefixSum
  <2>6. sum[m - 1] = p[m - 1] - p[i - 1] /\ sum[m] # p[m] - p[i - 1]
    BY <2>1, <2>3
  <2> HIDE DEF T
  <2> QED
    BY <1>0, <2>3, <2>4, <2>5, <2>6
<1>4. sum[j] = p[j] - p[i - 1]
  BY <1>3
<1> QED
  BY <1>2, <1>4 DEF IsPrefixSum

\* What the recursion of CountAfter computes while the count of the buffer is
\* the sum of its messages: no subtraction saturates.
LEMMA CountFromPrefix ==
    ASSUME NEW b, b.messages \in Seq(Messages),
           NEW p, IsPrefixSum(p, b.messages),
           b.token_count = p[Len(b.messages)],
           NEW k \in 0..Len(b.messages)
    PROVE  CountAfter(b, k) = p[Len(b.messages)] - p[k]
<1> DEFINE n == Len(b.messages)
           total == p[n]
           Solves(c) == c = [i \in 0..n |->
                               IF i = 0 THEN b.token_count
                               ELSE SaturatingSub(c[i - 1], b.messages[i].tokens)]
           count == CHOOSE c : Solves(c)
           T == {i \in 0..n : count[i] # total - p[i]}
<1>0. /\ \A i \in 1..n : p[i] = p[i - 1] + b.messages[i].tokens
                         /\ b.messages[i].tokens \in Nat /\ p[i - 1] \in Nat
      /\ n \in Nat /\ total \in Nat /\ p[0] = 0
  BY MessagesAssumption DEF IsPrefixSum
<1>1. \A i \in 1..n : p[i] <= total
  BY PrefixSumGrows
<1>2. \A i \in 1..n : total - p[i] =
          SaturatingSub(total - p[i - 1], b.messages[i].tokens)
  BY <1>0, <1>1 DEF SaturatingSub
<1>3. Solves(count)
  <2> DEFINE c == [i \in 0..n |-> total - p[i]]
  <2>1. ASSUME NEW i \in 0..n
        PROVE  c[i] = IF i = 0 THEN b.token_count
                      ELSE SaturatingSub(c[i - 1], b.messages[i].tokens)
    BY <1>0, <1>2
  <2>2. Solves(c)
    BY <2>1
  <2> HIDE DEF Solves, c
  <2> QED
    BY <2>2
<1>4. CountAfter(b, k) = count[k]
  BY DEF CountAfter
<1> HIDE DEF count
<1>5. T = {}
  <2> SUFFICES ASSUME T # {} PROVE FALSE
    OBVIOUS
  <2>1. PICK m \in T : \A i \in T : m <= i
    <3>1. T \subseteq Nat
      OBVIOUS
    <3> HIDE DEF T
    <3> QED
      BY <3>1, LeastNumber
  <2>2. m # 0
    BY <1>0, <1>3, <2>1
  <2>3. m \in 1..n /\ m - 1 \in 0..n /\ m - 1 \notin T
    BY <2>1, <2>2
  <2>4. count[m] = SaturatingSub(count[m - 1], b.messages[m].tokens)
    BY <1>3, <2>1, <2>2
  <2> QED
    BY <1>2, <2>1, <2>3, <2>4
<1> QED
  BY <1>4, <1>5

-----------------------------------------------------------------------------

(***************************************************************************)
(* The buffer.                                                             *)
(***************************************************************************)

\* A buffer whose count is the sum of its messages.
Sound(b, p) ==
    /\ b.messages \in Seq(Messages)
    /\ IsPrefixSum(p, b.messages)
    /\ b.token_count = p[Len(b.messages)]

\* The tokens of the messages that are left after the k oldest.
Left(b, p, k) == p[Len(b.messages)] - p[k]

\* The eviction loop stops at the first number of messages at which it may.
LEMMA EvictionsLeast ==
    ASSUME NEW b, NEW p, Sound(b, p), NEW tokens \in Nat
    PROVE  /\ Evictions(b, tokens) \in 0..Len(b.messages)
           /\ StopsAt(b, tokens, Evictions(b, tokens))
           /\ \A j \in 0..(Evictions(b, tokens) - 1) : ~StopsAt(b, tokens, j)
<1> DEFINE n == Len(b.messages)
           T == {k \in 0..n : StopsAt(b, tokens, k)}
<1>1. n \in Nat
  BY DEF Sound
<1>2. n \in T
  BY <1>1 DEF StopsAt
<1>3. PICK m \in T : \A k \in T : m <= k
  <2>1. T \subseteq Nat /\ T # {}
    BY <1>2
  <2> HIDE DEF T
  <2> QED
    BY <2>1, LeastNumber
<1>4. /\ m \in 0..n /\ StopsAt(b, tokens, m)
      /\ \A j \in 0..(m - 1) : ~StopsAt(b, tokens, j)
  BY <1>1, <1>3
<1> QED
  BY <1>4 DEF Evictions

\* Whether the loop stops, in terms of the sums.
LEMMA StopsAtSum ==
    ASSUME NEW b, NEW p, Sound(b, p), NEW tokens \in Nat,
           NEW k \in 0..Len(b.messages)
    PROVE  StopsAt(b, tokens, k) <=>
              k = Len(b.messages) \/ Left(b, p, k) + tokens <= MaxTokens
  BY CountFromPrefix DEF Sound, StopsAt, Left

\* The buffer q after k of the n messages of b were evicted and msg was pushed.
PushShape(b, p, msg, k, n, q) ==
    /\ n = Len(b.messages) /\ n \in Nat /\ k \in 0..n
    /\ q.messages \in Seq(Messages)
    /\ Len(q.messages) = n - k + 1
    /\ \A i \in 1..(n - k) : q.messages[i] = b.messages[k + i]
    /\ q.messages[n - k + 1] = msg
    /\ q.token_count = Left(b, p, k) + msg.tokens

\* What push leaves: the messages behind the evicted ones, in their order, then
\* the new one, with the tokens of both as the count.
LEMMA PushedShape ==
    ASSUME NEW b, NEW p, Sound(b, p), NEW msg \in Messages
    PROVE  PushShape(b, p, msg, Evictions(b, msg.tokens), Len(b.messages),
                     Pushed(b, msg))
<1> DEFINE k == Evictions(b, msg.tokens)
           n == Len(b.messages)
           kept == SubSeq(b.messages, k + 1, n)
<1>1. msg.tokens \in Nat
  BY MessagesAssumption
<1>2. k \in 0..n /\ n \in Nat
  <2>1. n \in Nat
    BY DEF Sound
  <2> QED
    BY <1>1, <2>1, EvictionsLeast
<1>3. CountAfter(b, k) = Left(b, p, k)
  BY <1>2, CountFromPrefix DEF Sound, Left
<1>4. /\ Pushed(b, msg).messages = Append(kept, msg)
      /\ Pushed(b, msg).token_count = CountAfter(b, k) + msg.tokens
  BY DEF Pushed
<1> HIDE DEF k
<1>5. /\ kept \in Seq(Messages) /\ Len(kept) = n - k
      /\ \A i \in 1..(n - k) : kept[i] = b.messages[k + i]
  <2>1. \A i \in (k + 1)..n : b.messages[i] \in Messages
    BY <1>2 DEF Sound
  <2> QED
    BY <1>2, <2>1, SubSeqProperties
<1> HIDE DEF kept
<1>6. /\ Append(kept, msg) \in Seq(Messages)
      /\ Len(Append(kept, msg)) = n - k + 1
      /\ \A i \in 1..(n - k) : Append(kept, msg)[i] = kept[i]
      /\ Append(kept, msg)[n - k + 1] = msg
  <2>1. /\ Append(kept, msg) \in Seq(Messages)
        /\ Len(Append(kept, msg)) = Len(kept) + 1
        /\ \A i \in 1..Len(kept) : Append(kept, msg)[i] = kept[i]
        /\ Append(kept, msg)[Len(kept) + 1] = msg
    BY <1>5, AppendProperties
  <2> QED
    BY <1>5, <2>1
<1>7. PushShape(b, p, msg, k, n, Pushed(b, msg))
  BY <1>2, <1>3, <1>4, <1>5, <1>6 DEF PushShape
<1> QED
  BY <1>7 DEF k

\* The tokens that are left are a natural number.
LEMMA LeftTyped ==
    ASSUME NEW b, NEW p, Sound(b, p),
           NEW k \in 0..Len(b.messages), NEW j \in k..Len(b.messages)
    PROVE  /\ p[k] \in Nat /\ p[j] \in Nat /\ p[j] - p[k] \in Nat
           /\ Left(b, p, k) \in Nat
<1>1. Len(b.messages) \in Nat /\ j \in 0..Len(b.messages)
      /\ Len(b.messages) \in k..Len(b.messages)
      /\ Len(b.messages) \in 0..Len(b.messages)
  BY DEF Sound
<1>2. p[k] \in Nat /\ p[j] \in Nat /\ p[Len(b.messages)] \in Nat
  BY <1>1 DEF Sound, IsPrefixSum
<1>3. p[k] <= p[j] /\ p[k] <= p[Len(b.messages)]
  BY <1>1, PrefixSumGrows DEF Sound
<1> QED
  BY <1>2, <1>3 DEF Left

\* What is left after the evictions, and the new message, sum up to the count.
LEMMA ShapeSound ==
    ASSUME NEW b, NEW p, Sound(b, p), NEW msg \in Messages,
           NEW k, NEW n, NEW q, PushShape(b, p, msg, k, n, q)
    PROVE  \E s : Sound(q, s)
<1> DEFINE s == [i \in 0..(n - k + 1) |->
                   IF i <= n - k THEN p[k + i] - p[k]
                   ELSE Left(b, p, k) + msg.tokens]
<1>1. n \in Nat /\ k \in 0..n /\ n = Len(b.messages) /\ k \in Nat
  BY DEF PushShape
<1>0. Len(q.messages) = n - k + 1
  BY DEF PushShape
<1>2. msg.tokens \in Nat
  BY MessagesAssumption
<1>3. \A i \in 0..(n - k) : p[k + i] - p[k] \in Nat
  BY <1>1, LeftTyped
<1>4. Left(b, p, k) = p[k + (n - k)] - p[k] /\ Left(b, p, k) \in Nat
  <2>1. k + (n - k) = n /\ n \in k..n
    BY <1>1
  <2> QED
    BY <1>1, <2>1, LeftTyped DEF Left
<1>5. \A i \in 0..(n - k) : s[i] = p[k + i] - p[k]
  BY <1>1
<1>6. s[n - k + 1] = Left(b, p, k) + msg.tokens
  BY <1>1
<1>7. s \in [0..Len(q.messages) -> Nat]
  <2>1. ASSUME NEW i \in 0..(n - k + 1)
        PROVE  (IF i <= n - k THEN p[k + i] - p[k]
                ELSE Left(b, p, k) + msg.tokens) \in Nat
    <3>1. CASE i <= n - k
      <4>1. i \in 0..(n - k)
        BY <1>1, <3>1
      <4> QED
        BY <1>3, <3>1, <4>1
    <3>2. CASE ~(i <= n - k)
      BY <1>2, <1>4, <3>2
    <3> QED
      BY <3>1, <3>2
  <2> QED
    BY <1>0, <2>1
<1> HIDE DEF s
<1>8. s[0] = 0
  <2>1. p[k + 0] = p[k] /\ p[k] \in Nat /\ 0 \in 0..(n - k)
    BY <1>1, LeftTyped
  <2> QED
    BY <1>5, <2>1
<1>9. ASSUME NEW i \in 1..(n - k) PROVE s[i] = s[i - 1] + q.messages[i].tokens
  <2>1. k + i \in 1..n /\ (k + i) - 1 = k + (i - 1) /\ k + (i - 1) \in 0..n
        /\ i - 1 \in 0..(n - k) /\ i \in 0..(n - k)
    BY <1>1
  <2>2. p[k + i] = p[k + (i - 1)] + b.messages[k + i].tokens
    BY <1>1, <2>1 DEF Sound, IsPrefixSum
  <2>3. b.messages[k + i].tokens \in Nat
    <3>1. b.messages[k + i] \in Messages
      BY <1>1, <2>1 DEF Sound
    <3> QED
      BY <3>1, MessagesAssumption
  <2>6. p[k + (i - 1)] \in Nat /\ p[k] \in Nat
    BY <1>1, <2>1 DEF Sound, IsPrefixSum
  <2>4. s[i] = p[k + i] - p[k] /\ s[i - 1] = p[k + (i - 1)] - p[k]
    BY <1>5, <2>1
  <2>5. q.messages[i].tokens = b.messages[k + i].tokens
    BY DEF PushShape
  <2> QED
    BY <2>2, <2>3, <2>4, <2>5, <2>6
<1>10. s[n - k + 1] = s[n - k] + q.messages[n - k + 1].tokens
  <2>1. n - k \in 0..(n - k)
    BY <1>1
  <2>2. q.messages[n - k + 1].tokens = msg.tokens
    BY DEF PushShape
  <2> QED
    BY <1>4, <1>5, <1>6, <2>1, <2>2
<1>11. ASSUME NEW i \in 1..Len(q.messages)
       PROVE  s[i] = s[i - 1] + q.messages[i].tokens
  <2>1. i \in 1..(n - k) \/ (i = n - k + 1 /\ i - 1 = n - k)
    BY <1>0, <1>1
  <2> QED
    BY <1>9, <1>10, <2>1
<1>12. IsPrefixSum(s, q.messages)
  BY <1>7, <1>8, <1>11 DEF IsPrefixSum
<1> QED
  BY <1>0, <1>6, <1>12 DEF Sound, PushShape

\* A push leaves a buffer whose count is the sum of its messages, and which is
\* beyond the budget only with the new message alone.
LEMMA PushedSound ==
    ASSUME NEW b, NEW p, Sound(b, p), NEW msg \in Messages
    PROVE  /\ \E q : Sound(Pushed(b, msg), q)
           /\ Pushed(b, msg).token_count > MaxTokens
                 => Len(Pushed(b, msg).messages) = 1
<1> DEFINE k == Evictions(b, msg.tokens)
           n == Len(b.messages)
           q == Pushed(b, msg)
<1>1. PushShape(b, p, msg, k, n, q)
  BY PushedShape
<1>2. msg.tokens \in Nat
  BY MessagesAssumption
<1>3. StopsAt(b, msg.tokens, k)
  BY <1>2, EvictionsLeast
<1> HIDE DEF k, q
<1>4. k \in 0..n /\ n \in Nat /\ Left(b, p, k) \in Nat
      /\ Len(q.messages) = n - k + 1
      /\ q.token_count = Left(b, p, k) + msg.tokens
  <2>1. k \in 0..n /\ n \in Nat /\ n \in k..n
        /\ Len(q.messages) = n - k + 1
        /\ q.token_count = Left(b, p, k) + msg.tokens
    BY <1>1 DEF PushShape
  <2> QED
    BY <2>1, LeftTyped
<1>5. ASSUME q.token_count > MaxTokens PROVE Len(q.messages) = 1
  <2>1. ~(Left(b, p, k) + msg.tokens <= MaxTokens)
    BY <1>2, <1>4, <1>5, BudgetAssumption
  <2>2. k = n
    BY <1>2, <1>3, <1>4, <2>1, StopsAtSum
  <2> QED
    BY <1>4, <2>2
<1>6. \E s : Sound(q, s)
  BY <1>1, ShapeSound
<1> QED
  BY <1>5, <1>6 DEF q

\* The count is the sum of the messages exactly when they have prefix sums
\* that end in it.
LEMMA SoundIsSum ==
    stm.messages \in Seq(Messages)
        => (CountIsSum <=> \E p : Sound(stm, p))
<1> SUFFICES ASSUME stm.messages \in Seq(Messages)
             PROVE  CountIsSum <=> \E p : Sound(stm, p)
  OBVIOUS
<1>1. \A p : IsPrefixSum(p, stm.messages)
                => TokensOf(stm.messages, 1, Len(stm.messages))
                     = p[Len(stm.messages)]
  <2> SUFFICES ASSUME NEW p, IsPrefixSum(p, stm.messages)
               PROVE  TokensOf(stm.messages, 1, Len(stm.messages))
                        = p[Len(stm.messages)]
    OBVIOUS
  <2> DEFINE n == Len(stm.messages)
  <2>1. n \in (1 - 1)..n /\ 1 \in 1..(n + 1) /\ n \in 0..n
    OBVIOUS
  <2>2. TokensOf(stm.messages, 1, n) = p[n] - p[1 - 1]
    BY <2>1, TokensFromPrefix
  <2> QED
    BY <2>1, <2>2 DEF IsPrefixSum
<1> QED
  BY <1>1, PrefixSumExists DEF Sound, CountIsSum

\* A summary replaces the messages and their count together.
LEMMA SummarizedSound ==
    ASSUME NEW summary \in Messages
    PROVE  /\ \E q : Sound(Summarized(summary), q)
           /\ Len(Summarized(summary).messages) = 1
<1> DEFINE q == [i \in 0..1 |-> IF i = 0 THEN 0 ELSE summary.tokens]
           ms == <<summary>>
<1>1. ms \in Seq(Messages) /\ Len(ms) = 1 /\ ms[1] = summary
  OBVIOUS
<1>2. summary.tokens \in Nat
  BY MessagesAssumption
<1>3. IsPrefixSum(q, ms)
  BY <1>1, <1>2 DEF IsPrefixSum
<1>4. Sound(Summarized(summary), q)
  BY <1>1, <1>3 DEF Sound, Summarized
<1> QED
  BY <1>1, <1>4 DEF Summarized

\* The buffer of ShortTermMemory::new and of clear is sound.
LEMMA EmptySound == \E q : Sound(Empty, q)
<1> DEFINE q == [i \in 0..0 |-> 0]
<1>1. IsPrefixSum(q, <<>>)
  BY DEF IsPrefixSum
<1>2. <<>> \in Seq(Messages)
  OBVIOUS
<1> QED
  BY <1>1, <1>2 DEF Sound, Empty

\* What MemoryTypeOK says of a state that is given by its buffer.
SoundInBudget(b) ==
    /\ \E p : Sound(b, p)
    /\ b.token_count > MaxTokens => Len(b.messages) = 1

\* The count of a sound buffer is a number.
LEMMA SoundTyped ==
    ASSUME NEW b, NEW p, Sound(b, p)
    PROVE  b.token_count \in Nat
<1>1. Len(b.messages) \in 0..Len(b.messages)
  BY DEF Sound
<1> QED
  BY <1>1 DEF Sound, IsPrefixSum

\* The type invariant of the buffer, as a fact about its prefix sums.
LEMMA MemoryTypeIsSound == MemoryTypeOK <=> SoundInBudget(stm)
<1>1. ASSUME MemoryTypeOK PROVE SoundInBudget(stm)
  BY <1>1, SoundIsSum
     DEF MemoryTypeOK, SoundInBudget, BudgetExceededOnlyByOneMessage
<1>2. ASSUME SoundInBudget(stm) PROVE MemoryTypeOK
  <2>1. PICK p : Sound(stm, p)
    BY <1>2 DEF SoundInBudget
  <2>2. stm.messages \in Seq(Messages) /\ stm.token_count \in Nat
    BY <2>1, SoundTyped DEF Sound
  <2> QED
    BY <1>2, <2>1, <2>2, SoundIsSum
       DEF MemoryTypeOK, SoundInBudget, BudgetExceededOnlyByOneMessage
<1> QED
  BY <1>1, <1>2

\* Every operation leaves a sound buffer within the budget.
LEMMA MemoryStep ==
    SoundInBudget(stm) /\ [MemoryNext]_stm => SoundInBudget(stm')
<1> SUFFICES ASSUME SoundInBudget(stm), [MemoryNext]_stm
             PROVE  SoundInBudget(stm')
  OBVIOUS
<1>1. ASSUME NEW m \in Messages, Push(m) PROVE SoundInBudget(stm')
  <2>1. PICK p : Sound(stm, p)
    BY DEF SoundInBudget
  <2> QED
    BY <1>1, <2>1, PushedSound DEF Push, SoundInBudget
<1>2. ASSUME NEW m \in Messages, ReplaceWithSummary(m) PROVE SoundInBudget(stm')
  BY <1>2, SummarizedSound DEF ReplaceWithSummary, SoundInBudget
<1>3. ASSUME ClearMemory PROVE SoundInBudget(stm')
  <2>1. Empty.token_count = 0
    BY DEF Empty
  <2> QED
    BY <1>3, <2>1, EmptySound, BudgetAssumption DEF ClearMemory, SoundInBudget
<1>4. CASE UNCHANGED stm
  BY <1>4
<1> QED
  BY <1>1, <1>2, <1>3, <1>4 DEF MemoryNext

\* The buffer and its count agree, and only one message alone is beyond the
\* budget, for every budget and all messages: the saturating subtraction never
\* hides a drift of the count.
THEOREM MemoryTypesHold == MemorySpec => []MemoryTypeOK
<1>1. MemoryInit => SoundInBudget(stm)
  <2>1. Empty.token_count = 0
    BY DEF Empty
  <2> QED
    BY <2>1, EmptySound, BudgetAssumption DEF MemoryInit, SoundInBudget
<1>2. SoundInBudget(stm) /\ [MemoryNext]_stm => SoundInBudget(stm)'
  BY MemoryStep
<1>3. MemorySpec => []SoundInBudget(stm)
  BY <1>1, <1>2, PTL DEF MemorySpec
<1> QED
  BY <1>3, MemoryTypeIsSound, PTL

\* The eviction loop, which pops one message at a time, keeps what the reference
\* definition keeps.
LEMMA PushedKeepsLongest ==
    ASSUME NEW b, NEW p, Sound(b, p), NEW msg \in Messages
    PROVE  Pushed(b, msg).messages =
              Append(LongestFittingSuffix(b.messages, msg.tokens), msg)
<1> DEFINE k == Evictions(b, msg.tokens)
           n == Len(b.messages)
           ms == b.messages
           fits == {s \in 1..(n + 1) :
                      TokensOf(ms, s, n) + msg.tokens <= MaxTokens}
           Least(s) == \A t \in fits : s <= t
           start == IF fits = {} THEN n + 1
                    ELSE CHOOSE s \in fits : Least(s)
<1>1. msg.tokens \in Nat /\ n \in Nat /\ MaxTokens \in Nat
  BY MessagesAssumption, BudgetAssumption DEF Sound
<1>2. /\ k \in 0..n
      /\ StopsAt(b, msg.tokens, k)
      /\ \A j \in 0..(k - 1) : ~StopsAt(b, msg.tokens, j)
  BY <1>1, EvictionsLeast
<1>3. \A j \in 0..n : j + 1 \in fits <=> Left(b, p, j) + msg.tokens <= MaxTokens
  <2> SUFFICES ASSUME NEW j \in 0..n
               PROVE  TokensOf(ms, j + 1, n) = Left(b, p, j)
    BY <1>1
  <2>1. j + 1 \in 1..(n + 1) /\ n \in ((j + 1) - 1)..n /\ (j + 1) - 1 = j
    BY <1>1
  <2> QED
    BY <2>1, TokensFromPrefix DEF Sound, Left
<1>4. \A j \in 0..n : StopsAt(b, msg.tokens, j) <=> j = n \/ j + 1 \in fits
  BY <1>1, <1>3, StopsAtSum
<1> HIDE DEF k
<1>5. fits \subseteq 1..(n + 1)
  OBVIOUS
<1> HIDE DEF fits
<1>6. start = k + 1
  <2>1. ASSUME fits = {} PROVE k = n
    BY <1>2, <1>4, <2>1
  <2>2. ASSUME fits # {} PROVE start = k + 1
    <3>1. PICK s \in fits : Least(s)
      <4>1. fits \subseteq Nat
        BY <1>1, <1>5
      <4> QED
        BY <2>2, <4>1, LeastNumber
    <3>2. s \in 1..(n + 1) /\ s - 1 \in 0..n /\ (s - 1) + 1 = s
      BY <1>1, <1>5, <3>1
    <3>3. StopsAt(b, msg.tokens, s - 1)
      BY <1>4, <3>1, <3>2
    <3>4. ~(s - 1 < k)
      BY <1>1, <1>2, <3>2, <3>3
    <3>5. ~(k < s - 1)
      <4>1. ASSUME k < s - 1 PROVE FALSE
        <5>1. k # n /\ k + 1 < s
          BY <1>1, <1>2, <3>2, <4>1
        <5>2. k + 1 \in fits
          BY <1>2, <1>4, <5>1
        <5> QED
          BY <1>1, <1>2, <1>5, <3>1, <3>2, <5>1, <5>2
      <4> QED
        BY <4>1
    <3>6. s = k + 1
      BY <1>1, <1>2, <3>2, <3>4, <3>5
    <3>7. \A t \in fits : Least(t) => t = s
      <4> SUFFICES ASSUME NEW t \in fits, Least(t) PROVE t = s
        OBVIOUS
      <4>1. s <= t /\ t <= s /\ s \in Int /\ t \in Int
        BY <1>1, <1>5, <3>1
      <4> QED
        BY <4>1
    <3> HIDE DEF Least
    <3>8. (CHOOSE t \in fits : Least(t)) = s
      BY <3>1, <3>7
    <3> QED
      BY <2>2, <3>6, <3>8
  <2> QED
    BY <2>1, <2>2
<1>7. LongestFittingSuffix(ms, msg.tokens) = SubSeq(ms, start, n)
  BY DEF LongestFittingSuffix, fits
<1>8. Pushed(b, msg).messages = Append(SubSeq(ms, k + 1, n), msg)
  BY DEF Pushed, k
<1> QED
  BY <1>6, <1>7, <1>8

\* A push keeps the longest suffix that fits beside the new message, for every
\* budget and all messages.
THEOREM PushKeepsLongestSuffixHolds == MemorySpec => []PushKeepsLongestSuffix
<1>1. MemoryTypeOK => PushKeepsLongestSuffix
  BY MemoryTypeIsSound, PushedKeepsLongest
     DEF SoundInBudget, PushKeepsLongestSuffix
<1> QED
  BY <1>1, MemoryTypesHold, PTL

-----------------------------------------------------------------------------

(***************************************************************************)
(* The window of the loop detector.                                        *)
(***************************************************************************)

\* The window has room for one call, window_size 0 included.
LEMMA CapacityPositive == Capacity \in Nat \ {0}
  BY WindowAssumption DEF Capacity

\* A recorded call is the last of the window, behind the calls that the window
\* keeps.
LEMMA RecordedShape ==
    ASSUME NEW w \in Seq(Calls), Len(w) <= Capacity, NEW call \in Calls
    PROVE  /\ Recorded(w, call) \in Seq(Calls)
           /\ Len(Recorded(w, call)) =
                 IF Len(w) < Capacity THEN Len(w) + 1 ELSE Capacity
           /\ \A i \in 1..(Len(Recorded(w, call)) - 1) :
                 Recorded(w, call)[i] =
                    w[i + (Len(w) + 1 - Len(Recorded(w, call)))]
           /\ Recorded(w, call)[Len(Recorded(w, call))] = call
<1> DEFINE full == Len(w) >= WindowSize /\ w # <<>>
           room == IF full THEN Tail(w) ELSE w
<1>1. Len(w) \in Nat /\ (w = <<>> <=> Len(w) = 0)
  BY EmptySeq
<1>2. full <=> Len(w) = Capacity
  <2>1. CASE WindowSize = 0
    <3>1. Capacity = 1 /\ Len(w) >= WindowSize
      BY <1>1, <2>1 DEF Capacity
    <3>2. full <=> Len(w) # 0
      BY <1>1, <3>1
    <3>3. Len(w) \in Nat /\ Len(w) <= 1
      BY <1>1, <3>1
    <3>4. \A x \in Nat : x <= 1 => x = 0 \/ x = 1
      OBVIOUS
    <3>5. Len(w) = 0 \/ Len(w) = 1
      BY <3>3, <3>4
    <3> HIDE DEF full
    <3> QED
      BY <3>1, <3>2, <3>5
  <2>2. CASE WindowSize # 0
    <3>1. Capacity = WindowSize
      BY <2>2 DEF Capacity
    <3>2. full <=> Len(w) >= WindowSize
      BY <1>1, <2>2, WindowAssumption
    <3> QED
      BY <1>1, <3>1, <3>2, WindowAssumption
  <2> QED
    BY <2>1, <2>2
<1>3. /\ room \in Seq(Calls)
      /\ Len(room) = IF full THEN Len(w) - 1 ELSE Len(w)
      /\ \A i \in 1..Len(room) :
            room[i] = IF full THEN w[i + 1] ELSE w[i]
  BY <1>1, HeadTailProperties
<1>4. Recorded(w, call) = Append(room, call)
  BY DEF Recorded
<1> HIDE DEF full, room
<1>5. /\ Append(room, call) \in Seq(Calls)
      /\ Len(Append(room, call)) = Len(room) + 1
      /\ \A i \in 1..Len(room) : Append(room, call)[i] = room[i]
      /\ Append(room, call)[Len(room) + 1] = call
  BY <1>3, AppendProperties
<1>6. CASE full
  <2>1. Len(room) + 1 = Capacity /\ ~(Len(w) < Capacity)
        /\ Len(room) + 1 - 1 = Len(room)
        /\ Len(w) + 1 - (Len(room) + 1) = 1
    BY <1>1, <1>2, <1>3, <1>6
  <2> QED
    BY <1>3, <1>4, <1>5, <1>6, <2>1
<1>7. CASE ~full
  <2>1. Len(room) = Len(w) /\ Len(w) < Capacity
        /\ Len(room) + 1 - 1 = Len(room)
        /\ Len(w) + 1 - (Len(room) + 1) = 0
    BY <1>1, <1>2, <1>3, <1>7, CapacityPositive
  <2>2. \A i \in 1..Len(room) : i + 0 = i
    OBVIOUS
  <2> QED
    BY <1>3, <1>4, <1>5, <1>7, <2>1, <2>2
<1> QED
  BY <1>6, <1>7

\* The type invariant of the detector, for every size of its window.
THEOREM DetectorTypesHold == DetectorSpec => []DetectorTypeOK
<1>1. DetectorInit => DetectorTypeOK
  BY EmptySeq, CapacityPositive DEF DetectorInit, DetectorTypeOK
<1>2. DetectorTypeOK /\ [DetectorNext]_window => DetectorTypeOK'
  <2> SUFFICES ASSUME DetectorTypeOK, [DetectorNext]_window PROVE DetectorTypeOK'
    OBVIOUS
  <2>1. ASSUME NEW call \in Calls, Record(call) PROVE DetectorTypeOK'
    BY <2>1, RecordedShape, CapacityPositive DEF Record, DetectorTypeOK
  <2>2. CASE ClearWindow
    BY <2>2, EmptySeq, CapacityPositive DEF ClearWindow, DetectorTypeOK
  <2>3. CASE UNCHANGED window
    BY <2>3 DEF DetectorTypeOK
  <2> QED
    BY <2>1, <2>2, <2>3 DEF DetectorNext
<1> QED
  BY <1>1, <1>2, PTL DEF DetectorSpec

\* The window w holds the latest of the calls of s, as many as it has room for.
IsWindowOf(w, s) ==
    /\ w \in Seq(Calls) /\ s \in Seq(Calls)
    /\ Len(w) = IF Len(s) < Capacity THEN Len(s) ELSE Capacity
    /\ \A i \in 1..Len(w) : w[i] = s[i + (Len(s) - Len(w))]

\* Recording a call keeps the window on the calls made.
LEMMA RecordedWindow ==
    ASSUME NEW w, NEW s, IsWindowOf(w, s), NEW call \in Calls
    PROVE  IsWindowOf(Recorded(w, call), Append(s, call))
<1> DEFINE r == Recorded(w, call)
           t == Append(s, call)
<1>1. /\ w \in Seq(Calls) /\ s \in Seq(Calls)
      /\ Len(w) \in Nat /\ Len(s) \in Nat
      /\ Len(w) = IF Len(s) < Capacity THEN Len(s) ELSE Capacity
      /\ \A i \in 1..Len(w) : w[i] = s[i + (Len(s) - Len(w))]
      /\ Len(w) <= Capacity
  <2>1. /\ w \in Seq(Calls) /\ s \in Seq(Calls)
        /\ Len(w) = IF Len(s) < Capacity THEN Len(s) ELSE Capacity
        /\ \A i \in 1..Len(w) : w[i] = s[i + (Len(s) - Len(w))]
    BY DEF IsWindowOf
  <2>2. Len(w) \in Nat /\ Len(s) \in Nat /\ Capacity \in Nat
    BY <2>1, CapacityPositive
  <2>3. Len(w) <= Capacity
    <3>1. CASE Len(s) < Capacity
      BY <2>1, <2>2, <3>1
    <3>2. CASE ~(Len(s) < Capacity)
      BY <2>1, <2>2, <3>2
    <3> QED
      BY <3>1, <3>2
  <2> QED
    BY <2>1, <2>2, <2>3
<1>2. /\ r \in Seq(Calls) /\ Len(r) \in Nat
      /\ Len(r) = IF Len(w) < Capacity THEN Len(w) + 1 ELSE Capacity
      /\ \A i \in 1..(Len(r) - 1) : r[i] = w[i + (Len(w) + 1 - Len(r))]
      /\ r[Len(r)] = call
  <2>1. /\ r \in Seq(Calls)
        /\ Len(r) = IF Len(w) < Capacity THEN Len(w) + 1 ELSE Capacity
        /\ \A i \in 1..(Len(r) - 1) : r[i] = w[i + (Len(w) + 1 - Len(r))]
        /\ r[Len(r)] = call
    BY <1>1, RecordedShape
  <2>2. Len(r) \in Nat
    BY <2>1
  <2> QED
    BY <2>1, <2>2
<1>3. /\ t \in Seq(Calls) /\ Len(t) = Len(s) + 1
      /\ \A i \in 1..Len(s) : t[i] = s[i]
      /\ t[Len(s) + 1] = call
  BY <1>1, AppendProperties
<1> HIDE DEF r, t
<1>4. Len(r) = IF Len(t) < Capacity THEN Len(t) ELSE Capacity
  BY <1>1, <1>2, <1>3, CapacityPositive
<1>5. Len(r) <= Len(w) + 1 /\ Len(w) <= Len(s) /\ Len(r) > 0
  BY <1>1, <1>2, CapacityPositive
<1>6. ASSUME NEW i \in 1..(Len(r) - 1) PROVE r[i] = t[i + (Len(t) - Len(r))]
  <2> DEFINE j == i + (Len(w) + 1 - Len(r))
  <2>1. j \in 1..Len(w) /\ j + (Len(s) - Len(w)) = i + (Len(t) - Len(r))
        /\ i + (Len(t) - Len(r)) \in 1..Len(s)
    <3>1. i \in Nat /\ i >= 1 /\ i <= Len(r) - 1 /\ Len(t) = Len(s) + 1
      BY <1>2, <1>3
    <3>2. Len(r) <= Len(w) + 1 /\ Len(w) <= Len(s) /\ Len(w) \in Nat
          /\ Len(s) \in Nat /\ Len(r) \in Nat
      BY <1>1, <1>2, <1>5
    <3> QED
      BY <3>1, <3>2
  <2>2. r[i] = w[j] /\ w[j] = s[j + (Len(s) - Len(w))]
    BY <1>1, <1>2, <2>1
  <2> QED
    BY <1>3, <2>1, <2>2
<1>7. r[Len(r)] = t[Len(r) + (Len(t) - Len(r))]
  <2>1. Len(r) + (Len(t) - Len(r)) = Len(s) + 1
    BY <1>1, <1>2, <1>3
  <2> QED
    BY <1>2, <1>3, <2>1
<1>8. ASSUME NEW i \in 1..Len(r) PROVE r[i] = t[i + (Len(t) - Len(r))]
  <2>1. i \in 1..(Len(r) - 1) \/ i = Len(r)
    BY <1>2
  <2> QED
    BY <1>6, <1>7, <2>1
<1>9. IsWindowOf(r, t)
  BY <1>2, <1>3, <1>4, <1>8 DEF IsWindowOf
<1> QED
  BY <1>9 DEF r, t

\* Where a call is among the latest calls of s.
Recent(s) == {i \in 1..Len(s) : i + Capacity > Len(s)}

RecentCount(c, s) == Cardinality({i \in Recent(s) : s[i] = c})

\* What comes before the window.
Forgotten(w, s) == Len(s) - Len(w)

\* The window is the calls from the first one that is not forgotten.
LEMMA WindowShape ==
    ASSUME NEW w, NEW s, IsWindowOf(w, s)
    PROVE  /\ Len(w) \in Nat /\ Len(s) \in Nat /\ Forgotten(w, s) \in Nat
           /\ Len(s) = Len(w) + Forgotten(w, s)
           /\ Recent(s) = (Forgotten(w, s) + 1)..Len(s)
           /\ \A i \in 1..Len(w) : w[i] = s[i + Forgotten(w, s)]
<1>1. /\ w \in Seq(Calls) /\ s \in Seq(Calls)
      /\ Len(w) = IF Len(s) < Capacity THEN Len(s) ELSE Capacity
      /\ \A i \in 1..Len(w) : w[i] = s[i + (Len(s) - Len(w))]
  BY DEF IsWindowOf
<1>2. Len(w) \in Nat /\ Len(s) \in Nat /\ Capacity \in Nat /\ Capacity > 0
  BY <1>1, CapacityPositive
<1>3. CASE Len(s) < Capacity
  <2>1. Forgotten(w, s) = 0 /\ Len(w) = Len(s)
    BY <1>1, <1>2, <1>3 DEF Forgotten
  <2>2. Recent(s) = 1..Len(s)
    BY <1>2, <1>3 DEF Recent
  <2>3. Forgotten(w, s) = Len(s) - Len(w) /\ Forgotten(w, s) + 1 = 1
        /\ Forgotten(w, s) \in Nat /\ Len(s) = Len(w) + Forgotten(w, s)
    BY <1>2, <2>1 DEF Forgotten
  <2> QED
    BY <1>1, <1>2, <2>2, <2>3
<1>4. CASE ~(Len(s) < Capacity)
  <2>1. Forgotten(w, s) = Len(s) - Capacity /\ Len(w) = Capacity
    BY <1>1, <1>2, <1>4 DEF Forgotten
  <2>2. Recent(s) = (Len(s) - Capacity + 1)..Len(s)
    BY <1>2, <1>4 DEF Recent
  <2>3. /\ Forgotten(w, s) = Len(s) - Len(w)
        /\ Forgotten(w, s) \in Nat /\ Len(s) = Len(w) + Forgotten(w, s)
    BY <1>2, <1>4, <2>1 DEF Forgotten
  <2> QED
    BY <1>1, <1>2, <2>1, <2>2, <2>3
<1> QED
  BY <1>3, <1>4

\* The window counts a call as often as it is among the latest Capacity calls.
LEMMA WindowCounts ==
    ASSUME NEW w, NEW s, IsWindowOf(w, s), NEW c
    PROVE  /\ IsFiniteSet({i \in 1..Len(w) : w[i] = c})
           /\ Occurrences(c, w) = RecentCount(c, s)
<1> DEFINE d == Forgotten(w, s)
           A == {i \in 1..Len(w) : w[i] = c}
           B == {i \in Recent(s) : s[i] = c}
           f == [i \in A |-> i + d]
<1>1. /\ Len(w) \in Nat /\ Len(s) = Len(w) + d
      /\ \A i \in 1..Len(w) : w[i] = s[i + d]
  BY WindowShape
<1>2. d \in Nat /\ Recent(s) = (d + 1)..Len(s)
  BY WindowShape
<1> HIDE DEF d
<1>3. f \in [A -> B]
  <2> SUFFICES ASSUME NEW i \in A PROVE i + d \in B
    OBVIOUS
  <2>1. i \in 1..Len(w) /\ w[i] = c
    OBVIOUS
  <2>2. i + d \in (d + 1)..Len(s)
    BY <1>1, <1>2, <2>1
  <2> QED
    BY <1>1, <1>2, <2>1, <2>2
<1>4. \A i, j \in A : f[i] = f[j] => i = j
  BY <1>2
<1>5. \A j \in B : \E i \in A : f[i] = j
  <2> SUFFICES ASSUME NEW j \in B PROVE \E i \in A : f[i] = j
    OBVIOUS
  <2>1. j \in (d + 1)..Len(s) /\ s[j] = c
    BY <1>2
  <2>2. j - d \in 1..Len(w) /\ (j - d) + d = j
    BY <1>1, <1>2, <2>1
  <2>3. j - d \in A
    BY <1>1, <2>1, <2>2
  <2> QED
    BY <2>2, <2>3
<1>6. f \in Bijection(A, B)
  <2> HIDE DEF f, A, B
  <2>1. DOMAIN f = A
    BY <1>3
  <2> QED
    BY <1>3, <1>4, <1>5, <2>1 DEF Bijection, Injection, Surjection, IsInjective
<1>7. IsFiniteSet(A)
  <2>1. 1 \in Int /\ Len(w) \in Int /\ A \in SUBSET (1..Len(w))
    BY <1>1
  <2>2. IsFiniteSet(1..Len(w))
    BY <2>1, FS_Interval
  <2> HIDE DEF A
  <2> QED
    BY <2>1, <2>2, FS_Subset
<1>8. Cardinality(A) = Cardinality(B)
  <2> HIDE DEF f, A, B
  <2>1. ExistsBijection(A, B)
    BY <1>6 DEF ExistsBijection
  <2> QED
    BY <1>7, <2>1, FS_Bijection
<1> QED
  BY <1>7, <1>8 DEF Occurrences, RecentCount

\* The detector reports a loop exactly when one of the latest calls is among
\* them often enough.
LEMMA WindowDetects ==
    ASSUME NEW w, NEW s, IsWindowOf(w, s)
    PROVE  IsLooping(w) <=>
              \E c \in {s[i] : i \in Recent(s)} :
                 RecentCount(c, s) >= RepeatThreshold
<1>1. {w[i] : i \in 1..Len(w)} = {s[i] : i \in Recent(s)}
  <2> DEFINE d == Forgotten(w, s)
  <2>1. /\ Len(w) \in Nat /\ Len(s) = Len(w) + d
        /\ \A i \in 1..Len(w) : w[i] = s[i + d]
    BY WindowShape
  <2>2. d \in Nat /\ Recent(s) = (d + 1)..Len(s)
    BY WindowShape
  <2> HIDE DEF d
  <2>3. \A i \in 1..Len(w) : i + d \in Recent(s)
    BY <2>1, <2>2
  <2>4. \A j \in Recent(s) : j - d \in 1..Len(w) /\ (j - d) + d = j
    BY <2>1, <2>2
  <2>5. \A j \in Recent(s) : s[j] = w[j - d]
    BY <2>1, <2>4
  <2> QED
    BY <2>1, <2>3, <2>4, <2>5
<1>2. IsLooping(w) <=>
          \E c \in {w[i] : i \in 1..Len(w)} : Occurrences(c, w) >= RepeatThreshold
  BY DEF IsLooping
<1>3. ASSUME NEW c
      PROVE  Occurrences(c, w) = RecentCount(c, s)
  BY WindowCounts
<1> QED
  BY <1>1, <1>2, <1>3

-----------------------------------------------------------------------------

(***************************************************************************)
(* An agent that stops at a loop, and otherwise records every call before  *)
(* it makes it.                                                            *)
(***************************************************************************)

\* Where a call is among the Capacity calls of s from the given one on.
CallsFrom(s, first, c) ==
    {i \in 1..Len(s) : /\ first <= i /\ i < first + Capacity
                       /\ s[i] = c}

\* No call floods the agent: among Capacity consecutive ones it occurs once, or
\* at most RepeatThreshold times.
FloodFree(s) ==
    \A first \in 1..Len(s), c \in Calls :
        \/ Cardinality(CallsFrom(s, first, c)) <= 1
        \/ Cardinality(CallsFrom(s, first, c)) <= RepeatThreshold

\* A few calls among the positions of a sequence.
LEMMA PositionsFinite ==
    ASSUME NEW s, Len(s) \in Nat, NEW T, T \subseteq 1..Len(s)
    PROVE  IsFiniteSet(T) /\ Cardinality(T) \in Nat
<1>1. IsFiniteSet(1..Len(s))
  BY FS_Interval
<1> QED
  BY <1>1, FS_Subset, FS_CardinalityType

\* The empty sequence has no calls.
LEMMA EmptyFloodFree == FloodFree(<<>>)
  BY DEF FloodFree

\* Fewer calls are no flood if more are none.
LEMMA FloodFreeFront ==
    ASSUME NEW s \in Seq(Calls), FloodFree(s),
           NEW t \in Seq(Calls), Len(t) <= Len(s),
           \A i \in 1..Len(t) : t[i] = s[i]
    PROVE  FloodFree(t)
<1> SUFFICES ASSUME NEW first \in 1..Len(t), NEW c \in Calls
             PROVE  \/ Cardinality(CallsFrom(t, first, c)) <= 1
                    \/ Cardinality(CallsFrom(t, first, c)) <= RepeatThreshold
  BY DEF FloodFree
<1> DEFINE A == CallsFrom(t, first, c)
           B == CallsFrom(s, first, c)
<1>1. Len(s) \in Nat /\ Len(t) \in Nat /\ first \in 1..Len(s)
  OBVIOUS
<1>2. A \subseteq B /\ B \subseteq 1..Len(s)
  BY <1>1 DEF CallsFrom
<1>3. IsFiniteSet(B) /\ Cardinality(B) \in Nat
  BY <1>1, <1>2, PositionsFinite
<1>4. Cardinality(A) <= Cardinality(B) /\ Cardinality(A) \in Nat
  BY <1>2, <1>3, FS_Subset, FS_CardinalityType
<1>5. Cardinality(B) <= 1 \/ Cardinality(B) <= RepeatThreshold
  BY <1>1 DEF FloodFree
<1> HIDE DEF A, B
<1>6. Cardinality(A) <= 1 \/ Cardinality(A) <= RepeatThreshold
  BY <1>3, <1>4, <1>5, RepeatAssumption
<1> QED
  BY <1>6 DEF A

\* A call made while the window shows no loop is no flood: every call of the
\* window occurs in it less often than the threshold.
LEMMA FloodFreeAppend ==
    ASSUME NEW w, NEW s, IsWindowOf(w, s), ~IsLooping(w), FloodFree(s),
           NEW call \in Calls
    PROVE  FloodFree(Append(s, call))
<1> DEFINE t == Append(s, call)
           n == Len(s)
<1>1. s \in Seq(Calls) /\ n \in Nat
  BY DEF IsWindowOf
<1>2. /\ Len(t) = n + 1 /\ t[n + 1] = call
      /\ \A i \in 1..n : t[i] = s[i]
  BY <1>1
<1>3. Capacity \in Nat
  BY CapacityPositive
<1> HIDE DEF t
<1> SUFFICES ASSUME NEW first \in 1..(n + 1), NEW c \in Calls
             PROVE  \/ Cardinality(CallsFrom(t, first, c)) <= 1
                    \/ Cardinality(CallsFrom(t, first, c)) <= RepeatThreshold
  BY <1>2 DEF FloodFree, t
<1> HIDE DEF n
<1> DEFINE A == CallsFrom(t, first, c)
<1>4. CASE first + Capacity <= n + 1
  <2>1. first \in 1..n
    BY <1>1, <1>3, <1>4, CapacityPositive
  <2>2. A = CallsFrom(s, first, c)
    BY <1>1, <1>2, <1>3, <1>4 DEF CallsFrom, n
  <2> QED
    BY <2>1, <2>2 DEF FloodFree, n
<1>5. CASE ~(first + Capacity <= n + 1)
  <2> DEFINE B == {i \in Recent(s) : s[i] = c}
  <2>1. B \subseteq 1..n /\ IsFiniteSet(B) /\ Cardinality(B) \in Nat
    <3>1. B \subseteq 1..n
      BY DEF Recent, n
    <3> QED
      BY <1>1, <3>1, PositionsFinite DEF n
  <2>2. A \subseteq B \cup {n + 1}
    BY <1>1, <1>2, <1>3, <1>5 DEF CallsFrom, Recent, n
  <2>3. IsFiniteSet(B \cup {n + 1}) /\ Cardinality(B \cup {n + 1}) <= Cardinality(B) + 1
    BY <2>1, FS_AddElement
  <2>4. IsFiniteSet(A) /\ Cardinality(A) <= Cardinality(B \cup {n + 1})
    BY <2>2, <2>3, FS_Subset
  <2>5. Cardinality(A) \in Nat /\ Cardinality(B \cup {n + 1}) \in Nat
    BY <2>3, <2>4, FS_CardinalityType
  <2>6. CASE B = {}
    <3>1. Cardinality(B) = 0
      BY <2>6, FS_EmptySet
    <3> HIDE DEF A, B
    <3>2. Cardinality(A) <= 1
      BY <2>3, <2>4, <2>5, <3>1
    <3> QED
      BY <3>2 DEF A
  <2>7. CASE B # {}
    <3>1. c \in {s[i] : i \in Recent(s)}
      BY <2>7
    <3>2. RecentCount(c, s) \in Nat /\ RecentCount(c, s) = Cardinality(B)
      BY <2>1 DEF RecentCount
    <3>3. ~(RecentCount(c, s) >= RepeatThreshold)
      BY <3>1, WindowDetects
    <3> HIDE DEF A, B
    <3>4. Cardinality(A) <= RepeatThreshold
      BY <2>1, <2>3, <2>4, <2>5, <3>2, <3>3, RepeatAssumption
    <3> QED
      BY <3>4 DEF A
  <2> QED
    BY <2>6, <2>7
<1> QED
  BY <1>4, <1>5

=============================================================================
