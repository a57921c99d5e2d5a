-------------------------- MODULE PeerStreamProofs --------------------------
(***************************************************************************)
(* Proofs about module PeerStream.                                         *)
(*                                                                         *)
(* Everything that is between the peer and the reader is one sequence,     *)
(* Stream.  A function f tells where in it every message starts; positions *)
(* below 1 have been consumed.                                             *)
(***************************************************************************)
EXTENDS PeerStream, OrderLemmas, SequenceTheorems, TLAPS

Job(r) == r \div max_rounds

\* The round whose message the reader looks for, or will look for next.
Cur == IF op = "off" THEN round + 1 ELSE round

Stream == buf \o (wire \o out)

Pair == Int \X Int

-----------------------------------------------------------------------------
(* Rounds and jobs.                                                        *)

LEMMA RoundsNat == max_rounds \in Nat \ {0}
BY StreamAssumption

LEMMA JobNat == ASSUME NEW a \in Nat PROVE Job(a) \in Nat
BY RoundsNat, Quotient DEF Job

\* Rounds are in the order of their jobs.
LEMMA JobOrder ==
  ASSUME NEW a \in Nat, NEW b \in Nat, a <= b
  PROVE  Job(a) <= Job(b)
<1> DEFINE x == Job(a) y == Job(b)
<1>1. /\ x \in Nat /\ x * max_rounds <= a /\ a < x * max_rounds + max_rounds
      /\ y \in Nat /\ y * max_rounds <= b /\ b < y * max_rounds + max_rounds
  BY RoundsNat, Quotient DEF Job
<1>2. x * max_rounds \in Nat /\ y * max_rounds \in Nat /\ max_rounds \in Nat \ {0}
  BY <1>1, RoundsNat, Z3
<1> HIDE DEF x, y
<1>3. ASSUME y < x PROVE FALSE
  <2>1. y * max_rounds + max_rounds <= x * max_rounds
    BY <1>1, <1>2, <1>3, ProductOrder
  <2> QED BY <1>1, <1>2, <2>1
<1>4. x <= y
  BY <1>1, <1>3
<1> QED BY <1>4 DEF x, y

\* A job has max_rounds rounds.
LEMMA JobLength ==
  ASSUME NEW a \in Nat, NEW b \in Nat, Job(a) = Job(b)
  PROVE  b - a < max_rounds
<1> DEFINE x == Job(a)
<1>1. /\ x \in Nat /\ x * max_rounds <= a /\ b < x * max_rounds + max_rounds
  BY RoundsNat, Quotient DEF Job
<1>2. x * max_rounds \in Nat /\ max_rounds \in Nat
  BY <1>1, RoundsNat, Z3
<1> HIDE DEF x
<1> QED BY <1>1, <1>2

LEMMA NextJob ==
  ASSUME NEW a \in Nat
  PROVE  Job(a + max_rounds) = Job(a) + 1
<1> DEFINE x == Job(a)
<1>1. /\ x \in Nat /\ x * max_rounds <= a /\ a < x * max_rounds + max_rounds
  BY RoundsNat, Quotient DEF Job
<1>2. x * max_rounds \in Nat /\ max_rounds \in Nat \ {0} /\ (x + 1) * max_rounds = x * max_rounds + max_rounds
  BY <1>1, RoundsNat, Z3
<1> HIDE DEF x
<1>3. (a + max_rounds) \div max_rounds = x + 1
  BY <1>1, <1>2, QuotientIs
<1> QED BY <1>3 DEF x, Job

\* The rounds of the job that starts at a.
LEMMA WholeJob ==
  ASSUME NEW a \in Nat, a % max_rounds = 0, NEW b \in Nat
  PROVE  Job(b) = Job(a) <=> b \in a..(a + max_rounds - 1)
<1> DEFINE x == Job(a)
<1>1. x \in Nat /\ a = x * max_rounds
  <2>1. \A n \in Nat, p \in Nat \ {0} : n % p = n - (n \div p) * p /\ n \div p \in Nat
    BY Z3
  <2>2. x \in Nat /\ 0 = a - x * max_rounds
    BY <2>1, RoundsNat DEF Job
  <2>3. x * max_rounds \in Int
    BY <2>2, RoundsNat
  <2> QED BY <2>2, <2>3
<1>2. max_rounds \in Nat \ {0}
  BY RoundsNat
<1> HIDE DEF x
<1>3. ASSUME b \in a..(a + max_rounds - 1) PROVE Job(b) = x
  <2>1. b \div max_rounds = x
    BY <1>1, <1>2, <1>3, QuotientIs
  <2> QED BY <2>1 DEF Job
<1>4. ASSUME Job(b) = x PROVE b \in a..(a + max_rounds - 1)
  <2>1. x * max_rounds <= b /\ b < x * max_rounds + max_rounds
    BY <1>2, <1>4, Quotient DEF Job
  <2> QED BY <1>1, <1>2, <2>1
<1> QED BY <1>3, <1>4 DEF x

LEMMA LenNat == ASSUME NEW r \in Nat PROVE len(r) \in Nat \ {0}
<1>1. (r % max_rounds) + 1 \in 1..max_rounds
  BY RoundsNat, Z3
<1> QED BY <1>1, StreamAssumption DEF len

\* Messages of the same round of two jobs have the same length.
LEMMA LenPeriodic ==
  ASSUME NEW r \in Nat, NEW k \in Nat, r - max_rounds * k \in Nat
  PROVE  len(r - max_rounds * k) = len(r)
<1> DEFINE a == r - max_rounds * k
           x == a \div max_rounds
           y == r \div max_rounds
<1>0. max_rounds \in Nat \ {0}
  BY RoundsNat
<1>1. /\ x \in Nat /\ x * max_rounds <= a /\ a < x * max_rounds + max_rounds
  BY <1>0, Quotient
<1>2. (x + k) * max_rounds = x * max_rounds + max_rounds * k /\ x * max_rounds \in Nat /\ max_rounds * k \in Nat
  BY <1>0, <1>1, Z3
<1>3. y = x + k
  <2>1. (x + k) * max_rounds <= r /\ r < (x + k) * max_rounds + max_rounds
    BY <1>0, <1>1, <1>2
  <2>2. x + k \in Nat
    BY <1>1
  <2> HIDE DEF x, a
  <2>3. r \div max_rounds = x + k
    BY <1>0, <2>1, <2>2, QuotientIs
  <2> QED BY <2>3
<1>4. a % max_rounds = a - x * max_rounds /\ r % max_rounds = r - y * max_rounds
  <2>1. \A b \in Nat, p \in Nat \ {0} : b % p = b - (b \div p) * p
    BY Z3
  <2> QED BY <1>0, <2>1
<1>5. a % max_rounds = r % max_rounds
  BY <1>2, <1>3, <1>4, <1>0, <1>1
<1> QED BY <1>5 DEF len

-----------------------------------------------------------------------------
(* Sequences.                                                              *)

\* What is left of a sequence without its first k elements.
LEMMA DropFacts ==
  ASSUME NEW T, NEW s \in Seq(T), NEW k \in 0..Len(s)
  PROVE  /\ SubSeq(s, k + 1, Len(s)) \in Seq(T)
         /\ Len(SubSeq(s, k + 1, Len(s))) = Len(s) - k
         /\ \A i \in 1..(Len(s) - k) : SubSeq(s, k + 1, Len(s))[i] = s[i + k]
<1> DEFINE t == SubSeq(s, k + 1, Len(s))
<1>0. Len(s) \in Nat /\ k \in Nat /\ k <= Len(s) /\ \A i \in 1..Len(s) : s[i] \in T
  BY LenProperties, ElementOfSeq
<1>1. k + 1 \in Int /\ Len(s) \in Int /\ \A i \in (k + 1)..Len(s) : s[i] \in T
  BY <1>0
<1>2. /\ t \in Seq(T) /\ Len(t) = IF k + 1 <= Len(s) THEN Len(s) - (k + 1) + 1 ELSE 0
      /\ \A i \in 1..(Len(s) - (k + 1) + 1) : t[i] = s[(k + 1) + i - 1]
  BY <1>1, SubSeqProperties
<1> HIDE DEF t
<1>3. \A i \in 1..(Len(s) - k) : t[i] = s[i + k]
  <2> TAKE i \in 1..(Len(s) - k)
  <2>1. i \in 1..(Len(s) - (k + 1) + 1) /\ (k + 1) + i - 1 = i + k
    BY <1>0
  <2> QED BY <1>2, <2>1
<1>4. Len(t) = Len(s) - k
  BY <1>0, <1>2
<1> QED BY <1>2, <1>3, <1>4 DEF t

\* Its first k elements.
LEMMA TakeFacts ==
  ASSUME NEW T, NEW s \in Seq(T), NEW k \in 0..Len(s)
  PROVE  /\ SubSeq(s, 1, k) \in Seq(T)
         /\ Len(SubSeq(s, 1, k)) = k
         /\ \A i \in 1..k : SubSeq(s, 1, k)[i] = s[i]
<1> DEFINE t == SubSeq(s, 1, k)
<1>0. Len(s) \in Nat /\ k \in Nat /\ k <= Len(s) /\ \A i \in 1..Len(s) : s[i] \in T
  BY LenProperties, ElementOfSeq
<1>1. 1 \in Int /\ k \in Int /\ \A i \in 1..k : s[i] \in T
  BY <1>0
<1>2. /\ t \in Seq(T) /\ Len(t) = IF 1 <= k THEN k - 1 + 1 ELSE 0
      /\ \A i \in 1..(k - 1 + 1) : t[i] = s[1 + i - 1]
  BY <1>1, SubSeqProperties
<1> HIDE DEF t
<1>3. \A i \in 1..k : t[i] = s[i]
  <2> TAKE i \in 1..k
  <2>1. i \in 1..(k - 1 + 1) /\ 1 + i - 1 = i
    BY <1>0
  <2> QED BY <1>2, <2>1
<1>4. Len(t) = k
  BY <1>0, <1>2
<1> QED BY <1>2, <1>3, <1>4 DEF t

\* The elements of a concatenation, from either side.
LEMMA ConcatFacts ==
  ASSUME NEW T, NEW s \in Seq(T), NEW t \in Seq(T)
  PROVE  /\ s \o t \in Seq(T) /\ Len(s \o t) = Len(s) + Len(t)
         /\ Len(s) \in Nat /\ Len(t) \in Nat
         /\ \A i \in 1..Len(s) : (s \o t)[i] = s[i]
         /\ \A i \in 1..Len(t) : (s \o t)[i + Len(s)] = t[i]
<1>1. Len(s) \in Nat /\ Len(t) \in Nat
  BY LenProperties
<1>2. /\ s \o t \in Seq(T) /\ Len(s \o t) = Len(s) + Len(t)
      /\ \A i \in 1..(Len(s) + Len(t)) : (s \o t)[i] = IF i <= Len(s) THEN s[i] ELSE t[i - Len(s)]
  BY ConcatProperties
<1>3. ASSUME NEW i \in 1..Len(s) PROVE (s \o t)[i] = s[i]
  <2>1. i \in 1..(Len(s) + Len(t)) /\ i <= Len(s)
    BY <1>1
  <2> QED BY <1>2, <2>1
<1>4. ASSUME NEW i \in 1..Len(t) PROVE (s \o t)[i + Len(s)] = t[i]
  <2>1. i + Len(s) \in 1..(Len(s) + Len(t)) /\ ~ (i + Len(s) <= Len(s)) /\ (i + Len(s)) - Len(s) = i
    BY <1>1
  <2> QED BY <1>2, <2>1
<1> QED BY <1>1, <1>2, <1>3, <1>4

-----------------------------------------------------------------------------
(* Messages.                                                               *)

LEMMA MessageFacts ==
  ASSUME NEW r \in Nat
  PROVE  /\ message(r) \in Seq(Pair) /\ Len(message(r)) = 1 + len(r)
         /\ \A i \in 1..(1 + len(r)) : message(r)[i] = IF i = 1 THEN delim ELSE <<r, i - 1>>
         /\ message(r) # <<>>
<1>1. len(r) \in Nat \ {0}
  BY LenNat
<1>2. nodes(r) \in Seq(Pair) /\ Len(nodes(r)) = len(r)
  BY <1>1 DEF nodes, Pair
<1>3. <<delim>> \in Seq(Pair) /\ Len(<<delim>>) = 1 /\ <<delim>>[1] = delim
  BY DEF delim, Pair
<1>4. /\ message(r) \in Seq(Pair) /\ Len(message(r)) = 1 + len(r)
      /\ \A i \in 1..(1 + len(r)) : message(r)[i] = IF i <= 1 THEN <<delim>>[i] ELSE nodes(r)[i - 1]
  <2> HIDE DEF nodes
  <2> QED BY <1>1, <1>2, <1>3, ConcatProperties DEF message
<1>5. \A i \in 2..(1 + len(r)) : nodes(r)[i - 1] = <<r, i - 1>>
  BY <1>1 DEF nodes
<1>6. ASSUME NEW i \in 1..(1 + len(r))
      PROVE  message(r)[i] = IF i = 1 THEN delim ELSE <<r, i - 1>>
  <2>1. CASE i = 1
    BY <1>1, <1>3, <1>4, <2>1
  <2>2. CASE i # 1
    <3>1. i \in 2..(1 + len(r)) /\ ~ (i <= 1)
      BY <1>1, <2>2
    <3> QED BY <1>4, <1>5, <2>2, <3>1
  <2> QED BY <2>1, <2>2
<1>7. message(r) # <<>>
  BY <1>1, <1>4
<1> QED BY <1>4, <1>6, <1>7

-----------------------------------------------------------------------------
(* The layout of a stream.                                                 *)

\* Message r has been written in full.
Whole(f, r) == f[r + 1] = f[r] + 1 + len(r)

\* f tells where in s the messages of rounds 0 .. n-1 start, of which those in S
\* were not sent.  Messages may be cut off at the end, even before the delimiter.
Order(f, n) == \A a, b \in 0..n : a <= b => f[a] <= f[b]

Sizes(f, n) == \A r \in 0..(n - 1) : f[r + 1] <= f[r] + 1 + len(r)

Gaps(f, n, S) == \A a, b \in 0..n : a <= b /\ (\A r \in a..(b - 1) : r \in S) => f[a] = f[b]

Starts(f, s, n) == \A b \in 0..n : f[b] \in 1..Len(s) => s[f[b]] = delim

\* Position i holds node i - f[q] of message q, or its delimiter.
Holds(f, s, q, i) ==
  /\ f[q] <= i /\ i < f[q + 1]
  /\ s[i] = IF i = f[q] THEN delim ELSE <<q, i - f[q]>>

Contents(f, s, n, S) ==
  \A i \in 1..Len(s) : \E q \in 0..(n - 1) : q \notin S /\ Holds(f, s, q, i)

Laid(f, s, n, S) ==
  /\ f \in [0..n -> Int] /\ s \in Seq(Pair) /\ n \in Nat /\ S \in SUBSET (0..(n - 1))
  /\ f[n] = Len(s) + 1
  /\ Order(f, n) /\ Sizes(f, n) /\ Gaps(f, n, S)
  /\ Starts(f, s, n) /\ Contents(f, s, n, S)

\* k tokens are consumed.
Shifted(f, n, k) == [r \in 0..n |-> f[r] - k]

LEMMA ShiftLaid ==
  ASSUME NEW f, NEW s, NEW n, NEW S, Laid(f, s, n, S), NEW k \in 0..Len(s)
  PROVE  Laid(Shifted(f, n, k), SubSeq(s, k + 1, Len(s)), n, S)
<1> DEFINE g == Shifted(f, n, k)
           t == SubSeq(s, k + 1, Len(s))
<1>1. f \in [0..n -> Int] /\ s \in Seq(Pair) /\ n \in Nat /\ S \in SUBSET (0..(n - 1)) /\ f[n] = Len(s) + 1
  BY DEF Laid
<1>2. Len(s) \in Nat /\ DOMAIN s = 1..Len(s) /\ \A i \in 1..Len(s) : s[i] \in Pair
  BY <1>1, LenProperties, ElementOfSeq
<1>3. t \in Seq(Pair) /\ Len(t) = Len(s) - k /\ \A i \in 1..(Len(s) - k) : t[i] = s[i + k]
  BY <1>1, DropFacts
<1>4. g \in [0..n -> Int] /\ \A r \in 0..n : g[r] = f[r] - k
  BY <1>1 DEF Shifted
<1> HIDE DEF g, t
<1>5. g[n] = Len(t) + 1
  BY <1>1, <1>2, <1>3, <1>4
<1>6. Order(g, n)
  BY <1>1, <1>4 DEF Laid, Order
<1>7. Sizes(g, n)
  <2> SUFFICES ASSUME NEW r \in 0..(n - 1) PROVE g[r + 1] <= g[r] + 1 + len(r)
    BY DEF Sizes
  <2>1. f[r + 1] <= f[r] + 1 + len(r)
    BY DEF Laid, Sizes
  <2>2. r \in Nat /\ r \in 0..n /\ r + 1 \in 0..n
    BY <1>1
  <2>3. len(r) \in Nat
    BY <2>2, LenNat
  <2>4. f[r] \in Int /\ f[r + 1] \in Int /\ g[r] = f[r] - k /\ g[r + 1] = f[r + 1] - k
    BY <1>1, <1>4, <2>2
  <2> QED BY <2>1, <2>3, <2>4
<1>8. Gaps(g, n, S)
  BY <1>1, <1>4 DEF Laid, Gaps
<1>9. Starts(g, t, n)
  <2> SUFFICES ASSUME NEW b \in 0..n, g[b] \in 1..Len(t) PROVE t[g[b]] = delim
    BY DEF Starts
  <2>0. f[b] \in Int /\ g[b] = f[b] - k
    BY <1>1, <1>4
  <2>1. f[b] = g[b] + k /\ f[b] \in 1..Len(s) /\ g[b] \in 1..(Len(s) - k)
    BY <1>2, <1>3, <2>0
  <2>2. s[f[b]] = delim
    BY <2>1 DEF Laid, Starts
  <2> QED BY <1>3, <2>1, <2>2
<1>10. Contents(g, t, n, S)
  <2> SUFFICES ASSUME NEW i \in 1..Len(t) PROVE \E q \in 0..(n - 1) : q \notin S /\ Holds(g, t, q, i)
    BY DEF Contents
  <2>1. i + k \in 1..Len(s) /\ t[i] = s[i + k] /\ i \in Int
    BY <1>2, <1>3
  <2>2. PICK q \in 0..(n - 1) : q \notin S /\ Holds(f, s, q, i + k)
    BY <2>1 DEF Laid, Contents
  <2>3. q \in 0..n /\ q + 1 \in 0..n
    BY <1>1
  <2>4. Holds(g, t, q, i)
    <3>1. g[q] = f[q] - k /\ g[q + 1] = f[q + 1] - k /\ f[q] \in Int /\ f[q + 1] \in Int
      BY <1>1, <1>4, <2>3
    <3>2. g[q] <= i /\ i < g[q + 1]
      BY <2>1, <2>2, <3>1 DEF Holds
    <3>3. (i + k) - f[q] = i - g[q] /\ (i + k = f[q] <=> i = g[q])
      BY <2>1, <3>1
    <3>4. t[i] = IF i = g[q] THEN delim ELSE <<q, i - g[q]>>
      <4>1. s[i + k] = IF i + k = f[q] THEN delim ELSE <<q, (i + k) - f[q]>>
        BY <2>2 DEF Holds
      <4> QED BY <2>1, <3>3, <4>1
    <3> QED BY <3>2, <3>4 DEF Holds
  <2> QED BY <2>2, <2>4
<1> QED BY <1>1, <1>3, <1>4, <1>5, <1>6, <1>7, <1>8, <1>9, <1>10 DEF Laid, g, t

\* Message n is sent.
Extended(f, n) == [r \in 0..(n + 1) |-> IF r <= n THEN f[r] ELSE f[n] + 1 + len(n)]

LEMMA ExtendLaid ==
  ASSUME NEW f, NEW s, NEW n, NEW S, Laid(f, s, n, S)
  PROVE  Laid(Extended(f, n), s \o message(n), n + 1, S)
<1> DEFINE g == Extended(f, n)
           t == s \o message(n)
<1>1. f \in [0..n -> Int] /\ s \in Seq(Pair) /\ n \in Nat /\ S \in SUBSET (0..(n - 1)) /\ f[n] = Len(s) + 1
  BY DEF Laid
<1>2. /\ message(n) \in Seq(Pair) /\ Len(message(n)) = 1 + len(n)
      /\ \A i \in 1..(1 + len(n)) : message(n)[i] = IF i = 1 THEN delim ELSE <<n, i - 1>>
      /\ len(n) \in Nat \ {0}
  BY <1>1, MessageFacts, LenNat
<1>3. /\ t \in Seq(Pair) /\ Len(t) = Len(s) + 1 + len(n) /\ Len(s) \in Nat
      /\ \A i \in 1..Len(s) : t[i] = s[i]
      /\ \A i \in 1..(1 + len(n)) : t[i + Len(s)] = message(n)[i]
  <2>1. /\ t \in Seq(Pair) /\ Len(t) = Len(s) + Len(message(n)) /\ Len(s) \in Nat
        /\ \A i \in 1..Len(s) : t[i] = s[i]
        /\ \A i \in 1..Len(message(n)) : t[i + Len(s)] = message(n)[i]
    <3> DEFINE m == message(n)
    <3>1. m \in Seq(Pair)
      BY <1>2
    <3> HIDE DEF m
    <3>2. /\ s \o m \in Seq(Pair) /\ Len(s \o m) = Len(s) + Len(m) /\ Len(s) \in Nat
          /\ \A i \in 1..Len(s) : (s \o m)[i] = s[i]
          /\ \A i \in 1..Len(m) : (s \o m)[i + Len(s)] = m[i]
      BY <1>1, <3>1, ConcatFacts
    <3> QED BY <3>2 DEF m
  <2>2. Len(s) + (1 + len(n)) = Len(s) + 1 + len(n)
    BY <1>2, <2>1
  <2> HIDE DEF t
  <2> QED BY <1>2, <2>1, <2>2
<1>4. /\ g \in [0..(n + 1) -> Int]
      /\ \A r \in 0..n : g[r] = f[r]
      /\ g[n + 1] = f[n] + 1 + len(n)
  <2>1. f[n] \in Int
    BY <1>1
  <2> QED BY <1>1, <1>2, <2>1 DEF Extended
<1> HIDE DEF g, t
<1>5. g[n + 1] = Len(t) + 1
  BY <1>1, <1>2, <1>3, <1>4
<1>6. Order(g, n + 1)
  <2> SUFFICES ASSUME NEW a \in 0..(n + 1), NEW b \in 0..(n + 1), a <= b PROVE g[a] <= g[b]
    BY DEF Order
  <2>1. \A x \in 0..n : f[x] <= f[n] /\ f[x] \in Int
    BY <1>1 DEF Laid, Order
  <2>2. CASE b \in 0..n
    <3>1. a \in 0..n
      BY <1>1, <2>2
    <3> QED BY <1>4, <2>2, <3>1 DEF Laid, Order
  <2>3. CASE b = n + 1 /\ a \in 0..n
    BY <1>1, <1>2, <1>4, <2>1, <2>3
  <2>4. CASE b = n + 1 /\ a = n + 1
    BY <1>4, <2>4
  <2> QED BY <1>1, <2>2, <2>3, <2>4
<1>7. Sizes(g, n + 1)
  <2> SUFFICES ASSUME NEW r \in 0..n PROVE g[r + 1] <= g[r] + 1 + len(r)
    BY <1>1 DEF Sizes
  <2>1. CASE r = n
    <3>1. f[n] + 1 + len(n) <= f[n] + 1 + len(n)
      BY <1>1, <1>2
    <3> QED BY <1>1, <1>4, <2>1, <3>1
  <2>2. CASE r # n
    <3>1. r \in 0..(n - 1) /\ r + 1 \in 0..n /\ r \in 0..n
      BY <1>1, <2>2
    <3> QED BY <1>4, <3>1 DEF Laid, Sizes
  <2> QED BY <2>1, <2>2
<1>8. Gaps(g, n + 1, S)
  <2> SUFFICES ASSUME NEW a \in 0..(n + 1), NEW b \in 0..(n + 1), a <= b, \A r \in a..(b - 1) : r \in S
               PROVE  g[a] = g[b]
    BY DEF Gaps
  <2>1. CASE b = n + 1 /\ a # b
    <3>1. n \in a..(b - 1) /\ n \notin S
      BY <1>1, <2>1
    <3> QED BY <3>1
  <2>2. CASE b # n + 1
    <3>1. a \in 0..n /\ b \in 0..n
      BY <1>1, <2>2
    <3>2. f[a] = f[b]
      BY <3>1 DEF Laid, Gaps
    <3> QED BY <1>4, <3>1, <3>2
  <2> QED BY <2>1, <2>2
<1>9. Starts(g, t, n + 1)
  <2> SUFFICES ASSUME NEW b \in 0..(n + 1), g[b] \in 1..Len(t) PROVE t[g[b]] = delim
    BY DEF Starts
  <2>1. b \in 0..n /\ g[b] = f[b] /\ f[b] \in Int
    <3>1. b # n + 1
      BY <1>2, <1>3, <1>5
    <3>2. b \in 0..n
      BY <1>1, <3>1
    <3> QED BY <1>1, <1>4, <3>2
  <2>2. CASE f[b] <= Len(s)
    <3>1. f[b] \in 1..Len(s)
      BY <1>3, <2>1, <2>2
    <3> QED BY <1>3, <2>1, <3>1 DEF Laid, Starts
  <2>3. CASE f[b] > Len(s)
    <3>1. f[b] <= f[n]
      BY <1>1, <2>1 DEF Laid, Order
    <3>2. f[b] = 1 + Len(s)
      BY <1>1, <1>3, <2>1, <2>3, <3>1
    <3>3. t[1 + Len(s)] = message(n)[1] /\ message(n)[1] = delim
      <4>1. 1 \in 1..(1 + len(n))
        BY <1>2
      <4> QED BY <1>2, <1>3, <4>1
    <3> QED BY <2>1, <3>2, <3>3
  <2> QED BY <1>3, <2>1, <2>2, <2>3
<1>10. Contents(g, t, n + 1, S)
  <2> SUFFICES ASSUME NEW i \in 1..Len(t) PROVE \E q \in 0..n : q \notin S /\ Holds(g, t, q, i)
    BY <1>1 DEF Contents
  <2>1. CASE i <= Len(s)
    <3>1. i \in 1..Len(s) /\ t[i] = s[i]
      BY <1>3, <2>1
    <3>2. PICK q \in 0..(n - 1) : q \notin S /\ Holds(f, s, q, i)
      BY <3>1 DEF Laid, Contents
    <3>3. q \in 0..n /\ q + 1 \in 0..n
      BY <1>1
    <3>4. g[q] = f[q] /\ g[q + 1] = f[q + 1]
      BY <1>4, <3>3
    <3> QED BY <3>1, <3>2, <3>3, <3>4 DEF Holds
  <2>2. CASE i > Len(s)
    <3>1. /\ n \in 0..n /\ n \notin S /\ i \in Int /\ g[n] = Len(s) + 1 /\ g[n + 1] = Len(s) + 1 + 1 + len(n)
          /\ i - Len(s) \in 1..(1 + len(n)) /\ (i - Len(s)) + Len(s) = i
      BY <1>1, <1>2, <1>3, <1>4, <2>2
    <3>2. t[i] = IF i - Len(s) = 1 THEN delim ELSE <<n, (i - Len(s)) - 1>>
      BY <1>2, <1>3, <3>1
    <3>3. (i - Len(s)) - 1 = i - g[n] /\ (i - Len(s) = 1 <=> i = g[n]) /\ g[n] <= i /\ i < g[n + 1]
      BY <1>2, <1>3, <3>1
    <3>4. Holds(g, t, n, i)
      BY <3>2, <3>3 DEF Holds
    <3> QED BY <3>1, <3>4
  <2> QED BY <1>3, <2>1, <2>2
<1>11. S \in SUBSET (0..((n + 1) - 1)) /\ n + 1 \in Nat
  BY <1>1
<1> QED BY <1>3, <1>4, <1>5, <1>6, <1>7, <1>8, <1>9, <1>10, <1>11 DEF Laid, g, t

\* A job of k rounds is skipped.
Passed(f, n, k) == [r \in 0..(n + k) |-> IF r <= n THEN f[r] ELSE f[n]]

LEMMA PassLaid ==
  ASSUME NEW f, NEW s, NEW n, NEW S, Laid(f, s, n, S), NEW k \in Nat
  PROVE  Laid(Passed(f, n, k), s, n + k, S \cup (n..(n + k - 1)))
<1> DEFINE g == Passed(f, n, k)
           T == S \cup (n..(n + k - 1))
<1>1. f \in [0..n -> Int] /\ s \in Seq(Pair) /\ n \in Nat /\ S \in SUBSET (0..(n - 1)) /\ f[n] = Len(s) + 1
  BY DEF Laid
<1>2. /\ g \in [0..(n + k) -> Int]
      /\ \A r \in 0..n : g[r] = f[r]
      /\ \A r \in n..(n + k) : g[r] = f[n]
  BY <1>1 DEF Passed
<1>3. Len(s) \in Nat
  BY <1>1, LenProperties
<1> HIDE DEF g
<1>4. g[n + k] = Len(s) + 1
  BY <1>1, <1>2
<1>5. \A x \in 0..n : f[x] <= f[n] /\ f[x] \in Int
  BY <1>1 DEF Laid, Order
<1>6. Order(g, n + k)
  <2> SUFFICES ASSUME NEW a \in 0..(n + k), NEW b \in 0..(n + k), a <= b PROVE g[a] <= g[b]
    BY DEF Order
  <2>1. CASE b <= n
    <3>1. a \in 0..n /\ b \in 0..n
      BY <1>1, <2>1
    <3> QED BY <1>2, <3>1 DEF Laid, Order
  <2>2. CASE b > n
    <3>1. g[b] = f[n] /\ f[n] \in Int
      BY <1>1, <1>2, <2>2
    <3>2. CASE a <= n
      BY <1>1, <1>2, <1>5, <3>1, <3>2
    <3>3. CASE a > n
      BY <1>1, <1>2, <3>1, <3>3
    <3> QED BY <1>1, <3>2, <3>3
  <2> QED BY <1>1, <2>1, <2>2
<1>7. Sizes(g, n + k)
  <2> SUFFICES ASSUME NEW r \in 0..((n + k) - 1) PROVE g[r + 1] <= g[r] + 1 + len(r)
    BY DEF Sizes
  <2>0. len(r) \in Nat
    <3>1. r \in Nat
      BY <1>1
    <3> QED BY <3>1, LenNat
  <2>1. CASE r < n
    <3>1. r \in 0..(n - 1) /\ r \in 0..n /\ r + 1 \in 0..n
      BY <1>1, <2>1
    <3> QED BY <1>2, <3>1 DEF Laid, Sizes
  <2>2. CASE r >= n
    <3>1. r \in n..(n + k) /\ r + 1 \in n..(n + k) /\ f[n] \in Int
      BY <1>1, <2>2
    <3>2. g[r] = f[n] /\ g[r + 1] = f[n]
      BY <1>2, <3>1
    <3> QED BY <2>0, <3>1, <3>2
  <2> QED BY <1>1, <2>1, <2>2
<1>8. Gaps(g, n + k, T)
  <2> SUFFICES ASSUME NEW a \in 0..(n + k), NEW b \in 0..(n + k), a <= b, \A r \in a..(b - 1) : r \in T
               PROVE  g[a] = g[b]
    BY DEF Gaps
  <2>1. CASE a >= n
    <3>1. a \in n..(n + k) /\ b \in n..(n + k)
      BY <1>1, <2>1
    <3> QED BY <1>2, <3>1
  <2>2. CASE a < n
    <3> DEFINE c == IF b <= n THEN b ELSE n
    <3>1. a \in 0..n /\ c \in 0..n /\ a <= c /\ c <= b
      BY <1>1, <2>2
    <3>2. g[b] = f[c]
      BY <1>1, <1>2
    <3>3. \A r \in a..(c - 1) : r \in S
      BY <1>1, <3>1
    <3> HIDE DEF c
    <3>4. f[a] = f[c]
      BY <3>1, <3>3 DEF Laid, Gaps
    <3> QED BY <1>2, <3>1, <3>2, <3>4
  <2> QED BY <1>1, <2>1, <2>2
<1>9. Starts(g, s, n + k)
  <2> SUFFICES ASSUME NEW b \in 0..(n + k), g[b] \in 1..Len(s) PROVE s[g[b]] = delim
    BY DEF Starts
  <2>1. b <= n
    <3>1. ASSUME b > n PROVE FALSE
      <4>1. g[b] = Len(s) + 1
        BY <1>1, <1>2, <3>1
      <4> QED BY <1>3, <4>1
    <3> QED BY <1>1, <3>1
  <2>2. b \in 0..n /\ g[b] = f[b]
    BY <1>1, <1>2, <2>1
  <2> QED BY <2>2 DEF Laid, Starts
<1>10. Contents(g, s, n + k, T)
  <2> SUFFICES ASSUME NEW i \in 1..Len(s) PROVE \E q \in 0..((n + k) - 1) : q \notin T /\ Holds(g, s, q, i)
    BY DEF Contents
  <2>1. PICK q \in 0..(n - 1) : q \notin S /\ Holds(f, s, q, i)
    BY DEF Laid, Contents
  <2>2. q \in 0..n /\ q + 1 \in 0..n /\ q \in 0..((n + k) - 1) /\ q \notin T
    BY <1>1, <2>1
  <2>3. g[q] = f[q] /\ g[q + 1] = f[q + 1]
    BY <1>2, <2>2
  <2> QED BY <2>1, <2>2, <2>3 DEF Holds
<1>11. T \in SUBSET (0..((n + k) - 1)) /\ n + k \in Nat
  BY <1>1
<1> QED BY <1>1, <1>2, <1>4, <1>6, <1>7, <1>8, <1>9, <1>10, <1>11 DEF Laid, g, T

\* The last message is cut off: k tokens are left of the stream.
Cut(f, n, k) == [f EXCEPT ![n] = k + 1]

LEMMA CutLaid ==
  ASSUME NEW f, NEW s, NEW n, NEW S, Laid(f, s, n, S), NEW k \in 0..Len(s),
         n > 0, n - 1 \notin S, f[n - 1] <= k + 1
  PROVE  Laid(Cut(f, n, k), SubSeq(s, 1, k), n, S)
<1> DEFINE g == Cut(f, n, k)
           t == SubSeq(s, 1, k)
<1>1. f \in [0..n -> Int] /\ s \in Seq(Pair) /\ n \in Nat /\ S \in SUBSET (0..(n - 1)) /\ f[n] = Len(s) + 1
  BY DEF Laid
<1>2. /\ g \in [0..n -> Int]
      /\ \A r \in 0..(n - 1) : g[r] = f[r]
      /\ g[n] = k + 1
  BY <1>1 DEF Cut
<1>3. t \in Seq(Pair) /\ Len(t) = k /\ \A i \in 1..k : t[i] = s[i]
  BY <1>1, TakeFacts
<1>4. Len(s) \in Nat /\ k \in Nat /\ k <= Len(s) /\ n - 1 \in 0..n /\ n - 1 \in Nat
  BY <1>1, LenProperties
<1> HIDE DEF g, t
<1>5. g[n] = Len(t) + 1
  BY <1>2, <1>3
<1>6. \A x \in 0..(n - 1) : f[x] <= k + 1 /\ f[x] \in Int
  <2> TAKE x \in 0..(n - 1)
  <2>1. x \in 0..n /\ x <= n - 1
    BY <1>1
  <2>2. f[x] <= f[n - 1]
    BY <1>4, <2>1 DEF Laid, Order
  <2> QED BY <1>1, <1>4, <2>1, <2>2
<1>7. Order(g, n)
  <2> SUFFICES ASSUME NEW a \in 0..n, NEW b \in 0..n, a <= b PROVE g[a] <= g[b]
    BY DEF Order
  <2>1. CASE b = n
    BY <1>1, <1>2, <1>4, <1>6, <2>1
  <2>2. CASE b # n
    <3>1. a \in 0..(n - 1) /\ b \in 0..(n - 1)
      BY <1>1, <2>2
    <3> QED BY <1>2, <3>1 DEF Laid, Order
  <2> QED BY <2>1, <2>2
<1>8. Sizes(g, n)
  <2> SUFFICES ASSUME NEW r \in 0..(n - 1) PROVE g[r + 1] <= g[r] + 1 + len(r)
    BY DEF Sizes
  <2>1. f[r + 1] <= f[r] + 1 + len(r) /\ g[r] = f[r]
    BY <1>2 DEF Laid, Sizes
  <2>2. CASE r + 1 = n
    <3>0. len(r) \in Nat
      <4>1. r \in Nat
        BY <1>1
      <4> QED BY <4>1, LenNat
    <3>1. f[n] \in Int /\ f[r] \in Int /\ len(r) \in Nat
      BY <1>1, <1>4, <3>0
    <3>2. g[r + 1] = k + 1 /\ f[r + 1] = Len(s) + 1
      BY <1>1, <1>2, <2>2
    <3> QED BY <1>4, <2>1, <3>1, <3>2
  <2>3. CASE r + 1 # n
    <3>1. r + 1 \in 0..(n - 1)
      BY <1>1, <2>3
    <3> QED BY <1>2, <2>1, <3>1
  <2> QED BY <2>2, <2>3
<1>9. Gaps(g, n, S)
  <2> SUFFICES ASSUME NEW a \in 0..n, NEW b \in 0..n, a <= b, \A r \in a..(b - 1) : r \in S
               PROVE  g[a] = g[b]
    BY DEF Gaps
  <2>1. CASE b = n /\ a # b
    <3>1. n - 1 \in a..(b - 1)
      BY <1>1, <2>1
    <3> QED BY <3>1
  <2>2. CASE b # n
    <3>1. a \in 0..(n - 1) /\ b \in 0..(n - 1)
      BY <1>1, <2>2
    <3>2. f[a] = f[b]
      BY <3>1 DEF Laid, Gaps
    <3> QED BY <1>2, <3>1, <3>2
  <2> QED BY <2>1, <2>2
<1>10. Starts(g, t, n)
  <2> SUFFICES ASSUME NEW b \in 0..n, g[b] \in 1..Len(t) PROVE t[g[b]] = delim
    BY DEF Starts
  <2>1. b \in 0..(n - 1)
    <3>1. b # n
      BY <1>3, <1>4, <1>5
    <3> QED BY <1>1, <3>1
  <2>2. g[b] = f[b] /\ f[b] \in 1..k /\ f[b] \in 1..Len(s)
    BY <1>2, <1>3, <1>4, <2>1
  <2>3. s[f[b]] = delim
    BY <2>2 DEF Laid, Starts
  <2> QED BY <1>3, <2>2, <2>3
<1>11. Contents(g, t, n, S)
  <2> SUFFICES ASSUME NEW i \in 1..Len(t) PROVE \E q \in 0..(n - 1) : q \notin S /\ Holds(g, t, q, i)
    BY DEF Contents
  <2>1. i \in 1..Len(s) /\ t[i] = s[i] /\ i \in Nat /\ i <= k
    BY <1>3, <1>4
  <2>2. PICK q \in 0..(n - 1) : q \notin S /\ Holds(f, s, q, i)
    BY <2>1 DEF Laid, Contents
  <2>3. g[q] = f[q] /\ i < g[q + 1]
    <3>1. CASE q + 1 = n
      BY <1>2, <1>4, <2>1, <3>1
    <3>2. CASE q + 1 # n
      <4>1. q + 1 \in 0..(n - 1)
        BY <1>1, <3>2
      <4> QED BY <1>2, <2>2, <4>1 DEF Holds
    <3> QED BY <3>1, <3>2
  <2> QED BY <2>1, <2>2, <2>3 DEF Holds
<1> QED BY <1>1, <1>2, <1>3, <1>5, <1>7, <1>8, <1>9, <1>10, <1>11 DEF Laid, g, t

-----------------------------------------------------------------------------
(* What reads and writes do to the stream.                                 *)

\* Concatenation, as a name that is not expanded.
Cat(s, t) == s \o t

LEMMA CatAssociative ==
  ASSUME NEW T, NEW u \in Seq(T), NEW v \in Seq(T), NEW w \in Seq(T)
  PROVE  Cat(Cat(u, v), w) = Cat(u, Cat(v, w))
BY ConcatAssociative DEF Cat

LEMMA CatType ==
  ASSUME NEW T, NEW u \in Seq(T), NEW v \in Seq(T)
  PROVE  Cat(u, v) \in Seq(T)
BY ConcatProperties DEF Cat

\* Tokens that move from the front of b to the end of a.
Moved(a, b, c, n) == (a \o SubSeq(b, 1, n)) \o (SubSeq(b, n + 1, Len(b)) \o c) = a \o (b \o c)

LEMMA MoveFirst ==
  ASSUME NEW T, NEW a \in Seq(T), NEW b \in Seq(T), NEW c \in Seq(T), NEW n \in 1..Len(b)
  PROVE  Moved(a, b, c, n)
<1> DEFINE x == SubSeq(b, 1, n)
           y == SubSeq(b, n + 1, Len(b))
<1>0. Len(b) \in Nat /\ n \in 0..Len(b)
  BY LenProperties
<1>1. x \in Seq(T) /\ y \in Seq(T)
  BY <1>0, TakeFacts, DropFacts
<1>2. x \o y = b
  <2>1. 1 \in 1..(Len(b) + 1) /\ n \in (1 - 1)..Len(b) /\ Len(b) \in n..Len(b)
    BY <1>0
  <2>2. x \o y = SubSeq(b, 1, Len(b))
    BY <2>1, ConcatAdjacentSubSeq
  <2> QED BY <2>2, SubSeqFull
<1>3. Cat(x, y) = b
  BY <1>2 DEF Cat
<1> HIDE DEF x, y
<1>4. Cat(y, c) \in Seq(T)
  BY <1>1, CatType, Zenon
<1>5. Cat(Cat(a, x), Cat(y, c)) = Cat(a, Cat(x, Cat(y, c)))
  BY <1>1, <1>4, CatAssociative
<1>6. Cat(Cat(x, y), c) = Cat(x, Cat(y, c))
  BY <1>1, CatAssociative
<1>7. Cat(Cat(a, x), Cat(y, c)) = Cat(a, Cat(b, c))
  BY <1>3, <1>5, <1>6, Zenon
<1> QED BY <1>7 DEF x, y, Cat, Moved

LEMMA DropFirst ==
  ASSUME NEW T, NEW a \in Seq(T), NEW b \in Seq(T), NEW k \in 0..Len(a)
  PROVE  SubSeq(a, k + 1, Len(a)) \o b = SubSeq(a \o b, k + 1, Len(a \o b))
<1> DEFINE x == SubSeq(a, k + 1, Len(a))
           y == SubSeq(a \o b, k + 1, Len(a \o b))
<1>1. /\ a \o b \in Seq(T) /\ Len(a \o b) = Len(a) + Len(b) /\ Len(a) \in Nat /\ Len(b) \in Nat
      /\ \A i \in 1..Len(a) : (a \o b)[i] = a[i]
      /\ \A i \in 1..Len(b) : (a \o b)[i + Len(a)] = b[i]
  BY ConcatFacts
<1>2. x \in Seq(T) /\ Len(x) = Len(a) - k /\ \A i \in 1..(Len(a) - k) : x[i] = a[i + k]
  BY DropFacts
<1>3. y \in Seq(T) /\ Len(y) = Len(a \o b) - k /\ \A i \in 1..(Len(a \o b) - k) : y[i] = (a \o b)[i + k]
  <2> DEFINE c == a \o b
  <2>1. k \in 0..Len(c) /\ c \in Seq(T)
    BY <1>1
  <2> HIDE DEF c
  <2>2. /\ SubSeq(c, k + 1, Len(c)) \in Seq(T) /\ Len(SubSeq(c, k + 1, Len(c))) = Len(c) - k
        /\ \A i \in 1..(Len(c) - k) : SubSeq(c, k + 1, Len(c))[i] = c[i + k]
    BY <2>1, DropFacts
  <2> QED BY <2>2 DEF c
<1> HIDE DEF x, y
<1>4. /\ x \o b \in Seq(T) /\ Len(x \o b) = Len(x) + Len(b)
      /\ \A i \in 1..Len(x) : (x \o b)[i] = x[i]
      /\ \A i \in 1..Len(b) : (x \o b)[i + Len(x)] = b[i]
  <2>1. x \in Seq(T)
    BY <1>2
  <2> QED BY <2>1, ConcatFacts
<1>5. Len(x \o b) = Len(y)
  BY <1>1, <1>2, <1>3, <1>4
<1>6. ASSUME NEW i \in 1..Len(x \o b) PROVE (x \o b)[i] = y[i]
  <2>0. i \in 1..(Len(a \o b) - k) /\ i \in Nat /\ k \in Nat /\ y[i] = (a \o b)[i + k]
    BY <1>1, <1>3, <1>5
  <2>1. CASE i <= Len(x)
    <3>1. i \in 1..Len(x) /\ i \in 1..(Len(a) - k) /\ i + k \in 1..Len(a)
      BY <1>1, <1>2, <2>0, <2>1
    <3> QED BY <1>1, <1>2, <1>4, <2>0, <3>1
  <2>2. CASE i > Len(x)
    <3> DEFINE j == i - Len(x)
    <3>1. j \in 1..Len(b) /\ j + Len(x) = i /\ j + Len(a) = i + k
      BY <1>1, <1>2, <1>4, <2>0, <2>2
    <3> HIDE DEF j
    <3> QED BY <1>1, <1>4, <2>0, <3>1
  <2> QED BY <1>1, <1>2, <2>0, <2>1, <2>2
<1>7. x \o b = y
  BY <1>3, <1>4, <1>5, <1>6, SeqEqual
<1> QED BY <1>7 DEF x, y

LEMMA CutLast ==
  ASSUME NEW T, NEW a \in Seq(T), NEW b \in Seq(T), NEW c \in Seq(T)
  PROVE  /\ a \o (b \o <<>>) = SubSeq(a \o (b \o c), 1, Len(a) + Len(b))
         /\ Len(a \o (b \o c)) = Len(a) + Len(b) + Len(c)
         /\ Len(a) + Len(b) \in 0..Len(a \o (b \o c))
<1>0. b \o <<>> = b
  BY ConcatEmptySeq
<1> DEFINE d == a \o b
           e == a \o (b \o c)
<1>1. e = d \o c
  BY ConcatAssociative
<1>2. d \in Seq(T) /\ Len(d) = Len(a) + Len(b) /\ Len(a) \in Nat /\ Len(b) \in Nat
  BY ConcatFacts
<1> HIDE DEF d, e
<1>3. /\ e \in Seq(T) /\ Len(e) = Len(d) + Len(c) /\ Len(c) \in Nat
      /\ \A i \in 1..Len(d) : e[i] = d[i]
  <2>1. d \in Seq(T)
    BY <1>2
  <2>2. /\ d \o c \in Seq(T) /\ Len(d \o c) = Len(d) + Len(c) /\ Len(c) \in Nat
        /\ \A i \in 1..Len(d) : (d \o c)[i] = d[i]
    BY <2>1, ConcatFacts
  <2> QED BY <1>1, <2>2
<1>4. Len(d) \in 0..Len(e)
  BY <1>2, <1>3
<1> DEFINE x == SubSeq(e, 1, Len(d))
<1>5. x \in Seq(T) /\ Len(x) = Len(d) /\ \A i \in 1..Len(d) : x[i] = e[i]
  BY <1>3, <1>4, TakeFacts
<1> HIDE DEF x
<1>6. d = x
  BY <1>2, <1>3, <1>5, SeqEqual
<1>7. Len(e) = Len(a) + Len(b) + Len(c)
  BY <1>2, <1>3
<1> QED BY <1>0, <1>2, <1>4, <1>6, <1>7 DEF d, e, x

-----------------------------------------------------------------------------
(* Types and control.                                                      *)

LEMMA TokenFacts ==
  ASSUME NEW r \in 0..(LastRound + max_rounds)
  PROVE  message(r) \in Seq(Token)
<1>0. r \in Nat
  BY StreamAssumption
<1>1. /\ message(r) \in Seq(Pair) /\ Len(message(r)) = 1 + len(r) /\ len(r) \in Nat
      /\ \A i \in 1..(1 + len(r)) : message(r)[i] = IF i = 1 THEN delim ELSE <<r, i - 1>>
  BY <1>0, MessageFacts, LenNat
<1>2. delim \in Token
  BY DEF Token
<1>3. \A i \in 1..len(r) : <<r, i>> \in Token
  BY DEF Token
<1>4. ASSUME NEW i \in 1..(1 + len(r)) PROVE message(r)[i] \in Token
  <2>1. CASE i = 1
    BY <1>1, <1>2, <2>1
  <2>2. CASE i # 1
    <3>1. i - 1 \in 1..len(r)
      BY <1>1, <2>2
    <3> QED BY <1>1, <1>3, <2>2, <3>1
  <2> QED BY <2>1, <2>2
<1>5. message(r) \in [1..(1 + len(r)) -> Token]
  <2>1. message(r) \in [1..(1 + len(r)) -> Pair]
    BY <1>1, LenProperties
  <2> QED BY <1>4, <2>1
<1>6. 1 + len(r) \in Nat
  BY <1>1
<1> QED BY <1>5, <1>6, SeqDef

LEMMA TokenPair == Token \subseteq Pair
BY StreamAssumption DEF Token, Pair, delim

\* Remainders in size_t.
LEMMA WordMod ==
  ASSUME NEW x \in Int
  PROVE  /\ x % WordSize \in 0..(WordSize - 1)
         /\ x >= 0 /\ x < WordSize => x % WordSize = x
<1>1. WordSize \in Nat \ {0}
  <2>1. /\ max_rounds \in Nat \ {0} /\ NodesIn[1] \in Nat /\ Window \in Nat /\ LastRound \in Nat
        /\ WordSize \in Nat /\ WordSize > 2 * (NodesIn[1] + Window) * (LastRound + 1)
    BY StreamAssumption
  <2>2. \A b, c \in Nat : 2 * b * (c + 1) \in Nat
    BY Z3
  <2>3. 2 * (NodesIn[1] + Window) * (LastRound + 1) \in Nat
    BY <2>1, <2>2
  <2> QED BY <2>1, <2>3
<1>2. \A y \in Int, w \in Nat \ {0} : y % w \in 0..(w - 1) /\ (y >= 0 /\ y < w => y % w = y)
  BY Z3
<1> QED BY <1>1, <1>2

\* No message is as long as the range of size_t.
LEMMA LenBelowWord == ASSUME NEW r \in Nat PROVE len(r) < WordSize
<1>1. (r % max_rounds) + 1 \in 1..max_rounds
  BY RoundsNat, Z3
<1>2. /\ len(r) \in Nat /\ Window \in Nat /\ LastRound \in Nat /\ WordSize \in Nat
      /\ WordSize > 2 * (len(r) + Window) * (LastRound + 1)
  BY <1>1, StreamAssumption DEF len
<1>3. \A a, b, c \in Nat : a <= 2 * (a + b) * (c + 1) /\ 2 * (a + b) * (c + 1) \in Nat
  <2> TAKE a, b, c \in Nat
  <2>1. 2 * (a + b) * (c + 1) = 2 * (a + b) + 2 * ((a + b) * c)
    BY Z3
  <2>2. (a + b) * c \in Nat
    BY Z3
  <2> QED BY <2>1, <2>2
<1>4. len(r) <= 2 * (len(r) + Window) * (LastRound + 1) /\ 2 * (len(r) + Window) * (LastRound + 1) \in Nat
  BY <1>2, <1>3
<1> QED BY <1>2, <1>4

\* The variables that are not sequences.
Scalars ==
  /\ sent \in 0..(LastRound + max_rounds)
  /\ silent \in SUBSET (0..(sent - 1))
  /\ round \in 0..LastRound
  /\ op \in {"until", "exact", "off"}
  /\ want \in 0..(WordSize - 1)
  /\ timeout \in BOOLEAN /\ cancelled \in BOOLEAN
  /\ slips \in Nat /\ skips \in Nat

Buffers == out \in Seq(Token) /\ wire \in Seq(Token) /\ buf \in Seq(Token) /\ took \in Seq(Token)

\* The second read asks for what is missing, unless there is too much.
Asked == op = "exact" /\ Len(buf) <= len(round) => want = len(round) - Len(buf)

\* Skipped jobs are skipped as a whole, and the peer is in no later job than the
\* reader.
Jobs ==
  /\ \A r \in silent : \A q \in Nat : Job(q) = Job(r) => q \in silent
  /\ \A r \in 0..(sent - 1) : Job(r) <= Job(Cur)

CInv ==
  /\ Scalars /\ Buffers /\ Asked /\ Jobs
  /\ Len(took) <= len(round)
  /\ cancelled => timeout /\ op # "off"
  /\ round - max_rounds * skips \in Nat

LEMMA Constants ==
  /\ max_rounds \in Nat \ {0} /\ LastRound \in Nat /\ MaxSlips \in Nat /\ MaxSkips \in Nat
  /\ Window \in Nat /\ WordSize \in Nat
BY StreamAssumption

LEMMA InitCInv == Init => CInv
<1> SUFFICES ASSUME Init PROVE CInv
  OBVIOUS
<1>1. Scalars /\ Buffers
  <2>1. 0 \in 0..(WordSize - 1)
    <3>1. 0 % WordSize \in 0..(WordSize - 1)
      BY WordMod
    <3> QED BY <3>1, Constants
  <2>2. Scalars
    <3>1. /\ sent = 0 /\ silent = {} /\ round = 0 /\ op = "until" /\ want = 0 /\ slips = 0 /\ skips = 0
          /\ timeout \in BOOLEAN /\ cancelled \in BOOLEAN
      BY DEF Init
    <3> QED BY <2>1, <3>1, Constants DEF Scalars
  <2>3. Buffers
    BY DEF Init, Buffers
  <2> QED BY <2>2, <2>3
<1>2. Asked /\ Jobs
  BY DEF Init, Asked, Jobs
<1>3. len(round) \in Nat /\ Len(took) = 0
  BY LenNat DEF Init
<1>4. round - max_rounds * skips \in Nat
  BY Constants DEF Init
<1> QED BY <1>1, <1>2, <1>3, <1>4 DEF Init, CInv

LEMMA SendCInv == ASSUME CInv, PeerSend PROVE CInv'
<1>0. sent \in Nat /\ sent <= LastRound /\ Job(sent) <= Job(Cur)
  BY Constants DEF CInv, Scalars, PeerSend, Released, Job, Cur
<1>1. Scalars'
  BY <1>0, Constants DEF CInv, Scalars, PeerSend, history
<1>2. Buffers'
  <2>1. sent \in 0..(LastRound + max_rounds)
    BY DEF CInv, Scalars
  <2>2. message(sent) \in Seq(Token)
    BY <2>1, TokenFacts
  <2> QED BY <2>2 DEF CInv, Buffers, PeerSend
<1>3. Asked' /\ Cur' = Cur
  BY DEF CInv, Asked, PeerSend, Cur
<1>4. Jobs'
  <2>1. sent' = sent + 1 /\ silent' = silent
    BY DEF PeerSend
  <2>2. \A r \in 0..((sent + 1) - 1) : Job(r) <= Job(Cur)
    BY <1>0 DEF CInv, Jobs
  <2> QED BY <1>3, <2>1, <2>2 DEF CInv, Jobs, Job
<1> QED BY <1>1, <1>2, <1>3, <1>4 DEF CInv, PeerSend, history

LEMMA WriteCInv == ASSUME CInv, NEW n \in 1..Len(out), PeerWrite(n) PROVE CInv'
<1>1. n \in 0..Len(out) /\ out \in Seq(Token) /\ wire \in Seq(Token)
  BY LenProperties DEF CInv, Buffers
<1>2. SubSeq(out, 1, n) \in Seq(Token) /\ SubSeq(out, n + 1, Len(out)) \in Seq(Token)
  BY <1>1, TakeFacts, DropFacts
<1>3. wire' \in Seq(Token) /\ out' \in Seq(Token)
  <2>1. wire' = Cat(wire, SubSeq(out, 1, n)) /\ out' = SubSeq(out, n + 1, Len(out))
    BY DEF PeerWrite, Cat
  <2> QED BY <1>1, <1>2, <2>1, CatType
<1>4. Buffers'
  BY <1>3 DEF CInv, Buffers, PeerWrite
<1>5. Scalars' /\ Asked' /\ Jobs'
  BY DEF CInv, Scalars, Asked, Jobs, Cur, PeerWrite, history
<1> QED BY <1>4, <1>5 DEF CInv, PeerWrite, history

LEMMA GiveUpCInv == ASSUME CInv, PeerGivesUp PROVE CInv'
<1>1. Buffers'
  BY DEF CInv, Buffers, PeerGivesUp
<1>2. Scalars' /\ Asked' /\ Jobs'
  BY DEF CInv, Scalars, Asked, Jobs, Cur, PeerGivesUp
<1> QED BY <1>1, <1>2 DEF CInv, PeerGivesUp

LEMMA SkipPeerCInv == ASSUME CInv, PeerSkipsJob PROVE CInv'
<1>0. sent \in Nat /\ sent <= LastRound /\ Job(sent) <= Job(Cur) /\ sent % max_rounds = 0
  BY Constants DEF CInv, Scalars, PeerSkipsJob, Released, Job, Cur
<1>1. sent' = sent + max_rounds /\ silent' = silent \cup (sent..(sent + max_rounds - 1)) /\ Cur' = Cur
  BY DEF PeerSkipsJob, Cur
<1>2. Scalars'
  <2>1. sent + max_rounds \in 0..(LastRound + max_rounds)
    BY <1>0, Constants
  <2>2. silent \cup (sent..(sent + max_rounds - 1)) \in SUBSET (0..((sent + max_rounds) - 1))
    BY <1>0, Constants DEF CInv, Scalars
  <2> QED BY <1>1, <2>1, <2>2 DEF CInv, Scalars, PeerSkipsJob, history
<1>3. Buffers' /\ Asked'
  BY DEF CInv, Buffers, Asked, PeerSkipsJob
<1>4. Jobs'
  <2>1. ASSUME NEW q \in Nat PROVE Job(q) = Job(sent) <=> q \in sent..(sent + max_rounds - 1)
    BY <1>0, WholeJob
  <2>2. ASSUME NEW r \in silent', NEW q \in Nat, Job(q) = Job(r) PROVE q \in silent'
    <3>1. CASE r \in silent
      BY <1>1, <2>2, <3>1 DEF CInv, Jobs
    <3>2. CASE r \in sent..(sent + max_rounds - 1)
      <4>1. r \in Nat
        BY <1>0, <3>2
      <4> QED BY <1>1, <2>1, <2>2, <3>2, <4>1
    <3> QED BY <1>1, <3>1, <3>2
  <2>3. ASSUME NEW r \in 0..(sent' - 1) PROVE Job(r) <= Job(Cur)
    <3>1. CASE r < sent
      BY <1>0, <3>1 DEF CInv, Jobs
    <3>2. CASE r >= sent
      <4>1. r \in Nat /\ r \in sent..(sent + max_rounds - 1)
        BY <1>0, <1>1, <3>2, Constants
      <4> QED BY <1>0, <2>1, <4>1
    <3> QED BY <1>0, <3>1, <3>2
  <2> QED BY <1>1, <2>2, <2>3 DEF Jobs, Job
<1> QED BY <1>2, <1>3, <1>4 DEF CInv, PeerSkipsJob, history

LEMMA ReadCInv == ASSUME CInv, NEW n \in 1..Len(wire), ReadSome(n) PROVE CInv'
<1>1. n \in 0..Len(wire) /\ wire \in Seq(Token) /\ buf \in Seq(Token) /\ n \in Nat \ {0}
  BY LenProperties DEF CInv, Buffers
<1>2. SubSeq(wire, 1, n) \in Seq(Token) /\ SubSeq(wire, n + 1, Len(wire)) \in Seq(Token) /\ Len(SubSeq(wire, 1, n)) = n
  BY <1>1, TakeFacts, DropFacts
<1>3. buf' \in Seq(Token) /\ wire' \in Seq(Token) /\ Len(buf') = Len(buf) + n /\ Len(buf) \in Nat
  <2> DEFINE x == SubSeq(wire, 1, n)
  <2>1. buf' = buf \o x /\ wire' = SubSeq(wire, n + 1, Len(wire))
    BY DEF ReadSome
  <2>2. x \in Seq(Token) /\ Len(x) = n
    BY <1>2
  <2> HIDE DEF x
  <2>3. buf \o x \in Seq(Token) /\ Len(buf \o x) = Len(buf) + Len(x) /\ Len(buf) \in Nat
    <3>1. x \in Seq(Token)
      BY <2>2
    <3> QED BY <1>1, <3>1, ConcatFacts
  <2> QED BY <1>2, <2>1, <2>2, <2>3
<1>4. Buffers'
  BY <1>3 DEF CInv, Buffers, ReadSome, peerVars
<1>5. /\ UNCHANGED <<sent, silent, out, round, op, timeout, took, slips, lastSlip, skips>>
      /\ want' = IF op = "exact" THEN want - n ELSE want
      /\ op = "exact" => n <= want
      /\ cancelled' \in BOOLEAN /\ (cancelled' => timeout) /\ op # "off"
  BY DEF ReadSome, CancelIfLate, Complete, peerVars, history, CInv, Scalars
<1>6. Scalars'
  <2>1. want' \in 0..(WordSize - 1)
    BY <1>1, <1>5, Constants DEF CInv, Scalars
  <2> QED BY <1>5, <2>1 DEF CInv, Scalars
<1>7. Asked'
  <2> SUFFICES ASSUME op = "exact", Len(buf') <= len(round) PROVE want' = len(round) - Len(buf')
    BY <1>5 DEF Asked, len
  <2>1. len(round) \in Nat /\ want \in Nat
    BY LenNat, Constants DEF CInv, Scalars
  <2>2. want = len(round) - Len(buf)
    BY <1>1, <1>3, <2>1 DEF CInv, Asked
  <2> QED BY <1>1, <1>3, <1>5, <2>1, <2>2
<1>8. Jobs'
  BY <1>5 DEF CInv, Jobs, Cur, Job
<1> QED BY <1>4, <1>5, <1>6, <1>7, <1>8 DEF CInv, len

\* The first handler starts the second read with b left in the buffer.
LEMMA StartCInv ==
  ASSUME CInv, NEW b \in Seq(Token), op # "off", Start(b), UNCHANGED <<peerVars, wire, round, timeout, took, history>>
  PROVE  CInv'
<1>1. /\ UNCHANGED <<sent, silent, out, wire, round, timeout, took, slips, lastSlip, skips>>
      /\ op' = "exact" /\ buf' = b /\ want' = (len(round) - Len(b)) % WordSize
      /\ cancelled' \in BOOLEAN /\ (cancelled' => timeout)
  BY DEF Start, CancelIfLate, peerVars, history, CInv, Scalars
<1>2. len(round) \in Nat /\ Len(b) \in Nat /\ len(round) < WordSize
  BY LenNat, LenProperties, LenBelowWord DEF CInv, Scalars
<1>3. want' \in 0..(WordSize - 1) /\ (Len(b) <= len(round) => want' = len(round) - Len(b))
  <2>1. len(round) - Len(b) \in Int
    BY <1>2
  <2>2. Len(b) <= len(round) => len(round) - Len(b) >= 0 /\ len(round) - Len(b) < WordSize
    BY <1>2, Constants
  <2> QED BY <1>1, <2>1, <2>2, WordMod
<1>4. Scalars'
  BY <1>1, <1>3 DEF CInv, Scalars
<1>5. Buffers'
  BY <1>1 DEF CInv, Buffers
<1>6. Asked' /\ len(round)' = len(round)
  BY <1>1, <1>3 DEF Asked, len
<1>7. Jobs'
  BY <1>1 DEF CInv, Jobs, Cur, Job
<1> QED BY <1>1, <1>4, <1>5, <1>6, <1>7 DEF CInv

\* Position n of the first delimiter in the buffer.
First(n) == n \in DOMAIN buf /\ buf[n] = delim /\ \A j \in 1..(n - 1) : buf[j] # delim

LEMMA FirstFound ==
  ASSUME CInv, Found
  PROVE  First(CHOOSE i \in DOMAIN buf : buf[i] = delim /\ \A j \in 1..(i - 1) : buf[j] # delim)
<1> DEFINE D == {i \in DOMAIN buf : buf[i] = delim}
<1>1. DOMAIN buf = 1..Len(buf) /\ Len(buf) \in Nat
  BY LenProperties DEF CInv, Buffers
<1>2. D \in SUBSET Nat /\ D # {}
  BY <1>1 DEF Found
<1>3. PICK m \in D : \A n \in D : m <= n
  BY <1>2, LeastNatural
<1>4. m \in DOMAIN buf /\ buf[m] = delim /\ \A j \in 1..(m - 1) : buf[j] # delim
  <2>1. m \in 1..Len(buf) /\ buf[m] = delim
    BY <1>1
  <2>2. ASSUME NEW j \in 1..(m - 1), buf[j] = delim PROVE FALSE
    <3>1. j \in D /\ j < m
      BY <1>1, <2>1, <2>2
    <3> QED BY <1>2, <1>3, <3>1
  <2> QED BY <1>1, <2>1, <2>2
<1> QED BY <1>4 DEF First

LEMMA FoundStep ==
  ASSUME CInv, UntilFound
  PROVE  \E n \in 1..Len(buf) : First(n) /\ Start(SubSeq(buf, n + 1, Len(buf)))
<1> DEFINE n == CHOOSE i \in DOMAIN buf : buf[i] = delim /\ \A j \in 1..(i - 1) : buf[j] # delim
<1>1. First(n)
  BY FirstFound DEF UntilFound
<1>2. Start(SubSeq(buf, n + 1, Len(buf)))
  BY DEF UntilFound
<1>3. n \in 1..Len(buf)
  BY <1>1, LenProperties DEF First, CInv, Buffers
<1> HIDE DEF n
<1> QED BY <1>1, <1>2, <1>3

LEMMA FoundCInv == ASSUME CInv, UntilFound PROVE CInv'
<1>1. PICK n \in 1..Len(buf) : Start(SubSeq(buf, n + 1, Len(buf)))
  BY FoundStep
<1>2. SubSeq(buf, n + 1, Len(buf)) \in Seq(Token)
  <2>1. n \in 0..Len(buf) /\ buf \in Seq(Token)
    BY LenProperties DEF CInv, Buffers
  <2> QED BY <2>1, DropFacts
<1>3. op # "off" /\ UNCHANGED <<peerVars, wire, round, timeout, took, history>>
  BY DEF UntilFound
<1> DEFINE b == SubSeq(buf, n + 1, Len(buf))
<1>4. b \in Seq(Token) /\ Start(b)
  BY <1>1, <1>2
<1> HIDE DEF b
<1> QED BY <1>3, <1>4, StartCInv

LEMMA UntilCancelledCInv == ASSUME CInv, UntilCancelled PROVE CInv'
<1>1. op # "off" /\ Start(buf) /\ UNCHANGED <<peerVars, wire, round, timeout, took, history>> /\ buf \in Seq(Token)
  BY DEF UntilCancelled, CInv, Buffers
<1> QED BY <1>1, StartCInv

\* How many nodes the second handler takes.
Taken == IF Len(buf) < len(round) THEN Len(buf) ELSE len(round)

LEMMA ExactStep ==
  ASSUME CInv, ExactHandler
  PROVE  /\ Taken \in 0..Len(buf) /\ Taken \in Nat /\ Taken <= len(round) /\ len(round) \in Nat /\ Len(buf) \in Nat
         /\ took' = SubSeq(buf, 1, Taken) /\ took' \in Seq(Token) /\ Len(took') = Taken
         /\ \A i \in 1..Taken : took'[i] = buf[i]
         /\ buf' = SubSeq(buf, Taken + 1, Len(buf)) /\ buf' \in Seq(Token)
         /\ op = "exact" /\ op' = "off" /\ want' = 0 /\ cancelled' = FALSE
         /\ UNCHANGED <<sent, silent, out, wire, round, timeout, slips, lastSlip, skips>>
<1>1. len(round) \in Nat /\ Len(buf) \in Nat /\ buf \in Seq(Token)
  BY LenNat, LenProperties DEF CInv, Scalars, Buffers
<1>2. Taken \in 0..Len(buf) /\ Taken \in Nat /\ Taken <= len(round)
  BY <1>1 DEF Taken
<1>3. /\ took' = SubSeq(buf, 1, Taken) /\ buf' = SubSeq(buf, Taken + 1, Len(buf))
      /\ op = "exact" /\ op' = "off" /\ want' = 0 /\ cancelled' = FALSE
      /\ UNCHANGED <<sent, silent, out, wire, round, timeout, slips, lastSlip, skips>>
  BY DEF ExactHandler, Taken, peerVars, history
<1> DEFINE k == Taken
<1>4. k \in 0..Len(buf)
  BY <1>2
<1> HIDE DEF k
<1>5. /\ SubSeq(buf, 1, k) \in Seq(Token) /\ Len(SubSeq(buf, 1, k)) = k
      /\ \A i \in 1..k : SubSeq(buf, 1, k)[i] = buf[i]
      /\ SubSeq(buf, k + 1, Len(buf)) \in Seq(Token)
  BY <1>1, <1>4, TakeFacts, DropFacts
<1> QED BY <1>1, <1>2, <1>3, <1>5 DEF k

LEMMA CurStep ==
  ASSUME CInv, Jobs, Cur' \in Nat, Cur' >= Cur, UNCHANGED <<sent, silent>>
  PROVE  Jobs'
<1>1. Cur \in Nat
  BY DEF Cur, CInv, Scalars
<1>2. Job(Cur) <= Job(Cur') /\ Job(Cur) \in Nat /\ Job(Cur') \in Nat
  BY <1>1, JobOrder, JobNat
<1>3. ASSUME NEW r \in 0..(sent - 1) PROVE Job(r) <= Job(Cur')
  <2>1. Job(r) <= Job(Cur)
    BY DEF Jobs
  <2>2. Job(r) \in Nat
    <3>1. r \in Nat
      BY DEF CInv, Scalars
    <3> QED BY <3>1, JobNat
  <2> QED BY <1>2, <2>1, <2>2
<1> QED BY <1>3 DEF Jobs, Job

LEMMA ExactCInv == ASSUME CInv, ExactHandler PROVE CInv'
<1>1. /\ Taken <= len(round) /\ Taken \in Nat
      /\ took' \in Seq(Token) /\ Len(took') = Taken /\ buf' \in Seq(Token)
      /\ op = "exact" /\ op' = "off" /\ want' = 0 /\ cancelled' = FALSE
      /\ UNCHANGED <<sent, silent, out, wire, round, timeout, slips, lastSlip, skips>>
  BY ExactStep
<1>2. 0 \in 0..(WordSize - 1)
  BY Constants DEF CInv, Scalars
<1>3. Scalars' /\ Buffers' /\ Asked' /\ Len(took') <= len(round)' /\ Cur' = Cur + 1 /\ Cur \in Nat
  <2>1. Scalars' /\ Asked'
    BY <1>1, <1>2 DEF CInv, Scalars, Asked
  <2>2. Buffers'
    BY <1>1 DEF CInv, Buffers
  <2>3. Len(took') <= len(round)'
    BY <1>1 DEF len
  <2>4. Cur' = Cur + 1 /\ Cur \in Nat
    BY <1>1 DEF CInv, Scalars, Cur
  <2> QED BY <2>1, <2>2, <2>3, <2>4
<1>4. Jobs'
  BY <1>1, <1>3, CurStep DEF CInv
<1> QED BY <1>1, <1>3, <1>4 DEF CInv

LEMMA TimerCInv == ASSUME CInv, TimerFires PROVE CInv'
<1>1. /\ UNCHANGED <<sent, silent, out, wire, buf, round, op, want, took, skips>>
      /\ timeout' = TRUE /\ cancelled' = TRUE /\ op # "off" /\ slips' \in Nat
  BY DEF TimerFires, peerVars, Complete, CInv, Scalars
<1>2. Scalars' /\ Buffers' /\ Asked' /\ Jobs' /\ len(round)' = len(round)
  BY <1>1 DEF CInv, Scalars, Buffers, Asked, Jobs, Cur, Job, len
<1> QED BY <1>1, <1>2 DEF CInv

LEMMA NextRoundCInv ==
  ASSUME CInv, NEW r \in Nat, r >= round + 1, NextRound(r), skips' \in Nat, r - max_rounds * skips' \in Nat
  PROVE  CInv'
<1>1. /\ UNCHANGED <<sent, silent, out, wire, buf, want, cancelled, slips, lastSlip>>
      /\ op = "off" /\ op' = "until" /\ timeout' = FALSE /\ took' = <<>> /\ round' = r /\ r <= LastRound
  BY DEF NextRound, peerVars
<1>2. Scalars' /\ Buffers' /\ Asked' /\ ~ cancelled
  <2>0. timeout' \in BOOLEAN /\ cancelled' \in BOOLEAN /\ ~ cancelled
    BY <1>1 DEF CInv, Scalars
  <2>1. Scalars' /\ Asked' /\ ~ cancelled
    BY <1>1, <2>0, Constants DEF CInv, Scalars, Asked
  <2>2. Buffers'
    BY <1>1 DEF CInv, Buffers
  <2> QED BY <2>1, <2>2
<1>3. Cur \in Nat /\ Cur' \in Nat /\ Cur' >= Cur
  BY <1>1 DEF Cur, CInv, Scalars
<1>4. Jobs'
  BY <1>1, <1>3, CurStep DEF CInv
<1>5. Len(took') <= len(round)'
  <2>1. len(r) \in Nat /\ Len(took') = 0 /\ len(round)' = len(r)
    BY <1>1, LenNat DEF len
  <2> QED BY <2>1
<1> QED BY <1>1, <1>2, <1>4, <1>5 DEF CInv

LEMMA AdvanceCInv == ASSUME CInv, Advance PROVE CInv'
<1>1. round \in Nat /\ skips \in Nat /\ round - max_rounds * skips \in Nat /\ skips' = skips /\ NextRound(round + 1)
  BY DEF CInv, Scalars, Advance
<1>2. (round + 1) - max_rounds * skips' \in Nat
  <2>1. max_rounds * skips \in Nat
    BY <1>1, RoundsNat, Z3
  <2> QED BY <1>1, <2>1
<1>3. round + 1 \in Nat /\ round + 1 >= round + 1
  BY <1>1
<1> QED BY <1>1, <1>2, <1>3, NextRoundCInv

\* A skipped job moves the reader by one job, its history included.
LEMMA SkipArithmetic ==
  ASSUME CInv
  PROVE  /\ (round + 1 + max_rounds) - max_rounds * (skips + 1) = (round - max_rounds * skips) + 1
         /\ (round + 1 + max_rounds) - max_rounds * (skips + 1) \in Nat
<1>1. round \in Nat /\ skips \in Nat /\ round - max_rounds * skips \in Nat /\ max_rounds \in Nat
  BY Constants DEF CInv, Scalars
<1>2. max_rounds * (skips + 1) = max_rounds * skips + max_rounds /\ max_rounds * skips \in Nat
  BY <1>1, Z3
<1> QED BY <1>1, <1>2

LEMMA SkipCInv == ASSUME CInv, SkipJob PROVE CInv'
<1>1. round \in Nat /\ skips \in Nat /\ skips' = skips + 1 /\ NextRound(round + 1 + max_rounds)
  BY DEF CInv, Scalars, SkipJob
<1>2. (round + 1 + max_rounds) - max_rounds * skips' \in Nat
  BY <1>1, SkipArithmetic
<1>3. round + 1 + max_rounds \in Nat /\ round + 1 + max_rounds >= round + 1 /\ skips' \in Nat
  BY <1>1, RoundsNat
<1> QED BY <1>1, <1>2, <1>3, NextRoundCInv

LEMMA StutterCInv == ASSUME CInv, UNCHANGED vars PROVE CInv'
<1>1. Scalars' /\ Buffers' /\ Asked' /\ Jobs'
  BY DEF CInv, Scalars, Buffers, Asked, Jobs, Cur, Job, len, vars
<1> QED BY <1>1 DEF CInv, len, vars

LEMMA StepCInv == ASSUME CInv, [Next]_vars PROVE CInv'
<1>1. CASE Finished \/ UNCHANGED vars
  BY <1>1, StutterCInv DEF Finished
<1> QED
  BY <1>1, SendCInv, WriteCInv, GiveUpCInv, SkipPeerCInv, ReadCInv, FoundCInv, UntilCancelledCInv,
     ExactCInv, TimerCInv, AdvanceCInv, SkipCInv DEF Next, Read

\* Wherever the peer is in its writes and the reader in its two chained reads,
\* buffers hold tokens that were sent, what a round has taken fits into its
\* receive buffers, and a pending read asks for what Start computed.
THEOREM ControlInvariant == Spec => []CInv
BY InitCInv, StepCInv, PTL DEF Spec

LEMMA CInvTypeOK == CInv => TypeOK
<1> SUFFICES ASSUME CInv PROVE TypeOK
  OBVIOUS
<1>1. silent \subseteq 0..(LastRound + max_rounds)
  BY Constants DEF CInv, Scalars
<1>2. \A s \in {out, wire, buf, took} : Range(s) \subseteq Token
  BY RangeOfSeq DEF CInv, Buffers
<1> QED BY <1>1, <1>2 DEF TypeOK, CInv, Scalars

\* The buffers of a connection hold delimiters and nodes that were sent, and a
\* round never takes more nodes than there are receive buffers, for all shapes
\* of messages, windows, timeouts and skipped jobs.
THEOREM StreamTypes == Spec => []TypeOK
BY ControlInvariant, CInvTypeOK, PTL

-----------------------------------------------------------------------------
(* The stream of the connection.                                           *)

\* f lays out the stream; the message that is being written is not cut.
Streamed(f) ==
  /\ Laid(f, Stream, sent, silent)
  /\ out # <<>> => /\ sent > 0 /\ sent - 1 \notin silent /\ Whole(f, sent - 1)
                   /\ Len(out) <= 1 + len(sent - 1)

LEMMA StreamFacts ==
  ASSUME CInv
  PROVE  /\ out \in Seq(Pair) /\ wire \in Seq(Pair) /\ buf \in Seq(Pair) /\ Stream \in Seq(Pair)
         /\ Len(buf) \in Nat /\ Len(wire) \in Nat /\ Len(out) \in Nat
         /\ Len(Stream) = Len(buf) + Len(wire) + Len(out) /\ Len(Stream) \in Nat
         /\ \A i \in 1..Len(buf) : Stream[i] = buf[i]
<1>1. out \in Seq(Pair) /\ wire \in Seq(Pair) /\ buf \in Seq(Pair)
  BY TokenPair, SeqMonotonic DEF CInv, Buffers
<1>2. Len(buf) \in Nat /\ Len(wire) \in Nat /\ Len(out) \in Nat
  BY <1>1, LenProperties
<1>3. PICK x \in Seq(Pair) : x = wire \o out /\ Len(x) = Len(wire) + Len(out)
  BY <1>1, ConcatProperties
<1>4. /\ buf \o x \in Seq(Pair) /\ Len(buf \o x) = Len(buf) + Len(x)
      /\ \A i \in 1..Len(buf) : (buf \o x)[i] = buf[i]
  <2>1. buf \in Seq(Pair)
    BY <1>1
  <2> QED BY <2>1, ConcatFacts
<1>5. Stream = buf \o x
  BY <1>3 DEF Stream
<1>6. Len(Stream) = Len(buf) + Len(wire) + Len(out) /\ Len(Stream) \in Nat
  BY <1>2, <1>3, <1>4, <1>5
<1> QED BY <1>1, <1>2, <1>4, <1>5, <1>6

LEMMA SendStreamed ==
  ASSUME CInv, NEW f, Streamed(f), PeerSend
  PROVE  \E g : g = Extended(f, sent) /\ Streamed(g)'
<1>1. /\ out = <<>> /\ out' = message(sent) /\ sent' = sent + 1 /\ silent' = silent
      /\ wire' = wire /\ buf' = buf /\ sent \in Nat /\ silent \in SUBSET (0..(sent - 1))
  BY DEF PeerSend, CInv, Scalars
<1>2. /\ message(sent) \in Seq(Pair) /\ Len(message(sent)) = 1 + len(sent) /\ len(sent) \in Nat
  BY <1>1, MessageFacts, LenNat
<1>3. wire \in Seq(Pair) /\ buf \in Seq(Pair)
  BY StreamFacts
<1>4. Stream' = Stream \o message(sent)
  <2>1. Stream = Cat(buf, wire)
    <3>1. wire \o <<>> = wire
      BY <1>3, ConcatEmptySeq
    <3> QED BY <1>1, <3>1 DEF Stream, Cat
  <2>2. Stream' = Cat(buf, Cat(wire, message(sent)))
    BY <1>1 DEF Stream, Cat
  <2>3. Cat(Cat(buf, wire), message(sent)) = Cat(buf, Cat(wire, message(sent)))
    BY <1>2, <1>3, CatAssociative
  <2>4. Stream' = Cat(Stream, message(sent))
    BY <2>1, <2>2, <2>3
  <2> QED BY <2>4 DEF Cat
<1>g. PICK g : g = Extended(f, sent)
  OBVIOUS
<1>5. Laid(g, Stream', sent', silent')
  <2>1. Laid(g, Stream \o message(sent), sent + 1, silent)
    BY <1>g, ExtendLaid DEF Streamed
  <2> QED BY <1>1, <1>4, <2>1
<1>6. (sent + 1) - 1 = sent /\ sent + 1 > 0 /\ sent \notin silent
  BY <1>1
<1>7. Whole(g, sent)
  <2>1. sent \in 0..(sent + 1) /\ sent + 1 \in 0..(sent + 1) /\ ~ (sent + 1 <= sent) /\ sent <= sent
    BY <1>1
  <2> QED BY <1>g, <2>1 DEF Whole, Extended
<1>8. Len(out') <= 1 + len(sent)
  BY <1>1, <1>2
<1>9. sent' > 0 /\ sent' - 1 = sent /\ sent' - 1 \notin silent'
  BY <1>1, <1>6
<1>10. Whole(g, sent' - 1) /\ Len(out') <= 1 + len(sent' - 1)
  BY <1>7, <1>8, <1>9
<1>11. Streamed(g)'
  BY <1>5, <1>9, <1>10 DEF Streamed, Whole, len
<1> QED BY <1>g, <1>11

LEMMA WriteStreamed ==
  ASSUME CInv, NEW f, Streamed(f), NEW n \in 1..Len(out), PeerWrite(n)
  PROVE  Streamed(f)' /\ Stream' = Stream
<1>1. /\ wire' = wire \o SubSeq(out, 1, n) /\ out' = SubSeq(out, n + 1, Len(out))
      /\ UNCHANGED <<sent, silent, buf>>
  BY DEF PeerWrite
<1>2. out \in Seq(Pair) /\ wire \in Seq(Pair) /\ buf \in Seq(Pair) /\ Len(out) \in Nat
  BY StreamFacts
<1>3. wire' \o out' = wire \o out
  <2>1. PICK e \in Seq(Pair) : e = <<>>
    BY EmptySeq
  <2>2. (wire \o SubSeq(out, 1, n)) \o (SubSeq(out, n + 1, Len(out)) \o e) = wire \o (out \o e)
    <3>1. Moved(wire, out, e, n)
      BY <1>2, MoveFirst, Zenon
    <3> QED BY <3>1 DEF Moved
  <2>3. out \o <<>> = out /\ SubSeq(out, n + 1, Len(out)) \o <<>> = SubSeq(out, n + 1, Len(out))
    <3>1. n \in 0..Len(out)
      BY <1>2
    <3>2. SubSeq(out, n + 1, Len(out)) \in Seq(Pair)
      BY <1>2, <3>1, DropFacts
    <3> QED BY <1>2, <3>2, ConcatEmptySeq
  <2> QED BY <1>1, <2>1, <2>2, <2>3
<1>4. Stream' = Stream
  BY <1>1, <1>3 DEF Stream
<1>5. Len(out') <= Len(out) /\ Len(out') \in Nat /\ out # <<>>
  <2>1. n \in 0..Len(out)
    BY <1>2
  <2>2. Len(out') = Len(out) - n
    BY <1>1, <1>2, <2>1, DropFacts
  <2> QED BY <1>2, <2>1, <2>2
<1>6. out' # <<>> => /\ sent > 0 /\ sent - 1 \notin silent /\ Whole(f, sent - 1) /\ Len(out') <= 1 + len(sent - 1)
  <2>1. sent > 0 /\ sent - 1 \notin silent /\ Whole(f, sent - 1) /\ Len(out) <= 1 + len(sent - 1)
    BY <1>5 DEF Streamed
  <2>2. len(sent - 1) \in Nat
    <3>1. sent - 1 \in Nat
      BY <2>1 DEF CInv, Scalars
    <3> QED BY <3>1, LenNat
  <2> QED BY <1>2, <1>5, <2>1, <2>2
<1> QED BY <1>1, <1>4, <1>6 DEF Streamed, Whole, len

LEMMA GiveUpStreamed ==
  ASSUME CInv, NEW f, Streamed(f), PeerGivesUp
  PROVE  /\ \E g : g = Cut(f, sent, Len(buf) + Len(wire)) /\ Streamed(g)'
         /\ sent > 0 /\ sent - 1 \notin silent
<1>1. out # <<>> /\ out' = <<>> /\ UNCHANGED <<sent, silent, buf, wire>> /\ sent \in Nat
  BY DEF PeerGivesUp, CInv, Scalars
<1>2. sent > 0 /\ sent - 1 \notin silent /\ Whole(f, sent - 1) /\ Len(out) <= 1 + len(sent - 1)
  BY <1>1 DEF Streamed
<1> DEFINE k == Len(buf) + Len(wire)
<1>3. /\ Stream \in Seq(Pair) /\ Len(Stream) = Len(buf) + Len(wire) + Len(out)
      /\ Len(buf) \in Nat /\ Len(wire) \in Nat /\ Len(out) \in Nat
      /\ out \in Seq(Pair) /\ wire \in Seq(Pair) /\ buf \in Seq(Pair)
  BY StreamFacts
<1>4. Stream' = SubSeq(Stream, 1, k) /\ k \in 0..Len(Stream)
  <2>1. Stream' = buf \o (wire \o <<>>)
    BY <1>1 DEF Stream
  <2>2. buf \o (wire \o <<>>) = SubSeq(buf \o (wire \o out), 1, Len(buf) + Len(wire))
    <3>1. out \in Seq(Pair) /\ wire \in Seq(Pair) /\ buf \in Seq(Pair)
      BY <1>3
    <3> QED BY <3>1, CutLast
  <2>3. k \in 0..Len(Stream)
    BY <1>3
  <2> QED BY <2>1, <2>2, <2>3 DEF Stream
<1>5. f[sent - 1] <= k + 1
  <2>1. len(sent - 1) \in Nat /\ (sent - 1) + 1 = sent /\ sent - 1 \in 0..sent /\ sent \in 0..sent
    <3>1. sent - 1 \in Nat
      BY <1>1, <1>2
    <3> QED BY <1>1, <3>1, LenNat
  <2>2. f[sent] = f[sent - 1] + 1 + len(sent - 1)
    BY <1>2, <2>1 DEF Whole
  <2>3. f[sent] = Len(Stream) + 1 /\ f[sent - 1] \in Int
    BY <2>1 DEF Streamed, Laid
  <2> QED BY <1>2, <1>3, <2>1, <2>2, <2>3
<1>6. Laid(Cut(f, sent, k), SubSeq(Stream, 1, k), sent, silent)
  <2>1. Laid(f, Stream, sent, silent)
    BY DEF Streamed
  <2> HIDE DEF k
  <2> QED BY <1>2, <1>4, <1>5, <2>1, CutLaid
<1>g. PICK g : g = Cut(f, sent, k)
  OBVIOUS
<1> HIDE DEF k
<1>7. Laid(g, Stream', sent', silent') /\ out' = <<>>
  BY <1>g, <1>1, <1>4, <1>6
<1>8. Streamed(g)'
  BY <1>7 DEF Streamed
<1> QED BY <1>g, <1>2, <1>8 DEF k

LEMMA SkipStreamed ==
  ASSUME CInv, NEW f, Streamed(f), PeerSkipsJob
  PROVE  \E g : g = Passed(f, sent, max_rounds) /\ Streamed(g)' /\ Stream' = Stream
<1>1. /\ out = <<>> /\ out' = <<>> /\ UNCHANGED <<buf, wire>> /\ sent' = sent + max_rounds
      /\ silent' = silent \cup (sent..(sent + max_rounds - 1))
  BY DEF PeerSkipsJob
<1>2. Stream' = Stream
  BY <1>1 DEF Stream
<1>3. Laid(Passed(f, sent, max_rounds), Stream, sent + max_rounds, silent \cup (sent..(sent + max_rounds - 1)))
  BY PassLaid, RoundsNat DEF Streamed
<1>g. PICK g : g = Passed(f, sent, max_rounds)
  OBVIOUS
<1>4. Laid(g, Stream', sent', silent') /\ out' = <<>>
  BY <1>g, <1>1, <1>2, <1>3
<1>5. Streamed(g)'
  BY <1>4 DEF Streamed
<1> QED BY <1>g, <1>2, <1>5

LEMMA ReadStreamed ==
  ASSUME CInv, NEW f, Streamed(f), NEW n \in 1..Len(wire), ReadSome(n)
  PROVE  Streamed(f)' /\ Stream' = Stream /\ Len(buf') >= Len(buf) /\ Len(buf) \in Nat /\ Len(buf') \in Nat
<1>1. /\ buf' = buf \o SubSeq(wire, 1, n) /\ wire' = SubSeq(wire, n + 1, Len(wire))
      /\ UNCHANGED <<sent, silent, out>>
  BY DEF ReadSome, peerVars
<1>2. out \in Seq(Pair) /\ wire \in Seq(Pair) /\ buf \in Seq(Pair) /\ Len(wire) \in Nat /\ Len(buf) \in Nat
  BY StreamFacts
<1>3. Stream' = Stream
  <2>1. (buf \o SubSeq(wire, 1, n)) \o (SubSeq(wire, n + 1, Len(wire)) \o out) = buf \o (wire \o out)
    <3>1. Moved(buf, wire, out, n)
      BY <1>2, MoveFirst, Zenon
    <3> QED BY <3>1 DEF Moved
  <2> QED BY <1>1, <2>1 DEF Stream
<1>4. Len(buf') >= Len(buf) /\ Len(buf') \in Nat
  <2>1. n \in 0..Len(wire)
    BY <1>2
  <2>2. PICK x \in Seq(Pair) : x = SubSeq(wire, 1, n) /\ Len(x) = n
    BY <1>2, <2>1, TakeFacts
  <2>3. Len(buf \o x) = Len(buf) + n
    BY <1>2, <2>2, ConcatProperties
  <2> QED BY <1>1, <1>2, <2>1, <2>2, <2>3
<1> QED BY <1>1, <1>2, <1>3, <1>4 DEF Streamed, Whole, len

\* k tokens leave the buffer.
LEMMA DropStreamed ==
  ASSUME CInv, NEW f, Streamed(f), NEW k \in 0..Len(buf), buf' = SubSeq(buf, k + 1, Len(buf)),
         UNCHANGED <<sent, silent, out, wire>>
  PROVE  /\ \E g : g = Shifted(f, sent, k) /\ Streamed(g)'
         /\ Stream' = SubSeq(Stream, k + 1, Len(Stream)) /\ Len(Stream') = Len(Stream) - k
<1>1. /\ out \in Seq(Pair) /\ wire \in Seq(Pair) /\ buf \in Seq(Pair) /\ Stream \in Seq(Pair)
      /\ Len(buf) \in Nat /\ Len(wire) \in Nat /\ Len(out) \in Nat
      /\ Len(Stream) = Len(buf) + Len(wire) + Len(out)
  BY StreamFacts
<1>2. PICK x \in Seq(Pair) : x = wire \o out
  BY <1>1, ConcatProperties
<1>3. Stream' = SubSeq(Stream, k + 1, Len(Stream))
  <2>1. SubSeq(buf, k + 1, Len(buf)) \o x = SubSeq(buf \o x, k + 1, Len(buf \o x))
    <3>1. buf \in Seq(Pair)
      BY <1>1
    <3> QED BY <3>1, DropFirst
  <2> QED BY <1>2, <2>1 DEF Stream
<1>4. k \in 0..Len(Stream) /\ k \in Nat
  BY <1>1
<1>g. PICK g : g = Shifted(f, sent, k)
  OBVIOUS
<1>5. Laid(g, Stream', sent', silent')
  BY <1>g, <1>3, <1>4, ShiftLaid DEF Streamed
<1>6. Len(Stream') = Len(Stream) - k
  BY <1>1, <1>3, <1>4, DropFacts
<1>7. out' # <<>> => /\ sent > 0 /\ sent - 1 \notin silent /\ Whole(g, sent - 1) /\ Len(out) <= 1 + len(sent - 1)
  <2> SUFFICES ASSUME out # <<>> PROVE Whole(g, sent - 1)
    BY DEF Streamed
  <2>1. sent > 0 /\ Whole(f, sent - 1)
    BY DEF Streamed
  <2>2. sent - 1 \in 0..sent /\ (sent - 1) + 1 = sent /\ sent \in 0..sent /\ sent - 1 \in Nat
    BY <2>1 DEF CInv, Scalars
  <2>3. f[sent] \in Int /\ f[sent - 1] \in Int /\ len(sent - 1) \in Nat
    BY <2>2, LenNat DEF Streamed, Laid
  <2>4. g[sent] = f[sent] - k /\ g[sent - 1] = f[sent - 1] - k
    BY <1>g, <2>2 DEF Shifted
  <2>5. f[sent] = f[sent - 1] + 1 + len(sent - 1)
    BY <2>1, <2>2 DEF Whole
  <2> QED BY <1>4, <2>2, <2>3, <2>4, <2>5 DEF Whole
<1>8. Streamed(g)'
  BY <1>5, <1>7 DEF Streamed, Whole, len
<1> QED BY <1>g, <1>3, <1>6, <1>8

LEMMA SameStreamed ==
  ASSUME NEW f, Streamed(f), UNCHANGED <<sent, silent, out, wire, buf>>
  PROVE  Streamed(f)' /\ Stream' = Stream
BY DEF Streamed, Stream, Whole, len

-----------------------------------------------------------------------------
(* A reader that is in step.                                               *)

\* The message the reader has to find next: skipped jobs put it that many jobs
\* behind.
Due == Cur - max_rounds * skips

Undisturbed == slips = 0 /\ (skips = 0 \/ silent = {})

Uncut(f) == \A r \in 0..(sent - 1) : r \notin silent => Whole(f, r)

\* The first token of the stream is the first of the message that is due, or,
\* once the delimiter has been consumed, its first node.
InFront(f) ==
  /\ Due <= sent
  /\ op # "exact" => f[Due] = 1
  /\ op = "exact" /\ Due \notin silent => Due < sent /\ f[Due] = 0
  /\ Due \in silent => Stream = <<>>

TookDue == op = "off" => took = IF Due - 1 \in silent THEN <<>> ELSE nodes(Due - 1)

\* The timer fires only when there is nothing to wait for.
Patient == timeout /\ op # "off" => Due \in silent \/ (op = "exact" /\ Len(buf) >= len(round))

Sync(f) == Uncut(f) /\ InFront(f) /\ TookDue /\ Patient

\* The inductive invariant.
SInv == \E f : Streamed(f) /\ (Undisturbed => Sync(f))

LEMMA DueFacts ==
  ASSUME CInv
  PROVE  /\ Due \in Nat /\ Cur \in Nat /\ round \in Nat /\ skips \in Nat /\ sent \in Nat /\ silent \in SUBSET (0..(sent - 1))
         /\ Due = IF op = "off" THEN (round - max_rounds * skips) + 1 ELSE round - max_rounds * skips
         /\ op = "off" => Due - 1 = round - max_rounds * skips /\ Due - 1 \in Nat
         /\ skips = 0 => Due = Cur
<1>1. round \in Nat /\ skips \in Nat /\ round - max_rounds * skips \in Nat /\ max_rounds \in Nat
  BY Constants DEF CInv, Scalars
<1>2. max_rounds * skips \in Nat
  BY <1>1, Z3
<1>3. sent \in Nat /\ silent \in SUBSET (0..(sent - 1))
  BY DEF CInv, Scalars
<1>4. Cur \in Nat /\ Due = IF op = "off" THEN (round - max_rounds * skips) + 1 ELSE round - max_rounds * skips
  BY <1>1, <1>2 DEF Cur, Due
<1>5. skips = 0 => Due = Cur
  BY <1>1, <1>4 DEF Due
<1> QED BY <1>1, <1>3, <1>4, <1>5

\* The layout and the message that is due stay as they are.
LEMMA SyncKept ==
  ASSUME NEW f, Sync(f), UNCHANGED <<sent, silent>>, Stream' = Stream, Due' = Due,
         op' = "exact" => op = "exact" \/ Due \in silent,
         op' # "exact" => op # "exact",
         op' = "off" => op = "off" /\ took' = took,
         timeout' /\ op' # "off" => Due \in silent \/ (op' = "exact" /\ Len(buf') >= len(round'))
  PROVE  Sync(f)'
<1>1. Uncut(f)'
  BY DEF Sync, Uncut, Whole, len
<1>2. InFront(f)'
  BY DEF Sync, InFront
<1>3. TookDue'
  BY DEF Sync, TookDue, nodes, len
<1>4. Patient'
  BY DEF Patient, len
<1> QED BY <1>1, <1>2, <1>3, <1>4 DEF Sync

\* A peer that skips the job of the reader sends nothing more in it.
LEMMA SilentJob ==
  ASSUME CInv, Undisturbed, Due \in silent
  PROVE  /\ skips = 0 /\ Due = Cur
         /\ \A r \in Nat : r >= Cur /\ Job(r) <= Job(Cur) => r \in silent
<1>1. skips = 0 /\ Due = Cur
  BY DueFacts DEF Undisturbed
<1>2. ASSUME NEW r \in Nat, r >= Cur, Job(r) <= Job(Cur) PROVE r \in silent
  <2>1. Job(Cur) <= Job(r) /\ Job(r) \in Nat /\ Job(Cur) \in Nat
    BY <1>2, DueFacts, JobOrder, JobNat
  <2>2. Job(r) = Job(Cur)
    BY <1>2, <2>1
  <2> QED BY <1>1, <2>2 DEF CInv, Jobs
<1> QED BY <1>1, <1>2

LEMMA SendSync ==
  ASSUME CInv, NEW f, Streamed(f), Undisturbed => Sync(f), PeerSend
  PROVE  SInv'
<1>1. PICK g : g = Extended(f, sent) /\ Streamed(g)'
  BY SendStreamed
<1>2. /\ sent' = sent + 1 /\ UNCHANGED <<silent, wire, buf, round, op, want, timeout, cancelled, took, slips, lastSlip, skips>>
      /\ Job(sent) <= Job(Cur) /\ Due' = Due
  BY DEF PeerSend, history, Released, Job, Cur, Due
<1>3. ASSUME Undisturbed' PROVE Sync(g)'
  <2>1. Undisturbed
    BY <1>2, <1>3 DEF Undisturbed
  <2>2. Uncut(f) /\ InFront(f) /\ TookDue /\ Patient
    BY <2>1 DEF Sync
  <2>3. Due \in Nat /\ sent \in Nat /\ Due <= sent /\ silent \in SUBSET (0..(sent - 1)) /\ Cur \in Nat
    BY <2>2, DueFacts DEF InFront
  <2>4. Due \notin silent
    <3> SUFFICES ASSUME Due \in silent PROVE FALSE
      OBVIOUS
    <3>1. sent \in silent
      BY <1>2, <2>1, <2>3, SilentJob
    <3> QED BY <2>3, <3>1
  <2>5. \A r \in 0..sent : g[r] = f[r]
    BY <1>1, <2>3 DEF Extended
  <2>6. Whole(g, sent)
    <3>1. sent \in 0..(sent + 1) /\ sent + 1 \in 0..(sent + 1) /\ ~ (sent + 1 <= sent) /\ sent <= sent
      BY <2>3
    <3> QED BY <1>1, <3>1 DEF Whole, Extended
  <2>7. ASSUME NEW r \in 0..sent, r \notin silent PROVE Whole(g, r)
    <3>1. CASE r = sent
      BY <2>6, <3>1
    <3>2. CASE r # sent
      <4>1. r \in 0..(sent - 1) /\ r \in 0..sent /\ r + 1 \in 0..sent
        BY <2>3, <3>2
      <4>2. Whole(f, r)
        BY <2>2, <2>7, <4>1 DEF Uncut
      <4> QED BY <2>5, <4>1, <4>2 DEF Whole
    <3> QED BY <3>1, <3>2
  <2>8. Uncut(g)'
    <3>1. sent' - 1 = sent
      BY <1>2, <2>3
    <3> QED BY <1>2, <2>7, <3>1 DEF Uncut, Whole, len
  <2>9. InFront(g)'
    <3>1. Due \in 0..sent /\ g[Due] = f[Due]
      BY <2>3, <2>5
    <3>2. Due <= sent + 1 /\ (Due < sent => Due < sent + 1)
      BY <2>3
    <3> QED BY <1>2, <2>2, <2>4, <3>1, <3>2 DEF InFront
  <2>10. TookDue' /\ Patient'
    BY <1>2, <2>2 DEF TookDue, Patient, nodes, len
  <2> QED BY <2>8, <2>9, <2>10 DEF Sync
<1> QED BY <1>1, <1>3 DEF SInv

LEMMA WriteSync ==
  ASSUME CInv, NEW f, Streamed(f), Undisturbed => Sync(f), NEW n \in 1..Len(out), PeerWrite(n)
  PROVE  SInv'
<1>1. Streamed(f)' /\ Stream' = Stream
  BY WriteStreamed
<1>2. UNCHANGED <<sent, silent, buf, round, op, want, timeout, cancelled, took, slips, lastSlip, skips>> /\ Due' = Due
  BY DEF PeerWrite, history, Cur, Due
<1>3. ASSUME Undisturbed' PROVE Sync(f)'
  <2>1. Sync(f)
    BY <1>2, <1>3 DEF Undisturbed
  <2>2. Patient
    BY <2>1 DEF Sync
  <2>3. timeout' /\ op' # "off" => Due \in silent \/ (op' = "exact" /\ Len(buf') >= len(round'))
    BY <1>2, <2>2 DEF Patient
  <2> QED BY <1>1, <1>2, <2>1, <2>3, SyncKept
<1> QED BY <1>1, <1>3 DEF SInv

LEMMA GiveUpSync ==
  ASSUME CInv, NEW f, Streamed(f), PeerGivesUp
  PROVE  SInv'
<1>1. PICK g : Streamed(g)'
  BY GiveUpStreamed
<1>2. slips \in Nat /\ slips' = slips + 1
  BY DEF PeerGivesUp, CInv, Scalars
<1>3. ~ Undisturbed'
  BY <1>2 DEF Undisturbed
<1> QED BY <1>1, <1>3 DEF SInv

LEMMA PeerSkipsSync ==
  ASSUME CInv, NEW f, Streamed(f), Undisturbed => Sync(f), PeerSkipsJob
  PROVE  SInv'
<1>1. PICK g : g = Passed(f, sent, max_rounds) /\ Streamed(g)' /\ Stream' = Stream
  BY SkipStreamed
<1>2. /\ sent' = sent + max_rounds /\ silent' = silent \cup (sent..(sent + max_rounds - 1))
      /\ UNCHANGED <<out, wire, buf, round, op, want, timeout, cancelled, took, slips, lastSlip, skips>>
      /\ Due' = Due
  BY DEF PeerSkipsJob, history, Cur, Due
<1>3. ASSUME Undisturbed' PROVE Sync(g)'
  <2>1. /\ Due \in Nat /\ sent \in Nat /\ silent \in SUBSET (0..(sent - 1)) /\ max_rounds \in Nat \ {0}
        /\ (op = "off" => Due - 1 \in Nat)
    BY DueFacts, RoundsNat
  <2>2. Undisturbed
    <3>1. sent \in silent'
      BY <1>2, <2>1
    <3> QED BY <1>2, <1>3, <3>1 DEF Undisturbed
  <2>3. Uncut(f) /\ InFront(f) /\ TookDue /\ Patient
    BY <2>2 DEF Sync
  <2>4. Due <= sent
    BY <2>3 DEF InFront
  <2>5. \A r \in 0..sent : g[r] = f[r]
    BY <1>1, <2>1 DEF Passed
  <2>6. Uncut(g)'
    <3>1. ASSUME NEW r \in 0..(sent' - 1), r \notin silent' PROVE Whole(g, r)
      <4>1. r \in 0..(sent - 1) /\ r \notin silent /\ r \in 0..sent /\ r + 1 \in 0..sent
        BY <1>2, <2>1, <3>1
      <4>2. Whole(f, r)
        BY <2>3, <4>1 DEF Uncut
      <4> QED BY <2>5, <4>1, <4>2 DEF Whole
    <3> QED BY <3>1 DEF Uncut, Whole, len
  <2>7. Due \in 0..sent /\ g[Due] = f[Due] /\ Due <= sent' /\ (Due < sent => Due < sent')
    BY <1>2, <2>1, <2>4, <2>5
  <2>8. ASSUME Due \in silent' PROVE Stream = <<>>
    <3>1. CASE Due \in silent
      BY <2>3, <3>1 DEF InFront
    <3>2. CASE Due \notin silent
      <4>1. Due = sent
        BY <1>2, <2>1, <2>4, <2>8, <3>2
      <4>2. op # "exact"
        BY <2>1, <2>3, <3>2, <4>1 DEF InFront
      <4>3. f[sent] = 1
        BY <2>3, <4>1, <4>2 DEF InFront
      <4>4. f[sent] = Len(Stream) + 1 /\ Stream \in Seq(Pair)
        BY DEF Streamed, Laid
      <4>5. Len(Stream) = 0
        <5>1. Len(Stream) \in Nat
          BY <4>4, LenProperties
        <5> QED BY <4>3, <4>4, <5>1
      <4> QED BY <4>4, <4>5, EmptySeq
    <3> QED BY <3>1, <3>2
  <2>9. InFront(g)'
    <3>1. Due \notin silent' => Due \notin silent
      BY <1>2
    <3> QED BY <1>1, <1>2, <2>3, <2>7, <2>8, <3>1 DEF InFront
  <2>10. TookDue'
    <3>1. op = "off" => (Due - 1 \in silent' <=> Due - 1 \in silent)
      BY <1>2, <2>1, <2>4
    <3> QED BY <1>2, <2>3, <3>1 DEF TookDue, nodes, len
  <2>11. Patient'
    BY <1>2, <2>3 DEF Patient, len
  <2> QED BY <2>6, <2>9, <2>10, <2>11 DEF Sync
<1> QED BY <1>1, <1>3 DEF SInv

LEMMA ReadSync ==
  ASSUME CInv, NEW f, Streamed(f), Undisturbed => Sync(f), NEW n \in 1..Len(wire), ReadSome(n)
  PROVE  SInv'
<1>1. Streamed(f)' /\ Stream' = Stream /\ Len(buf') >= Len(buf) /\ Len(buf) \in Nat /\ Len(buf') \in Nat
  BY ReadStreamed
<1>2. UNCHANGED <<sent, silent, round, op, timeout, took, slips, skips>> /\ Due' = Due
  BY DEF ReadSome, peerVars, history, Cur, Due
<1>3. ASSUME Undisturbed' PROVE Sync(f)'
  <2>1. Sync(f)
    BY <1>2, <1>3 DEF Undisturbed
  <2>2. timeout' /\ op' # "off" => Due \in silent \/ (op' = "exact" /\ Len(buf') >= len(round'))
    <3>1. len(round) \in Nat /\ len(round)' = len(round)
      BY <1>2, DueFacts, LenNat DEF len
    <3>2. Patient
      BY <2>1 DEF Sync
    <3>3. Len(buf) >= len(round) => Len(buf') >= len(round')
      BY <1>1, <1>2, <3>1
    <3> QED BY <1>2, <3>2, <3>3 DEF Patient
  <2> QED BY <1>1, <1>2, <2>1, <2>2, SyncKept
<1> QED BY <1>1, <1>3 DEF SInv

\* Consuming tokens does not change the lengths of the messages.
LEMMA ShiftWhole ==
  ASSUME NEW f, NEW s, NEW n, NEW S, Laid(f, s, n, S), NEW k \in Nat, NEW r \in 0..(n - 1), Whole(f, r)
  PROVE  Whole(Shifted(f, n, k), r)
<1>1. n \in Nat /\ f \in [0..n -> Int]
  BY DEF Laid
<1>2. r \in 0..n /\ r + 1 \in 0..n /\ r \in Nat
  BY <1>1
<1>3. f[r] \in Int /\ f[r + 1] \in Int /\ len(r) \in Nat
  BY <1>1, <1>2, LenNat
<1>4. Shifted(f, n, k)[r] = f[r] - k /\ Shifted(f, n, k)[r + 1] = f[r + 1] - k
  BY <1>2 DEF Shifted
<1>5. f[r + 1] = f[r] + 1 + len(r)
  BY DEF Whole
<1> HIDE DEF Shifted
<1>6. Shifted(f, n, k)[r + 1] = Shifted(f, n, k)[r] + 1 + len(r)
  BY <1>3, <1>4, <1>5
<1> QED BY <1>6 DEF Whole

LEMMA UncutShifted ==
  ASSUME CInv, NEW f, Streamed(f), Uncut(f), NEW k \in Nat, NEW g, g = Shifted(f, sent, k), UNCHANGED <<sent, silent>>
  PROVE  Uncut(g)'
<1>1. ASSUME NEW r \in 0..(sent - 1), r \notin silent PROVE Whole(g, r)
  <2>1. Whole(f, r)
    BY <1>1 DEF Uncut
  <2>2. Laid(f, Stream, sent, silent)
    BY DEF Streamed
  <2> QED BY <2>1, <2>2, ShiftWhole
<1> QED BY <1>1 DEF Uncut, Whole, len

\* What a handler that starts the second read leaves alone.
LEMMA StartFrame ==
  ASSUME NEW b, Start(b), UNCHANGED <<peerVars, wire, round, timeout, took, history>>
  PROVE  /\ UNCHANGED <<sent, silent, out, wire, round, timeout, took, slips, skips>>
         /\ op' = "exact" /\ buf' = b
BY DEF Start, peerVars, history

LEMMA FoundSync ==
  ASSUME CInv, NEW f, Streamed(f), Undisturbed => Sync(f), UntilFound
  PROVE  SInv'
<1>1. PICK n \in 1..Len(buf) : First(n) /\ Start(SubSeq(buf, n + 1, Len(buf)))
  BY FoundStep
<1>2. /\ UNCHANGED <<sent, silent, out, wire, round, timeout, took, slips, skips>>
      /\ op = "until" /\ op' = "exact" /\ buf' = SubSeq(buf, n + 1, Len(buf))
  BY <1>1, StartFrame DEF UntilFound
<1>3. /\ Len(buf) \in Nat /\ Len(Stream) \in Nat /\ Len(Stream) >= Len(buf) /\ buf \in Seq(Pair)
      /\ \A i \in 1..Len(buf) : Stream[i] = buf[i]
  <2>1. /\ Len(buf) \in Nat /\ Len(wire) \in Nat /\ Len(out) \in Nat /\ Len(Stream) = Len(buf) + Len(wire) + Len(out)
    BY StreamFacts
  <2> QED BY <2>1, StreamFacts
<1>4. n \in 0..Len(buf) /\ n \in Nat
  BY <1>3
<1>5. PICK g : g = Shifted(f, sent, n) /\ Streamed(g)'
  BY <1>2, <1>4, DropStreamed
<1>6. ASSUME Undisturbed' PROVE Sync(g)'
  <2>1. Undisturbed /\ Due' = Due
    BY <1>2, <1>6 DEF Undisturbed, Due, Cur
  <2>2. Uncut(f) /\ InFront(f) /\ Patient
    BY <2>1 DEF Sync
  <2>3. Due \in Nat /\ sent \in Nat /\ Due <= sent /\ f[Due] = 1
    BY <1>2, <2>2, DueFacts DEF InFront
  <2>4. 1 \in 1..Len(buf) /\ 1 \in 1..Len(Stream)
    BY <1>3, <1>4
  <2>5. buf[1] = delim
    <3>1. Due \in 0..sent
      BY <2>3
    <3>2. Stream[1] = delim
      BY <2>3, <2>4, <3>1 DEF Streamed, Laid, Starts
    <3> QED BY <1>3, <2>4, <3>2
  <2>6. n = 1
    <3>1. \A j \in 1..(n - 1) : buf[j] # delim
      BY <1>1 DEF First
    <3> QED BY <1>4, <2>5, <3>1
  <2>7. Due \notin silent
    <3>1. Len(<<>>) = 0
      OBVIOUS
    <3> QED BY <2>2, <2>4, <3>1 DEF InFront
  <2>8. ~ timeout
    BY <1>2, <2>2, <2>7 DEF Patient
  <2>9. Due < sent
    <3>1. f[sent] = Len(Stream) + 1
      BY DEF Streamed, Laid
    <3> QED BY <1>3, <2>3, <2>4, <3>1
  <2>10. g[Due] = 0
    <3>1. Due \in 0..sent
      BY <2>3
    <3> QED BY <1>5, <2>3, <2>6, <3>1 DEF Shifted
  <2>11. InFront(g)'
    BY <1>2, <2>1, <2>3, <2>7, <2>9, <2>10 DEF InFront
  <2>12. TookDue' /\ Patient'
    BY <1>2, <2>8 DEF TookDue, Patient
  <2>13. Uncut(g)'
    BY <1>2, <1>4, <1>5, <2>2, UncutShifted
  <2> QED BY <2>11, <2>12, <2>13 DEF Sync
<1> QED BY <1>5, <1>6 DEF SInv

LEMMA UntilCancelledSync ==
  ASSUME CInv, NEW f, Streamed(f), Undisturbed => Sync(f), UntilCancelled
  PROVE  SInv'
<1>1. /\ UNCHANGED <<sent, silent, out, wire, buf, round, timeout, took, slips, skips>>
      /\ op = "until" /\ op' = "exact" /\ cancelled
  BY StartFrame DEF UntilCancelled
<1>2. Streamed(f)' /\ Stream' = Stream
  BY <1>1, SameStreamed
<1>3. ASSUME Undisturbed' PROVE Sync(f)'
  <2>1. Sync(f) /\ Due' = Due
    BY <1>1, <1>3 DEF Undisturbed, Due, Cur
  <2>2. timeout
    BY <1>1 DEF CInv
  <2>3. Due \in silent
    BY <1>1, <2>1, <2>2 DEF Sync, Patient
  <2> QED BY <1>1, <1>2, <2>1, <2>3, SyncKept
<1> QED BY <1>2, <1>3 DEF SInv

LEMMA TimerSync ==
  ASSUME CInv, NEW f, Streamed(f), Undisturbed => Sync(f), TimerFires
  PROVE  SInv'
<1>1. /\ UNCHANGED <<sent, silent, out, wire, buf, round, op, took, skips>>
      /\ op # "off" /\ slips' = IF Slips THEN slips + 1 ELSE slips
  BY DEF TimerFires, peerVars, Complete
<1>2. Streamed(f)' /\ Stream' = Stream
  BY <1>1, SameStreamed
<1>3. ASSUME Undisturbed' PROVE Sync(f)'
  <2>1. slips \in Nat /\ slips' = 0 /\ (skips = 0 \/ silent = {}) /\ Due' = Due
    BY <1>1, <1>3 DEF Undisturbed, Due, Cur, CInv, Scalars
  <2>2. ~ Slips
    BY <1>1, <2>1
  <2>3. Sync(f)
    BY <1>1, <2>1, <2>2 DEF Undisturbed
  <2>4. round \in silent \/ (op = "exact" /\ Len(buf) >= len(round))
    BY <2>2 DEF Slips
  <2>5. round \in silent => Due \in silent
    <3>1. round \in silent => skips = 0
      BY <2>1
    <3>2. skips = 0 => Due = round
      BY <1>1, DueFacts DEF Cur
    <3> QED BY <3>1, <3>2
  <2> QED BY <1>1, <1>2, <2>1, <2>3, <2>4, <2>5, SyncKept
<1> QED BY <1>2, <1>3 DEF SInv

\* The next round, in this job or in one after a skipped one.
LEMMA NextRoundSync ==
  ASSUME CInv, NEW f, Streamed(f), NEW r, NextRound(r), Due' = Due, Undisturbed' => Sync(f)
  PROVE  SInv'
<1>1. /\ UNCHANGED <<sent, silent, out, wire, buf>>
      /\ op = "off" /\ op' = "until" /\ timeout' = FALSE
  BY DEF NextRound, peerVars
<1>2. Streamed(f)' /\ Stream' = Stream
  BY <1>1, SameStreamed
<1>3. ASSUME Undisturbed' PROVE Sync(f)'
  <2>1. Sync(f)
    BY <1>3
  <2> QED BY <1>1, <1>2, <2>1, SyncKept
<1> QED BY <1>2, <1>3 DEF SInv

LEMMA AdvanceSync ==
  ASSUME CInv, NEW f, Streamed(f), Undisturbed => Sync(f), Advance
  PROVE  SInv'
<1>1. NextRound(round + 1) /\ UNCHANGED <<silent, slips, skips>> /\ op = "off" /\ op' = "until" /\ round' = round + 1
  BY DEF Advance, NextRound, peerVars
<1>2. Due' = Due /\ (Undisturbed' => Undisturbed)
  BY <1>1 DEF Due, Cur, Undisturbed
<1>3. Undisturbed' => Sync(f)
  BY <1>2
<1> DEFINE r == round + 1
<1>4. NextRound(r)
  BY <1>1
<1> HIDE DEF r
<1> QED BY <1>2, <1>3, <1>4, NextRoundSync

LEMMA SkipSync ==
  ASSUME CInv, NEW f, Streamed(f), Undisturbed => Sync(f), SkipJob
  PROVE  SInv'
<1>1. /\ NextRound(round + 1 + max_rounds) /\ UNCHANGED <<silent, slips>> /\ skips' = skips + 1
      /\ op = "off" /\ op' = "until" /\ round' = round + 1 + max_rounds
  BY DEF SkipJob, NextRound, peerVars
<1>2. Due' = Due
  <2>1. Due' = (round + 1 + max_rounds) - max_rounds * (skips + 1)
    BY <1>1 DEF Due, Cur
  <2>2. Due = (round - max_rounds * skips) + 1
    BY <1>1, DueFacts
  <2> QED BY <2>1, <2>2, SkipArithmetic
<1>3. Undisturbed' => Sync(f)
  <2>1. skips \in Nat
    BY DueFacts
  <2>2. Undisturbed' => Undisturbed
    BY <1>1, <2>1 DEF Undisturbed
  <2> QED BY <2>2
<1> DEFINE r == round + 1 + max_rounds
<1>4. NextRound(r)
  BY <1>1
<1> HIDE DEF r
<1> QED BY <1>2, <1>3, <1>4, NextRoundSync

LEMMA StutterSync ==
  ASSUME CInv, NEW f, Streamed(f), Undisturbed => Sync(f), UNCHANGED vars
  PROVE  SInv'
<1>1. UNCHANGED <<sent, silent, out, wire, buf, round, op, timeout, took, slips, skips>>
  BY DEF vars
<1>2. Streamed(f)'
  BY <1>1, SameStreamed
<1>3. (Undisturbed => Sync(f))'
  BY <1>1 DEF Undisturbed, Sync, Uncut, InFront, TookDue, Patient, Due, Cur, Stream, Whole, nodes, len
<1> QED BY <1>2, <1>3 DEF SInv

\* The second handler in the round of a peer that skips the job.
LEMMA ExactSilent ==
  ASSUME CInv, NEW f, Streamed(f), Undisturbed, Sync(f), ExactHandler, Due \in silent,
         NEW g, g = Shifted(f, sent, Taken)
  PROVE  Sync(g)'
<1>1. /\ Taken \in 0..Len(buf) /\ Taken \in Nat /\ Len(buf) \in Nat
      /\ took' \in Seq(Token) /\ Len(took') = Taken /\ op = "exact" /\ op' = "off"
      /\ buf' = SubSeq(buf, Taken + 1, Len(buf))
      /\ UNCHANGED <<sent, silent, out, wire, round, timeout, slips, lastSlip, skips>>
  BY ExactStep
<1>2. Uncut(f) /\ InFront(f)
  BY DEF Sync
<1>3. /\ Due \in Nat /\ Cur \in Nat /\ sent \in Nat /\ silent \in SUBSET (0..(sent - 1)) /\ Due < sent
      /\ Due' = Due + 1
  <2>1. Due \in Nat /\ Cur \in Nat /\ sent \in Nat /\ silent \in SUBSET (0..(sent - 1))
    BY DueFacts
  <2>2. Due' = Due + 1
    <3>1. round \in Nat /\ max_rounds * skips \in Int /\ Cur = round /\ Cur' = round + 1
      BY <1>1, DueFacts, RoundsNat DEF Cur
    <3> QED BY <1>1, <3>1 DEF Due
  <2> QED BY <2>1, <2>2
<1>4. Stream = <<>> /\ Len(Stream) = 0 /\ Len(buf) = 0 /\ Taken = 0
  <2>1. Stream = <<>> /\ Len(Stream) = 0
    BY <1>2 DEF InFront
  <2>2. Len(Stream) = Len(buf) + Len(wire) + Len(out) /\ Len(buf) \in Nat /\ Len(wire) \in Nat /\ Len(out) \in Nat
    BY StreamFacts
  <2> QED BY <1>1, <2>1, <2>2
<1>5. took' = <<>>
  BY <1>1, <1>4, EmptySeq
<1>6. Stream' = <<>>
  <2>1. PICK k \in 0..Len(buf) : k = Taken
    BY <1>1
  <2>2. Len(Stream') = Len(Stream) - k
    BY <1>1, <2>1, DropStreamed
  <2>3. Stream' = SubSeq(Stream, k + 1, Len(Stream))
    BY <1>1, <2>1, DropStreamed
  <2>4. Stream' \in Seq(Pair)
    <3>1. k \in 0..Len(Stream) /\ Stream \in Seq(Pair)
      BY <1>4, <2>1
    <3> QED BY <2>3, <3>1, DropFacts
  <2>5. Len(Stream') = 0
    BY <1>4, <2>1, <2>2
  <2> QED BY <2>4, <2>5, EmptySeq
<1>7. f[Due + 1] = f[sent]
  <2>1. ASSUME NEW r \in (Due + 1)..(sent - 1) PROVE r \in silent
    <3>1. r \in 0..(sent - 1) /\ r \in Nat /\ r >= Due
      BY <1>3
    <3>2. Job(r) <= Job(Cur) /\ r >= Cur
      BY <3>1, SilentJob DEF CInv, Jobs
    <3> QED BY <3>1, <3>2, SilentJob
  <2>2. Due + 1 \in 0..sent /\ sent \in 0..sent /\ Due + 1 <= sent
    BY <1>3
  <2>3. Gaps(f, sent, silent)
    BY DEF Streamed, Laid
  <2> QED BY <2>1, <2>2, <2>3 DEF Gaps
<1>8. g[Due + 1] = 1
  <2>1. f[sent] = Len(Stream) + 1
    BY DEF Streamed, Laid
  <2>2. Due + 1 \in 0..sent
    BY <1>3
  <2> QED BY <1>4, <1>7, <2>1, <2>2 DEF Shifted
<1>9. InFront(g)'
  <2>1. Due + 1 <= sent
    BY <1>3
  <2> QED BY <1>1, <1>3, <1>6, <1>8, <2>1 DEF InFront
<1>10. TookDue' /\ Patient'
  <2>1. (Due + 1) - 1 = Due
    BY <1>3
  <2> QED BY <1>1, <1>3, <1>5, <2>1 DEF TookDue, Patient
<1>11. Uncut(g)'
  BY <1>1, <1>2, UncutShifted
<1> QED BY <1>9, <1>10, <1>11 DEF Sync

\* The second handler with the message of the round in front.
LEMMA ExactWhole ==
  ASSUME CInv, NEW f, Streamed(f), Undisturbed, Sync(f), ExactHandler, Due \notin silent,
         NEW g, g = Shifted(f, sent, Taken)
  PROVE  Sync(g)'
<1>1. /\ Taken \in Nat /\ Len(buf) \in Nat
      /\ took' \in Seq(Token) /\ Len(took') = Taken /\ op = "exact" /\ op' = "off"
      /\ UNCHANGED <<sent, silent, out, wire, round, timeout, slips, lastSlip, skips>>
  BY ExactStep
<1>2. Uncut(f) /\ InFront(f) /\ Patient
  BY DEF Sync
<1>3. /\ Due \in Nat /\ Cur \in Nat /\ sent \in Nat /\ silent \in SUBSET (0..(sent - 1)) /\ Due < sent
      /\ f[Due] = 0 /\ Due' = Due + 1 /\ Due = round - max_rounds * skips /\ round \in Nat /\ skips \in Nat
  <2>1. /\ Due \in Nat /\ Cur \in Nat /\ sent \in Nat /\ silent \in SUBSET (0..(sent - 1))
        /\ Due = round - max_rounds * skips /\ round \in Nat /\ skips \in Nat
    BY <1>1, DueFacts
  <2>2. Due' = Due + 1
    <3>1. max_rounds * skips \in Int /\ Cur = round /\ Cur' = round + 1
      BY <1>1, <2>1, RoundsNat DEF Cur
    <3> QED BY <1>1, <2>1, <3>1 DEF Due
  <2>3. Due < sent /\ f[Due] = 0
    BY <1>1, <1>2 DEF InFront
  <2> QED BY <2>1, <2>2, <2>3
<1>4. len(Due) = len(round) /\ len(round) \in Nat \ {0}
  <2>1. round - max_rounds * skips \in Nat
    BY <1>3
  <2>2. len(round - max_rounds * skips) = len(round)
    BY <1>3, <2>1, LenPeriodic
  <2> QED BY <1>3, <2>2, LenNat
<1>5. Taken = len(round) /\ len(round) <= Len(buf)
  <2>1. Len(buf) >= len(round)
    <3>1. CASE cancelled
      BY <1>1, <1>2, <3>1 DEF CInv, Patient
    <3>2. CASE ~ cancelled
      <4>1. want = 0
        BY <3>2 DEF ExactHandler
      <4>2. Len(buf) <= len(round) => want = len(round) - Len(buf)
        BY <1>1 DEF CInv, Asked
      <4> QED BY <1>1, <1>4, <4>1, <4>2
    <3> QED BY <3>1, <3>2
  <2> QED BY <1>1, <1>4, <2>1 DEF Taken
<1>6. f[Due + 1] = 1 + len(round) /\ Due + 1 \in 0..sent
  <2>1. Due \in 0..(sent - 1)
    BY <1>3
  <2>2. Whole(f, Due)
    BY <1>2, <2>1 DEF Uncut
  <2> QED BY <1>3, <1>4, <2>2 DEF Whole
<1>7. g[Due + 1] = 1
  BY <1>3, <1>4, <1>5, <1>6 DEF Shifted
<1>8. Due + 1 \notin silent
  <2> SUFFICES ASSUME Due + 1 \in silent PROVE FALSE
    OBVIOUS
  <2>1. skips = 0 /\ Due = Cur
    BY DueFacts DEF Undisturbed
  <2>2. Due + 1 \in 0..(sent - 1)
    BY <1>3
  <2>3. Job(Due + 1) <= Job(Cur) /\ Job(Cur) <= Job(Due + 1) /\ Job(Due + 1) \in Nat /\ Job(Cur) \in Nat
    <3>1. Job(Due + 1) <= Job(Cur)
      BY <2>2 DEF CInv, Jobs
    <3>2. Cur <= Due + 1 /\ Due + 1 \in Nat
      BY <1>3, <2>1
    <3> QED BY <1>3, <3>1, <3>2, JobOrder, JobNat
  <2>4. Job(Due) = Job(Due + 1)
    BY <2>1, <2>3
  <2> QED BY <1>3, <2>4 DEF CInv, Jobs
<1>9. InFront(g)'
  <2>1. Due + 1 <= sent
    BY <1>3
  <2> QED BY <1>1, <1>3, <1>7, <1>8, <2>1 DEF InFront
<1>10. took' = nodes(Due)
  <2>1. nodes(Due) \in Seq(Pair) /\ Len(nodes(Due)) = len(round) /\ \A i \in 1..len(round) : nodes(Due)[i] = <<Due, i>>
    BY <1>3, <1>4 DEF nodes, Pair
  <2>2. ASSUME NEW i \in 1..len(round) PROVE took'[i] = <<Due, i>>
    <3>1. i \in 1..Len(buf) /\ i \in 1..Len(Stream) /\ i \in Nat /\ i > 0 /\ i <= len(round)
      <4>1. Len(Stream) = Len(buf) + Len(wire) + Len(out) /\ Len(buf) \in Nat /\ Len(wire) \in Nat /\ Len(out) \in Nat
        BY StreamFacts
      <4> QED BY <1>4, <1>5, <4>1
    <3>2. took'[i] = Stream[i]
      BY <1>5, <3>1, ExactStep, StreamFacts
    <3>3. PICK q \in 0..(sent - 1) : Holds(f, Stream, q, i)
      BY <3>1 DEF Streamed, Laid, Contents
    <3>4. q \in 0..sent /\ q + 1 \in 0..sent /\ q \in Nat /\ Due \in 0..sent
      BY <1>3
    <3>5. f \in [0..sent -> Int] /\ Order(f, sent)
      BY DEF Streamed, Laid
    <3>6. f[q] <= i /\ i < f[q + 1] /\ f[q] \in Int /\ f[q + 1] \in Int
      BY <3>3, <3>4, <3>5 DEF Holds
    <3>7. ~ (q < Due)
      <4> SUFFICES ASSUME q < Due PROVE FALSE
        OBVIOUS
      <4>1. q + 1 <= Due
        BY <1>3, <3>4
      <4>2. f[q + 1] <= f[Due]
        BY <3>4, <3>5, <4>1 DEF Order
      <4> QED BY <1>3, <3>1, <3>6, <4>2
    <3>8. ~ (q > Due)
      <4> SUFFICES ASSUME q > Due PROVE FALSE
        OBVIOUS
      <4>1. Due + 1 <= q
        BY <1>3, <3>4
      <4>2. f[Due + 1] <= f[q]
        BY <1>6, <3>4, <3>5, <4>1 DEF Order
      <4> QED BY <1>4, <1>6, <3>1, <3>6, <4>2
    <3>9. q = Due
      BY <1>3, <3>4, <3>7, <3>8
    <3>10. Stream[i] = IF i = f[Due] THEN delim ELSE <<Due, i - f[Due]>>
      BY <3>3, <3>9 DEF Holds
    <3>11. i # f[Due] /\ i - f[Due] = i
      BY <1>3, <3>1
    <3> QED BY <3>2, <3>10, <3>11
  <2>3. took' \in Seq(Pair) /\ Len(took') = len(round)
    <3>1. took' \in Seq(Token) /\ Len(took') = len(round)
      BY <1>1, <1>5
    <3> QED BY <3>1, TokenPair, SeqMonotonic
  <2> DEFINE x == took'
             y == nodes(Due)
  <2>4. x \in Seq(Pair) /\ y \in Seq(Pair) /\ Len(x) = Len(y) /\ \A i \in 1..Len(x) : x[i] = y[i]
    BY <2>1, <2>2, <2>3
  <2> HIDE DEF x, y
  <2>5. x = y
    BY <2>4, SeqEqual
  <2> QED BY <2>5 DEF x, y
<1>11. TookDue' /\ Patient'
  <2>1. (Due + 1) - 1 = Due
    BY <1>3
  <2>3. Due' - 1 = Due /\ Due' - 1 \notin silent'
    BY <1>1, <1>3, <2>1
  <2>4. took' = IF Due' - 1 \in silent' THEN <<>> ELSE nodes(Due' - 1)
    BY <1>10, <2>3
  <2> QED BY <1>1, <2>4 DEF TookDue, Patient, nodes, len
<1>12. Uncut(g)'
  BY <1>1, <1>2, UncutShifted
<1> QED BY <1>9, <1>11, <1>12 DEF Sync

LEMMA ExactSync ==
  ASSUME CInv, NEW f, Streamed(f), Undisturbed => Sync(f), ExactHandler
  PROVE  SInv'
<1>1. /\ Taken \in 0..Len(buf) /\ buf' = SubSeq(buf, Taken + 1, Len(buf))
      /\ UNCHANGED <<sent, silent, out, wire, slips, skips>>
  BY ExactStep
<1>k. PICK k \in 0..Len(buf) : k = Taken
  BY <1>1
<1>2. PICK g : g = Shifted(f, sent, k) /\ Streamed(g)'
  <2>1. buf' = SubSeq(buf, k + 1, Len(buf)) /\ UNCHANGED <<sent, silent, out, wire>>
    BY <1>1, <1>k
  <2> QED BY <1>k, <2>1, DropStreamed
<1>3. ASSUME Undisturbed' PROVE Sync(g)'
  <2>1. Undisturbed /\ Sync(f)
    BY <1>1, <1>3 DEF Undisturbed
  <2> QED BY <1>k, <1>2, <2>1, ExactSilent, ExactWhole
<1> QED BY <1>2, <1>3 DEF SInv

LEMMA InitSync == ASSUME Init PROVE SInv
<1>1. /\ sent = 0 /\ silent = {} /\ out = <<>> /\ wire = <<>> /\ buf = <<>>
      /\ round = 0 /\ op = "until" /\ timeout = FALSE /\ skips = 0
  BY DEF Init
<1>2. PICK f : f = [r \in 0..0 |-> 1]
  OBVIOUS
<1>3. f \in [0..0 -> Int] /\ f[0] = 1 /\ \A r \in 0..0 : f[r] = 1
  BY <1>2
<1>4. Stream = <<>> /\ Stream \in Seq(Pair) /\ Len(Stream) = 0
  BY <1>1 DEF Stream
<1>5. 0..(0 - 1) = {} /\ \A b \in 0..0 : b = 0
  OBVIOUS
<1>6. Laid(f, Stream, 0, {})
  <2>1. Order(f, 0) /\ Sizes(f, 0) /\ Gaps(f, 0, {})
    BY <1>3, <1>5 DEF Order, Sizes, Gaps
  <2>2. Starts(f, Stream, 0) /\ Contents(f, Stream, 0, {})
    BY <1>3, <1>4 DEF Starts, Contents
  <2> QED BY <1>3, <1>4, <2>1, <2>2 DEF Laid
<1>7. Streamed(f)
  BY <1>1, <1>6 DEF Streamed
<1>8. Due = 0
  BY <1>1, RoundsNat DEF Due, Cur
<1>9. Sync(f)
  <2>1. Uncut(f)
    BY <1>1, <1>5 DEF Uncut
  <2>2. InFront(f)
    BY <1>1, <1>3, <1>8 DEF InFront
  <2> QED BY <1>1, <2>1, <2>2 DEF Sync, TookDue, Patient
<1> QED BY <1>7, <1>9 DEF SInv

LEMMA StepSync == ASSUME CInv, SInv, [Next]_vars PROVE SInv'
<1>1. PICK f : Streamed(f) /\ (Undisturbed => Sync(f))
  BY DEF SInv
<1>2. CASE Finished \/ UNCHANGED vars
  BY <1>1, <1>2, StutterSync DEF Finished
<1> QED
  BY <1>1, <1>2, SendSync, WriteSync, GiveUpSync, PeerSkipsSync, ReadSync, FoundSync, UntilCancelledSync,
     ExactSync, TimerSync, AdvanceSync, SkipSync DEF Next, Read

\* Everything between the peer and the reader is laid out message by message,
\* and a reader that no timeout has disturbed has the message that is due in
\* front of it.
THEOREM StreamInvariant == Spec => []SInv
BY InitCInv, StepCInv, InitSync, StepSync, PTL DEF Spec

LEMMA SyncProperties == ASSUME CInv, SInv PROVE InStep /\ JobsBehind
<1>1. PICK f : Streamed(f) /\ (Undisturbed => Sync(f))
  BY DEF SInv
<1>2. InStep
  <2> SUFFICES ASSUME op = "off", slips = 0, skips = 0
               PROVE  took = IF round \in silent THEN <<>> ELSE nodes(round)
    BY DEF InStep
  <2>1. TookDue
    BY <1>1 DEF Undisturbed, Sync
  <2>2. Due - 1 = round
    BY DueFacts, RoundsNat DEF Cur
  <2> QED BY <2>1, <2>2 DEF TookDue
<1>3. JobsBehind
  <2> SUFFICES ASSUME op = "off", slips = 0, silent = {}
               PROVE  took = nodes(round - max_rounds * skips)
    BY DEF JobsBehind
  <2>1. TookDue
    BY <1>1 DEF Undisturbed, Sync
  <2>2. Due - 1 = round - max_rounds * skips
    BY DueFacts
  <2> QED BY <2>1, <2>2 DEF TookDue
<1> QED BY <1>2, <1>3

\* As long as no read and no write is cut short, a round takes exactly the
\* message of that round, for all shapes of the messages, all windows of the
\* sockets and all ways in which the stream is cut into reads; and from a peer
\* that skips the job it takes nothing.
THEOREM ReadersInStep == Spec => []InStep
BY ControlInvariant, StreamInvariant, SyncProperties, PTL

\* After any number of jobs that the reader skips it takes, for ever, the message
\* of the same round that many jobs ago.
THEOREM ReadersBehind == Spec => []JobsBehind
BY ControlInvariant, StreamInvariant, SyncProperties, PTL

-----------------------------------------------------------------------------
(* A reader that is never ahead.                                           *)

\* What a round consumes at most, d rounds long: a message with its delimiter,
\* up to which the first read skips, and a message without, which the second
\* one takes.
Ahead(m, d) == d * (2 * m + 1)

\* The sockets hold what the other rounds of a job can consume, where m is the
\* number of nodes of the longest message.
Fits(m) ==
  /\ m \in Nat /\ \A i \in 1..max_rounds : NodesIn[i] <= m
  /\ Window >= Ahead(m, max_rounds - 1)

Slack(m) == IF op = "exact" THEN m + 1 ELSE 0

\* The message of the round has not been consumed: the first read stops at its
\* delimiter at the latest.
NotPassed(f) ==
  /\ op # "exact" /\ Cur <= sent => f[Cur] >= 1
  /\ op = "exact" /\ Cur < sent /\ Cur \notin silent /\ Whole(f, Cur) => f[Cur] >= 0

\* Where a message was cut off, so much is in front of the next one that the
\* rounds up to it cannot consume it.
CutFar(f, m) ==
  \A r \in Cur..(sent - 1) : r \notin silent /\ ~ Whole(f, r) /\ Job(r + 1) <= Job(Cur) =>
    f[r + 1] >= (1 + Ahead(m, (r + 1) - Cur)) - Slack(m)

Behind(f, m) == NotPassed(f) /\ CutFar(f, m)

\* The inductive invariant.
NInv(m) == NeverAhead /\ \E f : Streamed(f) /\ Behind(f, m)

LEMMA AheadFacts ==
  ASSUME NEW m \in Nat, NEW d \in Nat
  PROVE  /\ Ahead(m, d) \in Nat /\ Ahead(m, d + 1) = Ahead(m, d) + 2 * m + 1
         /\ \A e \in Nat : d <= e => Ahead(m, d) <= Ahead(m, e)
<1>1. Ahead(m, d) \in Nat /\ Ahead(m, d + 1) = Ahead(m, d) + 2 * m + 1
  <2>1. \A a, b \in Nat : a * b \in Nat /\ (a + 1) * b = a * b + b
    BY Z3
  <2>2. PICK b \in Nat : b = 2 * m + 1
    OBVIOUS
  <2>3. d * b \in Nat /\ (d + 1) * b = d * b + b
    BY <2>1
  <2> QED BY <2>2, <2>3 DEF Ahead
<1>2. ASSUME NEW e \in Nat, d <= e PROVE Ahead(m, d) <= Ahead(m, e)
  <2>1. \A b, x \in Nat : (d + x) * b = d * b + x * b /\ d * b \in Nat /\ x * b \in Nat
    BY Z3
  <2>2. PICK b \in Nat : b = 2 * m + 1
    OBVIOUS
  <2>3. PICK x \in Nat : e = d + x
    <3>1. e - d \in Nat /\ e = d + (e - d)
      BY <1>2
    <3> QED BY <3>1
  <2>4. e * b = d * b + x * b /\ d * b \in Nat /\ x * b \in Nat
    BY <2>1, <2>3
  <2>5. d * b <= e * b
    BY <2>4
  <2> QED BY <2>2, <2>5 DEF Ahead
<1> QED BY <1>1, <1>2

LEMMA LenFits ==
  ASSUME NEW m, Fits(m), NEW r \in Nat
  PROVE  len(r) \in Nat \ {0} /\ len(r) <= m /\ m \in Nat
<1>1. (r % max_rounds) + 1 \in 1..max_rounds
  BY RoundsNat, Z3
<1> QED BY <1>1, LenNat DEF len, Fits

LEMMA Positions ==
  ASSUME CInv, NEW f, Streamed(f)
  PROVE  /\ sent \in Nat /\ Cur \in Nat /\ silent \in SUBSET (0..(sent - 1)) /\ \A r \in 0..sent : f[r] \in Int
         /\ f[sent] = Len(Stream) + 1 /\ Len(Stream) \in Nat /\ f[sent] >= 1 /\ Order(f, sent)
<1>1. sent \in Nat /\ Cur \in Nat /\ silent \in SUBSET (0..(sent - 1))
  BY DueFacts
<1>2. f \in [0..sent -> Int] /\ f[sent] = Len(Stream) + 1 /\ Order(f, sent)
  BY DEF Streamed, Laid
<1>3. Len(Stream) \in Nat
  BY StreamFacts
<1> QED BY <1>1, <1>2, <1>3

LEMMA SlackNat == ASSUME NEW m \in Nat PROVE Slack(m) \in Nat
BY DEF Slack

\* No token is consumed, no message sent or cut.
LEMMA BehindKept ==
  ASSUME CInv, NEW m, Fits(m), NEW f, Streamed(f), Behind(f, m),
         UNCHANGED <<sent, silent>>, Cur' = Cur, op' # "exact" => op # "exact"
  PROVE  Behind(f, m)'
<1>1. /\ sent \in Nat /\ Cur \in Nat /\ \A r \in 0..sent : f[r] \in Int
  BY Positions
<1>2. m \in Nat
  BY DEF Fits
<1>3. NotPassed(f)'
  <2>1. CASE op' = "exact" /\ op # "exact"
    <3>1. Cur < sent => f[Cur] >= 0
      <4> SUFFICES ASSUME Cur < sent PROVE f[Cur] >= 0
        OBVIOUS
      <4>1. f[Cur] >= 1 /\ f[Cur] \in Int
        BY <1>1, <2>1 DEF Behind, NotPassed
      <4> QED BY <4>1
    <3> QED BY <2>1, <3>1 DEF NotPassed
  <2>2. CASE op' = "exact" <=> op = "exact"
    BY <2>2 DEF Behind, NotPassed, Whole, len
  <2> QED BY <2>1, <2>2
<1>4. CutFar(f, m)'
  <2> SUFFICES ASSUME NEW r \in Cur..(sent - 1), r \notin silent, ~ Whole(f, r), Job(r + 1) <= Job(Cur)
               PROVE  f[r + 1] >= (1 + Ahead(m, (r + 1) - Cur)) - Slack(m)'
    BY DEF CutFar, Whole, len, Job, Ahead
  <2>1. f[r + 1] >= (1 + Ahead(m, (r + 1) - Cur)) - Slack(m)
    BY DEF Behind, CutFar
  <2>2. r + 1 \in 0..sent /\ (r + 1) - Cur \in Nat
    BY <1>1
  <2>3. f[r + 1] \in Int /\ Ahead(m, (r + 1) - Cur) \in Nat
    BY <1>1, <1>2, <2>2, AheadFacts
  <2>4. Slack(m) \in Nat /\ Slack(m)' \in Nat /\ Slack(m) <= Slack(m)'
    BY <1>2 DEF Slack
  <2> QED BY <2>1, <2>3, <2>4
<1> QED BY <1>3, <1>4 DEF Behind

LEMMA SendBehind ==
  ASSUME CInv, NEW m, Fits(m), NEW f, Streamed(f), Behind(f, m), PeerSend
  PROVE  \E g : Streamed(g)' /\ Behind(g, m)'
<1>1. PICK g : g = Extended(f, sent) /\ Streamed(g)'
  BY SendStreamed
<1>2. sent' = sent + 1 /\ UNCHANGED <<silent, op>> /\ Cur' = Cur
  BY DEF PeerSend, Cur
<1>3. /\ sent \in Nat /\ Cur \in Nat /\ silent \in SUBSET (0..(sent - 1))
      /\ \A r \in 0..sent : f[r] \in Int
      /\ f[sent] >= 1 /\ f[sent] \in Int
  BY Positions
<1>4. \A r \in 0..sent : g[r] = f[r]
  BY <1>1, <1>3 DEF Extended
<1>5. len(sent) \in Nat
  BY <1>3, LenNat
<1>6. g[sent + 1] = f[sent] + 1 + len(sent) /\ g[sent + 1] >= 1
  <2>1. sent + 1 \in 0..(sent + 1) /\ ~ (sent + 1 <= sent)
    BY <1>3
  <2>2. g[sent + 1] = f[sent] + 1 + len(sent)
    BY <1>1, <2>1 DEF Extended
  <2> QED BY <1>3, <1>5, <2>2
<1>7. ASSUME NEW r \in 0..(sent - 1) PROVE Whole(g, r) <=> Whole(f, r)
  <2>1. r \in 0..sent /\ r + 1 \in 0..sent
    BY <1>3
  <2> QED BY <1>4, <2>1 DEF Whole
<1>8. Whole(g, sent)
  <2>1. g[sent] = f[sent]
    BY <1>3, <1>4
  <2> QED BY <1>6, <2>1 DEF Whole
<1>9. NotPassed(g)'
  <2>1. op # "exact" /\ Cur <= sent + 1 => g[Cur] >= 1
    <3>1. CASE Cur = sent + 1
      BY <1>6, <3>1
    <3>2. CASE Cur # sent + 1
      <4>1. Cur <= sent + 1 => Cur \in 0..sent /\ Cur <= sent
        BY <1>3, <3>2
      <4> QED BY <1>4, <4>1 DEF Behind, NotPassed
    <3> QED BY <3>1, <3>2
  <2>2. op = "exact" /\ Cur < sent + 1 /\ Cur \notin silent /\ Whole(g, Cur) => g[Cur] >= 0
    <3>1. CASE Cur = sent
      <4>1. g[Cur] = f[sent]
        BY <1>3, <1>4, <3>1
      <4> QED BY <1>3, <4>1
    <3>2. CASE Cur # sent
      <4>1. Cur < sent + 1 => Cur \in 0..(sent - 1) /\ Cur \in 0..sent /\ Cur < sent
        BY <1>3, <3>2
      <4> QED BY <1>4, <1>7, <4>1 DEF Behind, NotPassed
    <3> QED BY <3>1, <3>2
  <2> QED BY <1>2, <2>1, <2>2 DEF NotPassed, Whole, len
<1>10. CutFar(g, m)'
  <2>1. ASSUME NEW r \in Cur..sent, r \notin silent, ~ Whole(g, r), Job(r + 1) <= Job(Cur)
        PROVE  g[r + 1] >= (1 + Ahead(m, (r + 1) - Cur)) - Slack(m)
    <3>1. r \in Cur..(sent - 1) /\ r \in 0..(sent - 1) /\ r + 1 \in 0..sent
      BY <1>3, <1>8, <2>1
    <3>2. f[r + 1] >= (1 + Ahead(m, (r + 1) - Cur)) - Slack(m)
      BY <1>7, <2>1, <3>1 DEF Behind, CutFar
    <3> QED BY <1>4, <3>1, <3>2
  <2>2. sent' - 1 = sent
    BY <1>2, <1>3
  <2>3. Slack(m)' = Slack(m)
    BY <1>2 DEF Slack
  <2> QED BY <1>2, <2>1, <2>2, <2>3 DEF CutFar, Whole, len, Job, Ahead
<1> QED BY <1>1, <1>9, <1>10 DEF Behind

LEMMA PeerSkipsBehind ==
  ASSUME CInv, NEW m, Fits(m), NEW f, Streamed(f), Behind(f, m), PeerSkipsJob
  PROVE  \E g : Streamed(g)' /\ Behind(g, m)'
<1>1. PICK g : g = Passed(f, sent, max_rounds) /\ Streamed(g)'
  BY SkipStreamed
<1>2. /\ sent' = sent + max_rounds /\ silent' = silent \cup (sent..(sent + max_rounds - 1)) /\ op' = op /\ Cur' = Cur
  BY DEF PeerSkipsJob, Cur
<1>3. /\ sent \in Nat /\ Cur \in Nat /\ max_rounds \in Nat
      /\ f[sent] >= 1 /\ f[sent] \in Int
  BY Positions, RoundsNat
<1>4. (\A r \in 0..sent : g[r] = f[r]) /\ \A r \in 0..(sent + max_rounds) : ~ (r <= sent) => g[r] = f[sent]
  BY <1>1, <1>3 DEF Passed
<1>5. ASSUME NEW r \in 0..(sent - 1) PROVE Whole(g, r) <=> Whole(f, r)
  <2>1. r \in 0..sent /\ r + 1 \in 0..sent
    BY <1>3
  <2> QED BY <1>4, <2>1 DEF Whole
<1>6. \A r \in 0..(sent' - 1) : r \notin silent' => r \in 0..(sent - 1) /\ r \notin silent
  BY <1>2, <1>3
<1>7. NotPassed(g)'
  <2>1. op # "exact" /\ Cur <= sent' => g[Cur] >= 1
    <3>1. CASE Cur <= sent
      <4>1. Cur \in 0..sent
        BY <1>3, <3>1
      <4> QED BY <1>4, <3>1, <4>1 DEF Behind, NotPassed
    <3>2. CASE ~ (Cur <= sent)
      <4>1. Cur <= sent' => Cur \in 0..(sent + max_rounds)
        BY <1>2, <1>3
      <4> QED BY <1>3, <1>4, <3>2, <4>1
    <3> QED BY <3>1, <3>2
  <2>2. op = "exact" /\ Cur < sent' /\ Cur \notin silent' /\ Whole(g, Cur) => g[Cur] >= 0
    <3> SUFFICES ASSUME op = "exact", Cur < sent', Cur \notin silent', Whole(g, Cur) PROVE g[Cur] >= 0
      OBVIOUS
    <3>1. Cur \in 0..(sent' - 1)
      BY <1>2, <1>3
    <3>2. Cur \in 0..(sent - 1) /\ Cur \notin silent
      BY <1>6, <3>1
    <3>3. Cur < sent /\ Cur \in 0..sent /\ Whole(f, Cur)
      BY <1>3, <1>5, <3>2
    <3> QED BY <1>4, <3>2, <3>3 DEF Behind, NotPassed
  <2> QED BY <1>2, <2>1, <2>2 DEF NotPassed, Whole, len
<1>8. CutFar(g, m)'
  <2>1. ASSUME NEW r \in Cur..(sent' - 1), r \notin silent', ~ Whole(g, r), Job(r + 1) <= Job(Cur)
        PROVE  g[r + 1] >= (1 + Ahead(m, (r + 1) - Cur)) - Slack(m)
    <3>1. r \in 0..(sent' - 1)
      BY <1>2, <1>3
    <3>2. r \in 0..(sent - 1) /\ r \notin silent
      BY <1>6, <2>1, <3>1
    <3>3. r \in Cur..(sent - 1) /\ r + 1 \in 0..sent
      BY <1>2, <1>3, <3>2
    <3>4. f[r + 1] >= (1 + Ahead(m, (r + 1) - Cur)) - Slack(m)
      BY <1>5, <2>1, <3>2, <3>3 DEF Behind, CutFar
    <3> QED BY <1>4, <3>3, <3>4
  <2>2. Slack(m)' = Slack(m)
    BY <1>2 DEF Slack
  <2> QED BY <1>2, <2>1, <2>2 DEF CutFar, Whole, len, Job, Ahead
<1> QED BY <1>1, <1>7, <1>8 DEF Behind

LEMMA GiveUpBehind ==
  ASSUME CInv, NEW m, Fits(m), NEW f, Streamed(f), Behind(f, m), PeerGivesUp
  PROVE  \E g : Streamed(g)' /\ Behind(g, m)'
<1>1. PICK g : g = Cut(f, sent, Len(buf) + Len(wire)) /\ Streamed(g)'
  BY GiveUpStreamed
<1>2. sent > 0 /\ sent - 1 \notin silent /\ UNCHANGED <<sent, silent, op>> /\ Cur' = Cur /\ Len(wire) = Window /\ out # <<>>
  BY GiveUpStreamed DEF PeerGivesUp, Cur
<1>3. /\ sent \in Nat /\ Cur \in Nat /\ \A r \in 0..sent : f[r] \in Int
  BY Positions
<1>4. Len(buf) \in Nat /\ Window \in Nat
  BY StreamFacts, Constants
<1>5. g[sent] = Len(buf) + Window + 1 /\ \A r \in 0..(sent - 1) : g[r] = f[r]
  <2>1. f \in [0..sent -> Int]
    BY DEF Streamed, Laid
  <2> QED BY <1>1, <1>2, <1>3, <1>4, <2>1 DEF Cut
<1>6. g[sent] >= Window + 1 /\ g[sent] >= 1 /\ g[sent] \in Int
  BY <1>4, <1>5
<1>7. Whole(f, sent - 1)
  BY <1>2 DEF Streamed
<1>8. ASSUME NEW r \in 0..(sent - 1), r # sent - 1 PROVE Whole(g, r) <=> Whole(f, r)
  <2>1. r \in 0..(sent - 1) /\ r + 1 \in 0..(sent - 1)
    BY <1>3, <1>8
  <2> QED BY <1>5, <2>1 DEF Whole
<1>9. NotPassed(g)'
  <2>1. op # "exact" /\ Cur <= sent => g[Cur] >= 1
    <3>1. CASE Cur = sent
      BY <1>6, <3>1
    <3>2. CASE Cur # sent
      <4>1. Cur <= sent => Cur \in 0..(sent - 1)
        BY <1>3, <3>2
      <4> QED BY <1>5, <4>1 DEF Behind, NotPassed
    <3> QED BY <3>1, <3>2
  <2>2. op = "exact" /\ Cur < sent /\ Cur \notin silent /\ Whole(g, Cur) => g[Cur] >= 0
    <3>1. Cur < sent => Cur \in 0..(sent - 1)
      BY <1>3
    <3>2. Cur < sent /\ Whole(g, Cur) => Whole(f, Cur)
      BY <1>7, <1>8, <3>1
    <3> QED BY <1>5, <3>1, <3>2 DEF Behind, NotPassed
  <2> QED BY <1>2, <2>1, <2>2 DEF NotPassed, Whole, len
<1>10. CutFar(g, m)'
  <2>1. ASSUME NEW r \in Cur..(sent - 1), r \notin silent, ~ Whole(g, r), Job(r + 1) <= Job(Cur)
        PROVE  g[r + 1] >= (1 + Ahead(m, (r + 1) - Cur)) - Slack(m)
    <3>0. m \in Nat /\ Window >= Ahead(m, max_rounds - 1) /\ max_rounds \in Nat \ {0}
      BY RoundsNat DEF Fits
    <3>1. CASE r = sent - 1
      <4>1. r + 1 = sent /\ Cur <= sent /\ sent - Cur \in Nat /\ Cur < sent
        BY <1>3, <3>1
      <4>2. Job(sent) <= Job(Cur) /\ Job(Cur) <= Job(sent) /\ Job(sent) \in Nat /\ Job(Cur) \in Nat
        BY <1>3, <2>1, <4>1, JobOrder, JobNat
      <4>3. Job(Cur) = Job(sent)
        BY <4>2
      <4>4. sent - Cur < max_rounds
        BY <1>3, <4>3, JobLength
      <4>5. sent - Cur <= max_rounds - 1 /\ max_rounds - 1 \in Nat
        BY <3>0, <4>1, <4>4
      <4>6. Ahead(m, sent - Cur) <= Ahead(m, max_rounds - 1) /\ Ahead(m, sent - Cur) \in Nat /\ Ahead(m, max_rounds - 1) \in Nat
        BY <3>0, <4>1, <4>5, AheadFacts
      <4>7. Slack(m) \in Nat
        BY <3>0, SlackNat
      <4>8. g[sent] >= (1 + Ahead(m, sent - Cur)) - Slack(m)
        BY <1>4, <1>6, <3>0, <4>6, <4>7
      <4> QED BY <4>1, <4>8
    <3>2. CASE r # sent - 1
      <4>1. r \in 0..(sent - 1) /\ r + 1 \in 0..(sent - 1)
        BY <1>3, <3>2
      <4>2. f[r + 1] >= (1 + Ahead(m, (r + 1) - Cur)) - Slack(m)
        BY <1>8, <2>1, <3>2, <4>1 DEF Behind, CutFar
      <4> QED BY <1>5, <4>1, <4>2
    <3> QED BY <3>1, <3>2
  <2>2. Slack(m)' = Slack(m)
    BY <1>2 DEF Slack
  <2> QED BY <1>2, <2>1, <2>2 DEF CutFar, Whole, len, Job, Ahead
<1> QED BY <1>1, <1>9, <1>10 DEF Behind

\* Consuming k tokens moves every message by k.
LEMMA ShiftFacts ==
  ASSUME CInv, NEW f, Streamed(f), NEW k \in Nat, NEW g, g = Shifted(f, sent, k)
  PROVE  /\ \A r \in 0..sent : g[r] = f[r] - k /\ g[r] \in Int
         /\ \A r \in 0..(sent - 1) : Whole(g, r) <=> Whole(f, r)
<1>1. sent \in Nat /\ \A r \in 0..sent : f[r] \in Int
  BY Positions
<1>2. ASSUME NEW r \in 0..sent PROVE g[r] = f[r] - k /\ g[r] \in Int
  BY <1>1 DEF Shifted
<1>3. ASSUME NEW r \in 0..(sent - 1) PROVE Whole(g, r) <=> Whole(f, r)
  <2>1. r \in 0..sent /\ r + 1 \in 0..sent /\ r \in Nat
    BY <1>1
  <2>2. len(r) \in Nat /\ f[r] \in Int /\ f[r + 1] \in Int /\ g[r] = f[r] - k /\ g[r + 1] = f[r + 1] - k
    BY <1>1, <1>2, <2>1, LenNat
  <2> QED BY <2>2 DEF Whole
<1> QED BY <1>2, <1>3

\* Where the first read finds the delimiter: not behind the first token of any
\* message, and not behind the longest message.
LEMMA FirstPosition ==
  ASSUME CInv, NEW m, Fits(m), NEW f, Streamed(f), NEW n \in 1..Len(buf), First(n)
  PROVE  /\ \A b \in 0..sent : f[b] >= 1 => n <= f[b]
         /\ n <= m + 1
<1>1. /\ sent \in Nat /\ \A r \in 0..sent : f[r] \in Int
      /\ f[sent] = Len(Stream) + 1 /\ Len(Stream) \in Nat /\ Order(f, sent)
  BY Positions
<1>2. /\ Len(buf) \in Nat /\ Len(Stream) >= Len(buf) /\ buf \in Seq(Pair)
      /\ \A i \in 1..Len(buf) : Stream[i] = buf[i]
  <2>1. /\ Len(buf) \in Nat /\ Len(wire) \in Nat /\ Len(out) \in Nat /\ Len(Stream) = Len(buf) + Len(wire) + Len(out)
    BY StreamFacts
  <2> QED BY <2>1, StreamFacts
<1>3. n \in Nat /\ n >= 1 /\ n <= Len(buf) /\ \A j \in 1..(n - 1) : buf[j] # delim
  BY <1>2 DEF First
<1>4. ASSUME NEW b \in 0..sent, f[b] >= 1 PROVE n <= f[b]
  <2> SUFFICES ASSUME f[b] < n PROVE FALSE
    BY <1>1, <1>3
  <2>1. f[b] \in 1..(n - 1) /\ f[b] \in 1..Len(buf) /\ f[b] \in 1..Len(Stream)
    BY <1>1, <1>2, <1>3, <1>4
  <2>2. Stream[f[b]] = delim
    BY <2>1 DEF Streamed, Laid, Starts
  <2> QED BY <1>2, <1>3, <2>1, <2>2
<1>5. n <= m + 1
  <2>1. 1 \in 1..Len(Stream)
    BY <1>1, <1>2, <1>3
  <2>2. PICK q \in 0..(sent - 1) : Holds(f, Stream, q, 1)
    BY <2>1 DEF Streamed, Laid, Contents
  <2>3. q \in 0..sent /\ q + 1 \in 0..sent /\ q \in Nat
    BY <1>1
  <2>4. f[q] <= 1 /\ 1 < f[q + 1] /\ f[q] \in Int /\ f[q + 1] \in Int
    BY <1>1, <2>2, <2>3 DEF Holds
  <2>5. len(q) \in Nat /\ len(q) <= m /\ m \in Nat
    BY <2>3, LenFits
  <2>6. f[q + 1] <= f[q] + 1 + len(q)
    BY DEF Streamed, Laid, Sizes
  <2>7. CASE f[q] = 1
    <3>1. n <= f[q]
      BY <1>4, <2>3, <2>7
    <3> QED BY <1>3, <2>5, <2>7, <3>1
  <2>8. CASE f[q] # 1
    <3>1. n <= f[q + 1]
      BY <1>4, <2>3, <2>4
    <3> QED BY <1>3, <2>4, <2>5, <2>6, <2>8, <3>1
  <2> QED BY <2>7, <2>8
<1> QED BY <1>4, <1>5

LEMMA FoundBehind ==
  ASSUME CInv, NEW m, Fits(m), NEW f, Streamed(f), Behind(f, m), UntilFound
  PROVE  \E g : Streamed(g)' /\ Behind(g, m)'
<1>1. PICK n \in 1..Len(buf) : First(n) /\ Start(SubSeq(buf, n + 1, Len(buf)))
  BY FoundStep
<1>2. /\ UNCHANGED <<sent, silent, out, wire, round, timeout, took, slips, skips>>
      /\ op = "until" /\ op' = "exact" /\ buf' = SubSeq(buf, n + 1, Len(buf)) /\ Cur' = Cur
  BY <1>1, StartFrame DEF UntilFound, Cur
<1>3. n \in 0..Len(buf) /\ n \in Nat
  BY StreamFacts
<1>4. PICK g : g = Shifted(f, sent, n) /\ Streamed(g)'
  BY <1>2, <1>3, DropStreamed
<1>5. /\ sent \in Nat /\ Cur \in Nat /\ \A r \in 0..sent : f[r] \in Int
  BY Positions
<1>6. /\ \A r \in 0..sent : g[r] = f[r] - n /\ g[r] \in Int
      /\ \A r \in 0..(sent - 1) : Whole(g, r) <=> Whole(f, r)
  BY <1>3, <1>4, ShiftFacts
<1>7. (\A b \in 0..sent : f[b] >= 1 => n <= f[b]) /\ n <= m + 1 /\ m \in Nat
  BY <1>1, FirstPosition DEF Fits
<1>8. NotPassed(g)'
  <2>1. ASSUME Cur < sent PROVE g[Cur] >= 0
    <3>1. Cur \in 0..sent /\ f[Cur] >= 1
      BY <1>2, <1>5, <2>1 DEF Behind, NotPassed
    <3>2. n <= f[Cur] /\ f[Cur] \in Int /\ g[Cur] = f[Cur] - n
      BY <1>5, <1>6, <1>7, <3>1
    <3> QED BY <1>3, <3>2
  <2> QED BY <1>2, <2>1 DEF NotPassed
<1>9. CutFar(g, m)'
  <2>1. ASSUME NEW r \in Cur..(sent - 1), r \notin silent, ~ Whole(g, r), Job(r + 1) <= Job(Cur)
        PROVE  g[r + 1] >= (1 + Ahead(m, (r + 1) - Cur)) - (m + 1)
    <3>1. r \in 0..(sent - 1) /\ r + 1 \in 0..sent /\ (r + 1) - Cur \in Nat
      BY <1>5
    <3>2. f[r + 1] >= (1 + Ahead(m, (r + 1) - Cur)) - Slack(m)
      BY <1>6, <2>1, <3>1 DEF Behind, CutFar
    <3>3. Slack(m) = 0
      BY <1>2 DEF Slack
    <3>4. Ahead(m, (r + 1) - Cur) \in Nat /\ f[r + 1] \in Int /\ g[r + 1] = f[r + 1] - n
      BY <1>5, <1>6, <1>7, <3>1, AheadFacts
    <3> QED BY <1>3, <1>7, <3>2, <3>3, <3>4
  <2>2. Slack(m)' = m + 1
    BY <1>2 DEF Slack
  <2> QED BY <1>2, <2>1, <2>2 DEF CutFar, Whole, len, Job, Ahead
<1> QED BY <1>4, <1>8, <1>9 DEF Behind

\* What the second handler takes is in front of the message of the next round.
LEMMA TakenBefore ==
  ASSUME CInv, NEW m, Fits(m), NEW f, Streamed(f), Behind(f, m), ExactHandler, round + 1 <= sent
  PROVE  f[round + 1] >= Taken + 1
<1>1. /\ Taken \in 0..Len(buf) /\ Taken \in Nat /\ Taken <= len(round) /\ Len(buf) \in Nat /\ op = "exact"
  BY ExactStep
<1>2. /\ sent \in Nat /\ Cur \in Nat /\ silent \in SUBSET (0..(sent - 1)) /\ \A r \in 0..sent : f[r] \in Int
      /\ f[sent] = Len(Stream) + 1 /\ Len(Stream) \in Nat
  BY Positions
<1>3. Cur = round /\ round \in Nat
  BY <1>1, <1>2 DEF Cur
<1>4. Taken <= Len(Stream)
  <2>1. Len(buf) \in Nat /\ Len(wire) \in Nat /\ Len(out) \in Nat /\ Len(Stream) = Len(buf) + Len(wire) + Len(out)
    BY StreamFacts
  <2> QED BY <1>1, <2>1
<1>5. round \in 0..(sent - 1) /\ round \in 0..sent /\ round + 1 \in 0..sent /\ f[round] \in Int /\ f[round + 1] \in Int
  BY <1>2, <1>3
<1>6. len(round) \in Nat /\ len(round) <= m /\ m \in Nat
  BY <1>3, LenFits
<1>7. CASE round + 1 = sent
  BY <1>1, <1>2, <1>4, <1>7
<1>8. CASE round + 1 # sent
  <2>1. round + 1 \in 0..(sent - 1)
    BY <1>2, <1>3, <1>8
  <2>2. Job(round + 1) <= Job(Cur)
    BY <2>1 DEF CInv, Jobs
  <2>3. CASE round \in silent
    <3>1. ASSUME NEW r \in (round + 1)..(sent - 1) PROVE r \in silent
      <4>1. r \in 0..(sent - 1) /\ r \in Nat /\ round <= r
        BY <1>2, <1>3
      <4>2. Job(r) <= Job(round) /\ Job(round) <= Job(r) /\ Job(r) \in Nat /\ Job(round) \in Nat
        BY <1>3, <4>1, JobOrder, JobNat DEF CInv, Jobs
      <4>3. Job(r) = Job(round)
        BY <4>2
      <4> QED BY <2>3, <4>1, <4>3 DEF CInv, Jobs
    <3>2. sent \in 0..sent /\ round + 1 <= sent
      BY <1>2
    <3>3. f[round + 1] = f[sent]
      BY <1>5, <3>1, <3>2 DEF Streamed, Laid, Gaps
    <3> QED BY <1>1, <1>2, <1>4, <3>3
  <2>4. CASE round \notin silent /\ Whole(f, round)
    <3>1. f[round] >= 0
      BY <1>1, <1>2, <1>3, <1>5, <2>4 DEF Behind, NotPassed
    <3>2. f[round + 1] = f[round] + 1 + len(round)
      BY <2>4 DEF Whole
    <3> QED BY <1>1, <1>5, <1>6, <3>1, <3>2
  <2>5. CASE round \notin silent /\ ~ Whole(f, round)
    <3>1. round \in Cur..(sent - 1)
      BY <1>3, <1>5
    <3>2. f[round + 1] >= (1 + Ahead(m, (round + 1) - Cur)) - Slack(m)
      BY <1>3, <2>2, <2>5, <3>1 DEF Behind, CutFar
    <3>3. (round + 1) - Cur = 0 + 1 /\ Slack(m) = m + 1
      BY <1>1, <1>3 DEF Slack
    <3>4. Ahead(m, 0 + 1) = Ahead(m, 0) + 2 * m + 1 /\ Ahead(m, 0) \in Nat
      BY <1>6, AheadFacts
    <3>5. Ahead(m, (round + 1) - Cur) = Ahead(m, 0) + 2 * m + 1
      BY <3>3, <3>4
    <3> QED BY <1>1, <1>5, <1>6, <3>2, <3>3, <3>4, <3>5
  <2> QED BY <2>3, <2>4, <2>5
<1> QED BY <1>7, <1>8

LEMMA ExactBehind ==
  ASSUME CInv, NEW m, Fits(m), NEW f, Streamed(f), Behind(f, m), ExactHandler
  PROVE  \E g : Streamed(g)' /\ Behind(g, m)'
<1>1. /\ Taken \in 0..Len(buf) /\ Taken \in Nat /\ Taken <= len(round) /\ buf' = SubSeq(buf, Taken + 1, Len(buf))
      /\ op = "exact" /\ op' = "off" /\ UNCHANGED <<sent, silent, out, wire, round>>
  BY ExactStep
<1>k. PICK k \in Nat : k = Taken /\ k \in 0..Len(buf)
  BY <1>1
<1>2. PICK g : g = Shifted(f, sent, k) /\ Streamed(g)'
  <2>1. buf' = SubSeq(buf, k + 1, Len(buf)) /\ UNCHANGED <<sent, silent, out, wire>>
    BY <1>1, <1>k
  <2> QED BY <1>k, <2>1, DropStreamed
<1>3. sent \in Nat /\ Cur \in Nat /\ \A r \in 0..sent : f[r] \in Int
  BY Positions
<1>4. Cur = round /\ Cur' = round + 1 /\ round \in Nat
  BY <1>1, <1>3 DEF Cur
<1>5. /\ \A r \in 0..sent : g[r] = f[r] - k /\ g[r] \in Int
      /\ \A r \in 0..(sent - 1) : Whole(g, r) <=> Whole(f, r)
  BY <1>2, ShiftFacts
<1>6. k <= m /\ m \in Nat
  <2>1. len(round) \in Nat /\ len(round) <= m /\ m \in Nat
    BY <1>4, LenFits
  <2> QED BY <1>1, <1>k, <2>1
<1>7. NotPassed(g)'
  <2>1. ASSUME round + 1 <= sent PROVE g[round + 1] >= 1
    <3>1. round + 1 \in 0..sent
      BY <1>3, <1>4, <2>1
    <3>2. f[round + 1] >= k + 1 /\ f[round + 1] \in Int
      BY <1>3, <1>k, <2>1, <3>1, TakenBefore
    <3> QED BY <1>5, <3>1, <3>2
  <2> QED BY <1>1, <1>4, <2>1 DEF NotPassed
<1>8. CutFar(g, m)'
  <2>1. ASSUME NEW r \in (round + 1)..(sent - 1), r \notin silent, ~ Whole(g, r), Job(r + 1) <= Job(round + 1)
        PROVE  g[r + 1] >= 1 + Ahead(m, (r + 1) - (round + 1))
    <3>1. r \in 0..(sent - 1) /\ r \in Nat /\ r + 1 \in 0..sent /\ r \in Cur..(sent - 1) /\ round + 1 <= r
      BY <1>3, <1>4
    <3>2. Job(r + 1) <= Job(Cur)
      <4>1. Job(r) <= Job(Cur)
        BY <3>1 DEF CInv, Jobs
      <4>2. /\ Job(round + 1) <= Job(r) /\ Job(r) \in Nat /\ Job(Cur) \in Nat /\ Job(round + 1) \in Nat /\ Job(r + 1) \in Nat
        BY <1>3, <1>4, <3>1, JobOrder, JobNat
      <4> QED BY <2>1, <4>1, <4>2
    <3>3. f[r + 1] >= (1 + Ahead(m, (r + 1) - Cur)) - Slack(m)
      BY <1>5, <2>1, <3>1, <3>2 DEF Behind, CutFar
    <3> DEFINE d == (r + 1) - (round + 1)
    <3>4. d \in Nat /\ (r + 1) - Cur = d + 1 /\ Slack(m) = m + 1
      BY <1>1, <1>4, <3>1 DEF Slack
    <3> HIDE DEF d
    <3>5. Ahead(m, d + 1) = Ahead(m, d) + 2 * m + 1 /\ Ahead(m, d) \in Nat
      BY <1>6, <3>4, AheadFacts
    <3>6. f[r + 1] \in Int /\ g[r + 1] = f[r + 1] - k
      BY <1>3, <1>5, <3>1
    <3>7. f[r + 1] >= (1 + (Ahead(m, d) + 2 * m + 1)) - (m + 1)
      BY <3>3, <3>4, <3>5
    <3>8. g[r + 1] >= 1 + Ahead(m, d)
      BY <1>6, <3>5, <3>6, <3>7
    <3> QED BY <3>8 DEF d
  <2>2. Slack(m)' = 0
    BY <1>1 DEF Slack
  <2>3. ASSUME NEW r \in (round + 1)..(sent - 1), r \notin silent, ~ Whole(g, r), Job(r + 1) <= Job(round + 1)
        PROVE  g[r + 1] >= (1 + Ahead(m, (r + 1) - (round + 1))) - 0
    <3>1. g[r + 1] >= 1 + Ahead(m, (r + 1) - (round + 1))
      BY <2>1, <2>3
    <3>2. (r + 1) - (round + 1) \in Nat
      BY <1>3, <1>4
    <3>3. Ahead(m, (r + 1) - (round + 1)) \in Nat
      BY <1>6, <3>2, AheadFacts
    <3> QED BY <3>1, <3>3
  <2> QED BY <1>1, <1>4, <2>2, <2>3 DEF CutFar, Whole, len, Job, Ahead
<1> QED BY <1>2, <1>7, <1>8 DEF Behind

LEMMA SkipBehind ==
  ASSUME CInv, NEW m, Fits(m), NEW f, Streamed(f), Behind(f, m), SkipJob
  PROVE  Streamed(f)' /\ Behind(f, m)'
<1>1. /\ UNCHANGED <<sent, silent, out, wire, buf>> /\ op = "off" /\ op' = "until"
      /\ round' = round + 1 + max_rounds /\ (round + 1) % max_rounds = 0
  BY DEF SkipJob, NextRound, peerVars
<1>2. Streamed(f)'
  BY <1>1, SameStreamed
<1>3. sent \in Nat /\ Cur \in Nat /\ f[sent] >= 1
  BY Positions
<1>4. Cur = round + 1 /\ Cur' = Cur + max_rounds /\ max_rounds \in Nat \ {0} /\ Cur' \in Nat
  BY <1>1, <1>3, RoundsNat, DueFacts DEF Cur
<1>5. sent <= Cur'
  <2> SUFFICES ASSUME Cur' < sent PROVE FALSE
    BY <1>3, <1>4
  <2>1. Cur + max_rounds \in 0..(sent - 1)
    BY <1>3, <1>4
  <2>2. Job(Cur + max_rounds) <= Job(Cur)
    BY <2>1 DEF CInv, Jobs
  <2>3. Job(Cur + max_rounds) = Job(Cur) + 1 /\ Job(Cur) \in Nat
    BY <1>3, NextJob, JobNat
  <2> QED BY <2>2, <2>3
<1>6. NotPassed(f)'
  <2>1. Cur' <= sent => Cur' = sent
    BY <1>3, <1>4, <1>5
  <2> QED BY <1>1, <1>3, <2>1 DEF NotPassed
<1>7. CutFar(f, m)'
  <2>1. Cur'..(sent' - 1) = {}
    BY <1>1, <1>3, <1>4, <1>5
  <2> QED BY <2>1 DEF CutFar
<1> QED BY <1>2, <1>6, <1>7 DEF Behind

LEMMA ExactNeverAhead ==
  ASSUME CInv, NEW m, Fits(m), NEW f, Streamed(f), Behind(f, m), ExactHandler
  PROVE  NeverAhead'
<1>1. /\ Taken \in 0..Len(buf) /\ Taken \in Nat /\ Len(buf) \in Nat
      /\ took' \in Seq(Token) /\ Len(took') = Taken /\ \A i \in 1..Taken : took'[i] = buf[i]
      /\ op = "exact" /\ round' = round
  BY ExactStep
<1>2. DOMAIN took' = 1..Taken
  BY <1>1, LenProperties
<1>3. /\ sent \in Nat /\ \A r \in 0..sent : f[r] \in Int
      /\ Order(f, sent) /\ round \in Nat
  BY Positions, DueFacts
<1>4. ASSUME NEW i \in 1..Taken PROVE took'[i] = delim \/ took'[i][1] <= round
  <2>1. i \in 1..Len(buf) /\ i \in 1..Len(Stream) /\ i \in Nat /\ i <= Taken
    <3>1. Len(Stream) = Len(buf) + Len(wire) + Len(out) /\ Len(buf) \in Nat /\ Len(wire) \in Nat /\ Len(out) \in Nat
      BY StreamFacts
    <3> QED BY <1>1, <3>1
  <2>2. took'[i] = Stream[i]
    <3>1. Stream[i] = buf[i]
      BY <2>1, StreamFacts
    <3> QED BY <1>1, <3>1
  <2>3. PICK q \in 0..(sent - 1) : Holds(f, Stream, q, i)
    BY <2>1 DEF Streamed, Laid, Contents
  <2>4. q \in Nat /\ q \in 0..sent
    BY <1>3
  <2>5. q <= round
    <3> SUFFICES ASSUME round < q PROVE FALSE
      BY <1>3, <2>4
    <3>1. round + 1 <= sent /\ round + 1 \in 0..sent /\ round + 1 <= q
      BY <1>3, <2>4
    <3>2. f[round + 1] >= Taken + 1
      BY <3>1, TakenBefore
    <3>3. f[round + 1] <= f[q]
      BY <1>3, <2>4, <3>1 DEF Order
    <3>4. f[q] <= i /\ f[q] \in Int /\ f[round + 1] \in Int
      BY <1>3, <2>3, <2>4, <3>1 DEF Holds
    <3> QED BY <1>1, <2>1, <3>2, <3>3, <3>4
  <2>6. Stream[i] = delim \/ Stream[i] = <<q, i - f[q]>>
    BY <2>3 DEF Holds
  <2>7. <<q, i - f[q]>>[1] = q
    OBVIOUS
  <2> QED BY <2>2, <2>5, <2>6, <2>7
<1> QED BY <1>1, <1>2, <1>4 DEF NeverAhead, delim

\* A round starts with empty receive buffers, and only the second handler fills
\* them.
LEMMA OthersNeverAhead ==
  ASSUME NeverAhead, took' = <<>> \/ UNCHANGED <<took, round>>
  PROVE  NeverAhead'
BY DEF NeverAhead, delim

LEMMA StepNever ==
  ASSUME NEW m, Fits(m), CInv, NInv(m), [Next]_vars
  PROVE  NInv(m)'
<1>1. PICK f : Streamed(f) /\ Behind(f, m)
  BY DEF NInv
<1>2. NeverAhead
  BY DEF NInv
<1>3. CASE PeerSend
  <2>1. \E g : Streamed(g)' /\ Behind(g, m)'
    BY <1>1, <1>3, SendBehind
  <2>2. NeverAhead'
    BY <1>2, <1>3, OthersNeverAhead DEF PeerSend
  <2> QED BY <2>1, <2>2 DEF NInv
<1>4. ASSUME NEW n \in 1..Len(out), PeerWrite(n) PROVE NInv(m)'
  <2>1. Streamed(f)'
    BY <1>1, <1>4, WriteStreamed
  <2>2. UNCHANGED <<sent, silent, op, took, round>> /\ Cur' = Cur
    BY <1>4 DEF PeerWrite, Cur
  <2>3. Behind(f, m)' /\ NeverAhead'
    BY <1>1, <1>2, <2>2, BehindKept, OthersNeverAhead
  <2> QED BY <2>1, <2>3 DEF NInv
<1>5. CASE PeerGivesUp
  <2>1. \E g : Streamed(g)' /\ Behind(g, m)'
    BY <1>1, <1>5, GiveUpBehind
  <2>2. NeverAhead'
    BY <1>2, <1>5, OthersNeverAhead DEF PeerGivesUp
  <2> QED BY <2>1, <2>2 DEF NInv
<1>6. CASE PeerSkipsJob
  <2>1. \E g : Streamed(g)' /\ Behind(g, m)'
    BY <1>1, <1>6, PeerSkipsBehind
  <2>2. NeverAhead'
    BY <1>2, <1>6, OthersNeverAhead DEF PeerSkipsJob
  <2> QED BY <2>1, <2>2 DEF NInv
<1>7. ASSUME NEW n \in 1..Len(wire), ReadSome(n) PROVE NInv(m)'
  <2>1. Streamed(f)'
    BY <1>1, <1>7, ReadStreamed
  <2>2. UNCHANGED <<sent, silent, op, took, round>> /\ Cur' = Cur
    BY <1>7 DEF ReadSome, peerVars, Cur
  <2>3. Behind(f, m)' /\ NeverAhead'
    BY <1>1, <1>2, <2>2, BehindKept, OthersNeverAhead
  <2> QED BY <2>1, <2>3 DEF NInv
<1>8. CASE UntilFound
  <2>1. \E g : Streamed(g)' /\ Behind(g, m)'
    BY <1>1, <1>8, FoundBehind
  <2>2. NeverAhead'
    BY <1>2, <1>8, OthersNeverAhead DEF UntilFound
  <2> QED BY <2>1, <2>2 DEF NInv
<1>9. CASE UntilCancelled
  <2>1. UNCHANGED <<sent, silent, out, wire, buf, took, round>> /\ op # "off" /\ op' = "exact" /\ Cur' = Cur
    BY <1>9, StartFrame DEF UntilCancelled, Cur
  <2>2. Streamed(f)'
    BY <1>1, <2>1, SameStreamed
  <2>3. Behind(f, m)' /\ NeverAhead'
    BY <1>1, <1>2, <2>1, BehindKept, OthersNeverAhead
  <2> QED BY <2>2, <2>3 DEF NInv
<1>10. CASE ExactHandler
  <2>1. \E g : Streamed(g)' /\ Behind(g, m)'
    BY <1>1, <1>10, ExactBehind
  <2>2. NeverAhead'
    BY <1>1, <1>10, ExactNeverAhead
  <2> QED BY <2>1, <2>2 DEF NInv
<1>11. CASE TimerFires
  <2>1. UNCHANGED <<sent, silent, out, wire, buf, op, took, round>> /\ Cur' = Cur
    BY <1>11 DEF TimerFires, peerVars, Cur
  <2>2. Streamed(f)'
    BY <1>1, <2>1, SameStreamed
  <2>3. Behind(f, m)' /\ NeverAhead'
    BY <1>1, <1>2, <2>1, BehindKept, OthersNeverAhead
  <2> QED BY <2>2, <2>3 DEF NInv
<1>12. CASE Advance
  <2>1. /\ UNCHANGED <<sent, silent, out, wire, buf>> /\ took' = <<>> /\ Cur' = Cur /\ op # "exact"
    BY <1>12 DEF Advance, NextRound, peerVars, Cur
  <2>2. Streamed(f)'
    BY <1>1, <2>1, SameStreamed
  <2>3. Behind(f, m)' /\ NeverAhead'
    BY <1>1, <1>2, <2>1, BehindKept, OthersNeverAhead
  <2> QED BY <2>2, <2>3 DEF NInv
<1>13. CASE SkipJob
  <2>1. Streamed(f)' /\ Behind(f, m)'
    BY <1>1, <1>13, SkipBehind
  <2>2. NeverAhead'
    BY <1>2, <1>13, OthersNeverAhead DEF SkipJob, NextRound
  <2> QED BY <2>1, <2>2 DEF NInv
<1>14. CASE Finished \/ UNCHANGED vars
  <2>1. UNCHANGED <<sent, silent, out, wire, buf, op, took, round>> /\ Cur' = Cur
    BY <1>14 DEF Finished, vars, Cur
  <2>2. Streamed(f)'
    BY <1>1, <2>1, SameStreamed
  <2>3. Behind(f, m)' /\ NeverAhead'
    BY <1>1, <1>2, <2>1, BehindKept, OthersNeverAhead
  <2> QED BY <2>2, <2>3 DEF NInv
<1> QED
  BY <1>3, <1>4, <1>5, <1>6, <1>7, <1>8, <1>9, <1>10, <1>11, <1>12, <1>13, <1>14 DEF Next, Read

LEMMA InitNever == ASSUME NEW m, Init PROVE NInv(m)
<1>1. PICK f : Streamed(f)
  BY InitSync DEF SInv
<1>2. sent = 0 /\ round = 0 /\ op = "until" /\ took = <<>> /\ CInv
  BY InitCInv DEF Init
<1>3. Cur = 0 /\ f[sent] >= 1
  BY <1>1, <1>2, Positions DEF Cur
<1>4. Behind(f, m)
  BY <1>2, <1>3 DEF Behind, NotPassed, CutFar
<1>5. NeverAhead
  BY <1>2 DEF NeverAhead
<1> QED BY <1>1, <1>4, <1>5 DEF NInv

\* However reads and writes are cut short and jobs skipped, on either side, the
\* receive buffers of a round never get what the peer sent for a later one, when
\* the sockets hold as much as the other rounds of a job can consume.  (With
\* smaller ones the pieces of later messages, cut off one after the other, fit
\* into the receive buffers of one round.)
THEOREM ReadersNeverAhead ==
  ASSUME NEW m, Fits(m)
  PROVE  Spec => []NeverAhead
<1>1. Init => CInv /\ NInv(m)
  BY InitCInv, InitNever
<1>2. CInv /\ NInv(m) /\ [Next]_vars => (CInv /\ NInv(m))'
  BY StepCInv, StepNever
<1>3. NInv(m) => NeverAhead
  BY DEF NInv
<1> QED BY <1>1, <1>2, <1>3, PTL DEF Spec
=============================================================================
