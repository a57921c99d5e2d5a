---------------------------- MODULE OrderLemmas -----------------------------
(***************************************************************************)
(* Facts about the smallest and largest elements of sets of numbers and    *)
(* about sorting, for the proofs about stores: std::map keeps its times    *)
(* in order, and the median of doubles sorts the values it is given.  And  *)
(* facts about the multiples of a period, which are the release points.    *)
(***************************************************************************)
EXTENDS Integers, Sequences, SequencesExt, FiniteSetsExt, FiniteSetTheorems,
        WellFoundedInduction, TLAPS

\* A nonempty set of naturals has a smallest element.
LEMMA LeastNatural ==
  ASSUME NEW T \in SUBSET Nat, T # {}
  PROVE  \E m \in T : \A n \in T : m <= n
<1>1. PICK m \in T : \A n \in T : ~ (<<n, m>> \in OpToRel(<, Nat))
  BY NatLessThanWellFounded, WFMin, Zenon
<1>2. \A n \in T : ~ (n < m)
  BY <1>1 DEF OpToRel
<1> QED BY <1>2

\* It is what Min chooses.
LEMMA MinIsLeast ==
  ASSUME NEW T \in SUBSET Nat, T # {}
  PROVE  Min(T) \in T /\ \A n \in T : Min(T) <= n
<1>1. \E m \in T : \A n \in T : m <= n
  BY LeastNatural
<1> QED BY <1>1 DEF Min

\* A nonempty set of naturals with a bound has a largest element, which is what
\* Max chooses.
LEMMA MaxIsGreatest ==
  ASSUME NEW b \in Nat, NEW T \in SUBSET Nat, T # {}, \A n \in T : n <= b
  PROVE  Max(T) \in T /\ \A n \in T : Max(T) >= n
<1> DEFINE U == {u \in Nat : \E n \in T : u = b - n}
<1>0. ASSUME NEW n \in T PROVE b - n \in U /\ n \in Nat
  OBVIOUS
<1>1. U \in SUBSET Nat /\ U # {}
  BY <1>0
<1>2. PICK u \in U : \A x \in U : u <= x
  BY <1>1, LeastNatural
<1>3. PICK m \in T : u = b - m
  BY <1>2
<1> HIDE DEF U
<1>4. ASSUME NEW n \in T PROVE m >= n
  <2>1. b - m <= b - n
    BY <1>0, <1>2, <1>3
  <2> QED BY <1>0, <2>1
<1> QED BY <1>4 DEF Max

\* A finite set with numbers attached to its elements can be put in order.
LEMMA SortedExists ==
  ASSUME NEW S, IsFiniteSet(S), NEW v \in [S -> Int]
  PROVE  \E s \in SetToSeqs(S) :
           \A i \in 1..(Cardinality(S) - 1) : v[s[i]] <= v[s[i + 1]]
<1> DEFINE n == Cardinality(S)
<1>1. n \in Nat /\ \E id : id \in Bijection(1..n, S)
  BY FS_CardinalityType DEF ExistsBijection
<1>2. PICK id \in [1..n -> S] : /\ \A i, j \in 1..n : id[i] = id[j] => i = j
                                /\ \A x \in S : \E i \in 1..n : id[i] = x
  BY <1>1 DEF Bijection, Injection, Surjection, IsInjective
<1> DEFINE Precedes(x, y) == v[x] < v[y] \/ (v[x] = v[y] /\ \E i, j \in 1..n : i < j /\ id[i] = x /\ id[j] = y)
           Below(y) == {x \in S : Precedes(x, y)}
           rank == [y \in S |-> Cardinality(Below(y)) + 1]
<1>3. \A x, y \in S : x # y => Precedes(x, y) \/ Precedes(y, x)
  <2> TAKE x, y \in S
  <2>1. PICK i \in 1..n : id[i] = x
    BY <1>2
  <2>2. PICK j \in 1..n : id[j] = y
    BY <1>2
  <2> QED BY <1>1, <2>1, <2>2
<1>4. \A x \in S : ~ Precedes(x, x)
  BY <1>1, <1>2
<1>5. \A x, y, z \in S : Precedes(x, y) /\ Precedes(y, z) => Precedes(x, z)
  <2> SUFFICES ASSUME NEW x \in S, NEW y \in S, NEW z \in S, Precedes(x, y), Precedes(y, z)
               PROVE  Precedes(x, z)
    OBVIOUS
  <2>1. v[x] \in Int /\ v[y] \in Int /\ v[z] \in Int
    OBVIOUS
  <2>2. CASE v[x] < v[y] \/ v[y] < v[z]
    BY <2>1, <2>2
  <2>3. CASE v[x] = v[y] /\ v[y] = v[z]
    <3>1. PICK i, j \in 1..n : i < j /\ id[i] = x /\ id[j] = y
      BY <2>3
    <3>2. PICK k, m \in 1..n : k < m /\ id[k] = y /\ id[m] = z
      BY <2>3
    <3>3. j = k
      BY <1>2, <3>1, <3>2
    <3> QED BY <1>1, <2>3, <3>1, <3>2, <3>3
  <2> QED BY <2>1, <2>2, <2>3
<1> HIDE DEF Precedes
<1>6. \A y \in S : IsFiniteSet(Below(y)) /\ Cardinality(Below(y)) \in 0..(n - 1)
  <2> TAKE y \in S
  <2>1. Below(y) \subseteq S /\ y \notin Below(y)
    BY <1>4
  <2>2. IsFiniteSet(Below(y)) /\ Cardinality(Below(y)) <= n /\ (Cardinality(Below(y)) = n => Below(y) = S)
    BY <2>1, FS_Subset
  <2>3. Cardinality(Below(y)) \in Nat
    BY <2>2, FS_CardinalityType
  <2> QED BY <1>1, <2>1, <2>2, <2>3
<1>7. \A x, y \in S : Precedes(x, y) => rank[x] < rank[y]
  <2> SUFFICES ASSUME NEW x \in S, NEW y \in S, Precedes(x, y)
               PROVE  rank[x] < rank[y]
    OBVIOUS
  <2>1. Below(x) \subseteq Below(y) /\ x \in Below(y) /\ x \notin Below(x)
    BY <1>4, <1>5
  <2>2. Cardinality(Below(x)) <= Cardinality(Below(y)) /\ (Cardinality(Below(y)) = Cardinality(Below(x)) => Below(y) = Below(x))
    BY <1>6, <2>1, FS_Subset
  <2>3. rank[x] = Cardinality(Below(x)) + 1 /\ rank[y] = Cardinality(Below(y)) + 1
    OBVIOUS
  <2>4. Below(x) # Below(y)
    BY <2>1
  <2>5. IsFiniteSet(Below(x)) /\ IsFiniteSet(Below(y))
    BY <1>6
  <2> HIDE DEF Below, rank
  <2>6. Cardinality(Below(x)) \in Nat /\ Cardinality(Below(y)) \in Nat
    BY <2>5, FS_CardinalityType
  <2> QED BY <2>2, <2>3, <2>4, <2>6
<1> HIDE DEF Below, n
<1>8. rank \in [S -> 1..n]
  <2>1. ASSUME NEW y \in S PROVE Cardinality(Below(y)) + 1 \in 1..n
    BY <1>1, <1>6
  <2> QED BY <2>1
<1> HIDE DEF rank
<1>9. ASSUME NEW x \in S, NEW y \in S, rank[x] = rank[y]
      PROVE  x = y
  <2>1. rank[x] \in Int /\ rank[y] \in Int
    BY <1>1, <1>8
  <2>2. ~ (rank[x] < rank[y]) /\ ~ (rank[y] < rank[x])
    BY <1>9, <2>1
  <2> QED BY <1>3, <1>7, <2>2
<1>10. \A i \in 1..n : \E x \in S : rank[x] = i
  <2>1. rank \in Injection(S, 1..n)
    BY <1>8, <1>9 DEF Injection, IsInjective
  <2>2. IsFiniteSet(1..n) /\ Cardinality(1..n) = n
    BY <1>1, FS_Interval
  <2>3. rank \in Surjection(S, 1..n)
    BY <2>1, <2>2, FS_Injection DEF n
  <2> QED BY <2>3 DEF Surjection
<1> DEFINE s == [i \in 1..n |-> CHOOSE x \in S : rank[x] = i]
<1>11. \A i \in 1..n : s[i] \in S /\ rank[s[i]] = i
  BY <1>10
<1>12. s \in [1..n -> S]
  BY <1>11
<1> HIDE DEF s
<1>13. s \in SetToSeqs(S)
  BY <1>11, <1>12 DEF SetToSeqs, n
<1>14. ASSUME NEW i \in 1..(n - 1)
       PROVE  v[s[i]] <= v[s[i + 1]]
  <2>1. i \in 1..n /\ i + 1 \in 1..n
    BY <1>1
  <2>2. s[i] \in S /\ s[i + 1] \in S /\ rank[s[i]] = i /\ rank[s[i + 1]] = i + 1
    BY <1>11, <2>1
  <2>3. ~ Precedes(s[i + 1], s[i])
    BY <1>1, <1>7, <2>2
  <2> QED BY <2>2, <2>3 DEF Precedes
<1> QED BY <1>13, <1>14 DEF n

\* Neighbours in order are all in order.
LEMMA SortedThroughout ==
  ASSUME NEW n \in Nat, NEW S, NEW s \in [1..n -> S], NEW v \in [S -> Int],
         \A i \in 1..(n - 1) : v[s[i]] <= v[s[i + 1]]
  PROVE  \A i, j \in 1..n : i <= j => v[s[i]] <= v[s[j]]
<1> DEFINE Bad == {j \in 1..n : \E i \in 1..j : v[s[i]] > v[s[j]]}
<1>1. ASSUME Bad # {} PROVE FALSE
  <2>0. Bad \in SUBSET Nat
    OBVIOUS
  <2>1. PICK j \in Bad : \A k \in Bad : j <= k
    BY <1>1, <2>0, LeastNatural
  <2>2. PICK i \in 1..j : v[s[i]] > v[s[j]]
    BY <2>1
  <2>3. i # j /\ i \in 1..n /\ j \in 1..n /\ j - 1 \in 1..n /\ j - 1 \in 1..(n - 1) /\ i \in 1..(j - 1)
    BY <2>1, <2>2
  <2>4. v[s[j - 1]] <= v[s[(j - 1) + 1]] /\ (j - 1) + 1 = j
    BY <2>3
  <2>5. j - 1 \notin Bad
    BY <2>1, <2>3
  <2>6. v[s[i]] <= v[s[j - 1]]
    BY <2>3, <2>5
  <2>7. v[s[i]] \in Int /\ v[s[j]] \in Int /\ v[s[j - 1]] \in Int
    BY <2>3
  <2> QED BY <2>2, <2>4, <2>6, <2>7
<1> SUFFICES ASSUME NEW i \in 1..n, NEW j \in 1..n, i <= j
             PROVE  v[s[i]] <= v[s[j]]
  OBVIOUS
<1>2. j \notin Bad
  BY <1>1, Zenon
<1>4. i \in 1..j
  OBVIOUS
<1>3. v[s[i]] \in Int /\ v[s[j]] \in Int
  OBVIOUS
<1> QED BY <1>2, <1>3, <1>4

-----------------------------------------------------------------------------
(* Periods.                                                                *)

\* The quotient by a period is the one number whose period holds the dividend.
LEMMA Quotient ==
  ASSUME NEW a \in Nat, NEW P \in Nat \ {0}
  PROVE  /\ a \div P \in Nat
         /\ (a \div P) * P <= a
         /\ a < (a \div P) * P + P
  BY Z3

\* Products with a period are ordered like the factors.
LEMMA ProductOrder ==
  ASSUME NEW x \in Nat, NEW y \in Nat, NEW P \in Nat \ {0}, x < y
  PROVE  x * P + P <= y * P
  <1>1. PICK z \in Nat : y = x + 1 + z
    BY y - x - 1 \in Nat
  <1>2. y * P = x * P + P + z * P
    BY <1>1, Z3
  <1>3. z * P \in Nat
    BY Z3
  <1> QED BY <1>2, <1>3, x * P \in Nat

\* A time in the period that starts at the q-th multiple has quotient q.
LEMMA QuotientIs ==
  ASSUME NEW a \in Nat, NEW P \in Nat \ {0}, NEW q \in Nat,
         q * P <= a, a < q * P + P
  PROVE  a \div P = q
  <1> DEFINE d == a \div P
  <1>1. d \in Nat /\ d * P <= a /\ a < d * P + P
    BY Quotient
  <1>2. d * P \in Nat /\ q * P \in Nat
    BY <1>1, Z3
  <1> HIDE DEF d
  <1>3. ~ (d < q)
    <2> SUFFICES ASSUME d < q PROVE FALSE
      OBVIOUS
    <2>1. d * P + P <= q * P
      BY <1>1, ProductOrder
    <2> QED BY <2>1, <1>1, <1>2
  <1>4. ~ (q < d)
    <2> SUFFICES ASSUME q < d PROVE FALSE
      OBVIOUS
    <2>1. q * P + P <= d * P
      BY <1>1, ProductOrder
    <2> QED BY <2>1, <1>1, <1>2
  <1>5. d = q
    BY <1>1, <1>3, <1>4
  <1> QED BY <1>5 DEF d

\* The last multiple of a period up to a time, and the multiples around it.
LEMMA LastMultiple ==
  ASSUME NEW a \in Nat, NEW P \in Nat \ {0}
  PROVE  /\ (a \div P) \in Nat /\ (a \div P) * P \in Nat /\ (a \div P) * P <= a
         /\ ((a \div P) + 1) * P = (a \div P) * P + P
         /\ \A q \in Nat : q * P <= a => q * P <= (a \div P) * P
  <1> DEFINE d == a \div P
  <1>1. d \in Nat /\ d * P <= a /\ a < d * P + P
    BY Quotient
  <1>2. d * P \in Nat
    BY <1>1, Z3
  <1>3. (d + 1) * P = d * P + P
    BY <1>1, Z3
  <1> HIDE DEF d
  <1>4. ASSUME NEW q \in Nat, q * P <= a PROVE q * P <= d * P
    <2>0. q * P \in Nat
      BY Z3
    <2>1. CASE q = d
      BY <1>2, <2>1
    <2>2. CASE q < d
      <3>1. q * P + P <= d * P
        BY <1>1, <2>2, ProductOrder
      <3> QED BY <1>2, <2>0, <3>1
    <2>3. CASE q > d
      <3>1. d * P + P <= q * P
        BY <1>1, <2>3, ProductOrder
      <3> QED BY <1>1, <1>2, <1>4, <2>0, <3>1
    <2> QED BY <1>1, <2>1, <2>2, <2>3
  <1> QED BY <1>1, <1>2, <1>3, <1>4 DEF d

=============================================================================
