----------------------- MODULE ReplicatedStoreProofs ------------------------
(***************************************************************************)
(* Proofs about the replicated store: what try_write, the fusion and its   *)
(* garbage collection keep true for any number of replicas, keys and       *)
(* values, whatever the faulty processes claim.                            *)
(***************************************************************************)
EXTENDS ReplicatedStore, OrderLemmas, FiniteSetTheorems, SequenceTheorems, TLAPS

-----------------------------------------------------------------------------
(* The inductive invariant.                                                *)

Bucket == UNION {[T -> StoredValue] : T \in SUBSET Time}

History == UNION {[P -> StoredValue] : P \in SUBSET (Key \X Time)}

Entry == [at : Nat, key : Key, time : Time, value : StoredValue]

Types ==
  /\ fuse_function \in Fusions
  /\ now \in 0..MaxTime
  /\ unpublished \in [Replica -> Seq(Tuple)]
  /\ root \in [Replica -> Seq(Tuple)]
  /\ \A r \in Replica : Len(unpublished[r]) <= NT /\ Len(root[r]) <= NT
  /\ stage \in [Replica -> {"idle", "copied", "exchange", "fuse", "done"}]
  /\ vector \in [Node -> Seq(Tuple)]
  /\ store \in [Replica -> [Key -> Bucket]]
  /\ inserted \in [Replica -> SUBSET Entry]
  /\ honest \in SUBSET Tuple
  /\ committed \in [Replica -> History]

Fusing(r) == stage[r] \in {"fuse", "done"}

\* The replicas fuse together, and all of them the same vector.
Control ==
  /\ \A r, s \in Replica : Fusing(r) => Fusing(s)
  /\ \A r \in Replica :
       /\ Range(root[r]) \subseteq honest
       /\ Fusing(r) => vector[r] = root[r]
       /\ ~ Fusing(r) => inserted[r] = {}
       /\ inserted[r] \subseteq Insertions
       /\ stage[r] = "done" => inserted[r] = Insertions
       /\ \A f \in inserted[r], e \in Left(r) : f.at <= e.at

\* The times of a bucket, D, against all times committed to its key, T.
KeptOf(D, T) ==
  /\ D \subseteq T
  /\ Cardinality(D) <= keep_n_values
  /\ D # T => Cardinality(D) = keep_n_values
  /\ \A u \in T \ D, t \in D : u < t

Times(r, k) == {t \in Time : <<k, t>> \in DOMAIN committed[r]}

Kept ==
  \A r \in Replica, k \in Key :
    /\ KeptOf(DOMAIN store[r][k], Times(r, k))
    /\ \A t \in DOMAIN store[r][k] : store[r][k][t] = committed[r][<<k, t>>]

Same(e, f) == e.key = f.key /\ e.time = f.time

\* The insertion made last for a key and a time tells what is committed.
LastWins ==
  \A r \in Replica : \A e \in inserted[r] :
    (\A f \in inserted[r] : Same(e, f) => f.at <= e.at) =>
      /\ <<e.key, e.time>> \in DOMAIN committed[r]
      /\ committed[r][<<e.key, e.time>>] = e.value

\* Where neither of two replicas has inserted anything in this job they agree.
Agree ==
  \A r, s \in Replica : \A k \in Key, t \in Time :
    (\A e \in inserted[r] \cup inserted[s] : ~ (e.key = k /\ e.time = t)) =>
      /\ <<k, t>> \in DOMAIN committed[r] <=> <<k, t>> \in DOMAIN committed[s]
      /\ <<k, t>> \in DOMAIN committed[r] => committed[r][<<k, t>>] = committed[s][<<k, t>>]

StoreInv == Types /\ Control /\ Kept /\ LastWins /\ Agree

Backed(k, t, v) ==
  \E x, y \in honest :
    /\ x.key = k /\ y.key = k /\ x.time = t /\ y.time = t
    /\ 2 * x.value <= v /\ v <= 2 * y.value

\* What is committed lies between proposals of obeying replicas, and is for
\* the period that comes at the latest.
Sound ==
  /\ \A r \in Replica, k \in Key, t \in Time :
       <<k, t>> \in DOMAIN committed[r] => Backed(k, t, committed[r][<<k, t>>])
  /\ \A r \in Replica : \A i \in DOMAIN unpublished[r] : unpublished[r][i].time <= now + 1
  /\ \A x \in honest : x.time <= now + 1

-----------------------------------------------------------------------------
(* Sets, sequences and votes.                                              *)

LEMMA TimeFacts ==
  /\ Time \subseteq Nat
  /\ \A T \in SUBSET Time : IsFiniteSet(T) /\ Cardinality(T) \in Nat
<1>1. MaxTime \in Nat
  BY StoreAssumption
<1>2. IsFiniteSet(Time)
  BY <1>1, FS_Interval DEF Time
<1>3. \A T \in SUBSET Time : IsFiniteSet(T) /\ Cardinality(T) \in Nat
  BY <1>2, FS_Subset, FS_CardinalityType
<1> QED BY <1>1, <1>3 DEF Time

LEMMA NodeFacts ==
  /\ IsFiniteSet(Node)
  /\ Cardinality(Replica) \in Nat \ {0} /\ Cardinality(Faulty) \in Nat
  /\ Cardinality(Node) = Cardinality(Replica) + Cardinality(Faulty)
  /\ Cardinality(Replica) > 2 * Cardinality(Faulty)
  /\ max_rounds \in Nat /\ max_rounds > Cardinality(Faulty)
<1>1. IsFiniteSet(Replica) /\ IsFiniteSet(Faulty) /\ Replica \cap Faulty = {} /\ Replica # {}
  BY StoreAssumption
<1>2. Cardinality(Replica) \in Nat /\ Cardinality(Faulty) \in Nat
  BY <1>1, FS_CardinalityType
<1>3. Cardinality(Replica) # 0
  BY <1>1, FS_EmptySet
<1>4. IsFiniteSet(Node) /\ Cardinality(Node) = Cardinality(Replica) + Cardinality(Faulty) - Cardinality({})
  BY <1>1, FS_Union DEF Node
<1>5. Cardinality(Node) = Cardinality(Replica) + Cardinality(Faulty)
  BY <1>2, <1>4, FS_EmptySet
<1>6. max_rounds \in Nat
  BY StoreAssumption
<1> QED BY <1>2, <1>3, <1>4, <1>5, <1>6, FaultBound

\* A set of processes has an obeying one when it is larger than the set of the
\* faulty ones.
LEMMA ObeyingAmong ==
  ASSUME NEW S \in SUBSET Node
  PROVE  /\ IsFiniteSet(S) /\ Cardinality(S) \in Nat
         /\ Cardinality(S) > Cardinality(Faulty) => \E n \in S : n \in Replica
         /\ Replica \subseteq S => Cardinality(S) >= Cardinality(Replica)
<1>1. IsFiniteSet(S) /\ Cardinality(S) \in Nat
  BY NodeFacts, FS_Subset, FS_CardinalityType
<1>2. ASSUME ~ \E n \in S : n \in Replica
      PROVE  Cardinality(S) <= Cardinality(Faulty)
  <2>1. S \in SUBSET Faulty
    BY <1>2 DEF Node
  <2> QED BY <2>1, FS_Subset, StoreAssumption
<1>3. ASSUME Replica \subseteq S PROVE Cardinality(S) >= Cardinality(Replica)
  <2>1. Cardinality(Replica) <= Cardinality(S)
    BY <1>1, <1>3, FS_Subset
  <2> QED BY <1>1, <2>1, NodeFacts
<1> QED BY <1>1, <1>2, <1>3, NodeFacts

\* The vote of a process: the last of its tuples for the key and the time.
LEMMA VoteFacts ==
  ASSUME vector \in [Node -> Seq(Tuple)], NEW k, NEW t
  PROVE  /\ DOMAIN Votes(k, t) \subseteq Node
         /\ Votes(k, t) \in [DOMAIN Votes(k, t) -> Value]
         /\ \A n \in DOMAIN Votes(k, t) :
              \E i \in LastSaid(vector[n], k, t) : Votes(k, t)[n] = vector[n][i].value
         /\ \A n \in Node : Len(vector[n]) <= NT /\ LastSaid(vector[n], k, t) # {} => n \in DOMAIN Votes(k, t)
<1> DEFINE Says(n) == {i \in DOMAIN vector[n] : vector[n][i].key = k /\ vector[n][i].time = t}
           Voters == {n \in Node : Len(vector[n]) <= NT /\ Says(n) # {}}
<1>1. Votes(k, t) = [n \in Voters |-> vector[n][Max(Says(n))].value]
  BY DEF Votes
<1>2. ASSUME NEW n \in Voters
      PROVE  /\ Max(Says(n)) \in LastSaid(vector[n], k, t)
             /\ vector[n][Max(Says(n))].value \in Value
  <2>1. vector[n] \in Seq(Tuple) /\ Len(vector[n]) \in Nat /\ DOMAIN vector[n] = 1..Len(vector[n])
    OBVIOUS
  <2>2. Says(n) \in SUBSET Nat /\ Says(n) # {} /\ \A i \in Says(n) : i <= Len(vector[n])
    BY <2>1
  <2>3. Max(Says(n)) \in Says(n) /\ \A i \in Says(n) : Max(Says(n)) >= i
    BY <2>1, <2>2, MaxIsGreatest
  <2>4. vector[n][Max(Says(n))] \in Tuple
    BY <2>1, <2>3
  <2>5. \A i \in Says(n) : i <= Max(Says(n))
    BY <2>2, <2>3
  <2>6. Max(Says(n)) \in LastSaid(vector[n], k, t)
    BY <2>3, <2>5 DEF LastSaid
  <2> QED BY <2>4, <2>6 DEF Tuple
<1>3. ASSUME NEW n \in Node, Len(vector[n]) <= NT, LastSaid(vector[n], k, t) # {}
      PROVE  n \in Voters
  BY <1>3 DEF LastSaid
<1> QED BY <1>1, <1>2, <1>3

\* There is at most one last tuple for a key and a time.
LEMMA LastSaidUnique ==
  ASSUME NEW e \in Seq(Tuple), NEW k, NEW t, NEW i \in LastSaid(e, k, t), NEW j \in LastSaid(e, k, t)
  PROVE  i = j
<1>1. i \in Nat /\ j \in Nat /\ i <= j /\ j <= i
  BY DEF LastSaid
<1> QED BY <1>1

\* The two middle values of sorted votes, which are one for an odd number.
LEMMA MedianFacts ==
  ASSUME NEW S, IsFiniteSet(S), S # {}, NEW votes \in [S -> Value]
  PROVE  \E s \in [1..Cardinality(S) -> S] :
           /\ \A i, j \in 1..Cardinality(S) : i # j => s[i] # s[j]
           /\ \A i, j \in 1..Cardinality(S) : i <= j => votes[s[i]] <= votes[s[j]]
           /\ Median(votes) = votes[s[(Cardinality(S) \div 2) + 1]] + votes[s[((Cardinality(S) - 1) \div 2) + 1]]
<1> DEFINE n == Cardinality(S)
           InOrder(s) == \A i \in 1..(n - 1) : votes[s[i]] <= votes[s[i + 1]]
           s == CHOOSE s \in SetToSeqs(S) : InOrder(s)
<1>0. Value \subseteq Int
  BY StoreAssumption
<1>1. votes \in [S -> Int] /\ DOMAIN votes = S
  BY <1>0
<1>2. n \in Nat
  BY FS_CardinalityType
<1>3. \E x \in SetToSeqs(S) : InOrder(x)
  BY <1>1, SortedExists
<1>4. s \in SetToSeqs(S) /\ InOrder(s)
  BY <1>3, Zenon
<1>5. Median(votes) = votes[s[(n \div 2) + 1]] + votes[s[((n - 1) \div 2) + 1]]
  BY <1>1 DEF Median
<1> HIDE DEF s
<1>6. s \in [1..n -> S] /\ \A i, j \in 1..n : i # j => s[i] # s[j]
  BY <1>4 DEF SetToSeqs
<1> HIDE DEF n
<1>7. \A i, j \in 1..n : i <= j => votes[s[i]] <= votes[s[j]]
  BY <1>1, <1>2, <1>4, <1>6, SortedThroughout
<1> QED BY <1>5, <1>6, <1>7 DEF n

\* With fewer bad elements than positions on either side of position p, there
\* is a good one at or before it, and one at or after it.
LEMMA GoodOnBothSides ==
  ASSUME NEW n \in Nat, NEW S, NEW s \in [1..n -> S], \A i, j \in 1..n : i # j => s[i] # s[j],
         NEW B, IsFiniteSet(B), NEW p \in 1..n,
         p > Cardinality(B), n - p + 1 > Cardinality(B)
  PROVE  /\ \E i \in 1..p : s[i] \notin B
         /\ \E i \in p..n : s[i] \notin B
<1>1. Cardinality(B) \in Nat
  BY FS_CardinalityType
<1>2. ASSUME NEW a \in 1..n, NEW b \in 1..n, \A i \in a..b : s[i] \in B, a <= b
      PROVE  b - a + 1 <= Cardinality(B)
  <2> DEFINE f == [i \in a..b |-> s[i]]
  <2>1. f \in Injection(a..b, B)
    BY <1>2 DEF Injection, IsInjective
  <2>2. Cardinality(a..b) <= Cardinality(B)
    BY <2>1, FS_Injection
  <2>3. Cardinality(a..b) = b - a + 1
    BY <1>2, FS_Interval
  <2> QED BY <2>2, <2>3
<1>3. 1 \in 1..n /\ n \in 1..n /\ p >= 1 /\ p <= n
  OBVIOUS
<1>4. ASSUME \A i \in 1..p : s[i] \in B PROVE FALSE
  <2>1. p - 1 + 1 <= Cardinality(B)
    BY <1>2, <1>3, <1>4
  <2> QED BY <1>1, <1>3, <2>1
<1>5. ASSUME \A i \in p..n : s[i] \in B PROVE FALSE
  <2>1. n - p + 1 <= Cardinality(B)
    BY <1>2, <1>3, <1>5
  <2> QED BY <1>1, <1>3, <2>1
<1> QED BY <1>4, <1>5

\* The positions of the two middle values.
LEMMA MiddlePositions ==
  ASSUME NEW n \in Nat, NEW g \in Nat, n > 2 * g, n >= 1
  PROVE  /\ (n \div 2) + 1 \in 1..n /\ (n \div 2) + 1 > g
         /\ ((n - 1) \div 2) + 1 \in 1..n /\ ((n - 1) \div 2) + 1 > g
         /\ n - ((n - 1) \div 2) > g
         /\ n - (n \div 2) > g
OBVIOUS

-----------------------------------------------------------------------------
(* What a fusion inserts.                                                  *)

\* The root of the reduced tree is empty or was proposed by an obeying replica;
\* what all of them proposed it is.
LEMMA ReducedFacts ==
  ASSUME vector \in [Node -> Seq(Tuple)]
  PROVE  /\ reduced \in Seq(Tuple)
         /\ reduced # <<>> => \E n \in Replica : vector[n] = reduced
         /\ \A e : (\A n \in Replica : vector[n] = e) => reduced = e
<1> DEFINE For(e) == {n \in Node : vector[n] = e}
           count(e) == Cardinality(For(e))
           winners == {vector[n] : n \in {n \in Node : count(vector[n]) > Cardinality(Node) - max_rounds}}
<1>1. reduced = IF winners = {} THEN <<>> ELSE CHOOSE e \in winners : TRUE
  BY DEF reduced
<1>2. ASSUME NEW e \in winners
      PROVE  e \in Seq(Tuple) /\ \E n \in Replica : vector[n] = e
  <2>1. e \in Seq(Tuple) /\ count(e) > Cardinality(Node) - max_rounds
    BY <1>2
  <2>2. For(e) \in SUBSET Node
    OBVIOUS
  <2>3. Cardinality(For(e)) \in Nat
    BY <2>2, ObeyingAmong
  <2>4. Cardinality(For(e)) > Cardinality(Faulty)
    BY <2>1, <2>3, NodeFacts, FaultBound
  <2> QED BY <2>1, <2>2, <2>4, ObeyingAmong
<1>3. ASSUME NEW e, \A n \in Replica : vector[n] = e
      PROVE  winners = {e}
  <2>1. For(e) \in SUBSET Node /\ Replica \subseteq For(e)
    BY <1>3 DEF Node
  <2>2. Cardinality(For(e)) \in Nat /\ Cardinality(For(e)) >= Cardinality(Replica)
    BY <2>1, ObeyingAmong
  <2>3. count(e) > Cardinality(Node) - max_rounds
    BY <2>2, NodeFacts
  <2>4. PICK r \in Replica : TRUE
    BY StoreAssumption
  <2>5. r \in Node /\ vector[r] = e
    BY <1>3, <2>4 DEF Node
  <2>6. e \in winners
    BY <2>3, <2>5
  <2> QED BY <1>2, <1>3, <2>6
<1> HIDE DEF winners
<1>4. CASE winners = {}
  <2>1. reduced = <<>>
    BY <1>1, <1>4
  <2>2. reduced \in Seq(Tuple)
    BY <2>1
  <2>3. \A e : ~ \A n \in Replica : vector[n] = e
    BY <1>3, <1>4
  <2> QED BY <2>1, <2>2, <2>3
<1>5. CASE winners # {}
  <2>1. reduced \in winners
    BY <1>1, <1>5
  <2> QED BY <1>2, <1>3, <2>1
<1> QED BY <1>4, <1>5

LEMMA FusedFacts ==
  ASSUME vector \in [Node -> Seq(Tuple)], NEW k \in Key, NEW t \in Time, NEW v \in fused(k, t)
  PROVE  v \in StoredValue /\ \A w \in fused(k, t) : w = v
<1> DEFINE votes == Votes(k, t)
           S == DOMAIN votes
<1>1. S \in SUBSET Node /\ votes \in [S -> Value]
  BY VoteFacts
<1>2. IsFiniteSet(S) /\ Cardinality(S) \in Nat
  BY <1>1, ObeyingAmong
<1>3. CASE fuse_function = "median"
  <2>1. Cardinality(S) >= 3 /\ fused(k, t) = {Median(votes)}
    BY <1>2, <1>3 DEF fused, median_of_doubles
  <2> HIDE DEF S, votes
  <2>2. S # {}
    BY <1>2, <2>1, FS_EmptySet
  <2>3. PICK s \in [1..Cardinality(S) -> S] :
          Median(votes) = votes[s[(Cardinality(S) \div 2) + 1]] + votes[s[((Cardinality(S) - 1) \div 2) + 1]]
    BY <1>1, <1>2, <2>2, MedianFacts
  <2>4. (Cardinality(S) \div 2) + 1 \in 1..Cardinality(S) /\ ((Cardinality(S) - 1) \div 2) + 1 \in 1..Cardinality(S)
    <3>1. Cardinality(S) > 2 * 1 /\ 1 \in Nat /\ Cardinality(S) >= 1
      BY <1>2, <2>1
    <3> QED BY <1>2, <3>1, MiddlePositions
  <2>5. Median(votes) \in StoredValue
    BY <1>1, <2>3, <2>4 DEF StoredValue
  <2> QED BY <2>1, <2>5
<1>4. CASE fuse_function # "median"
  <2> DEFINE For(x) == {n \in S : votes[n] = x}
  <2>1. fused(k, t) = {2 * x : x \in {x \in Value : 2 * Cardinality(For(x)) > Cardinality(Node)}}
    BY <1>4 DEF fused, strong_simple_majority_of_strings
  <2>2. PICK x \in Value : v = 2 * x /\ 2 * Cardinality(For(x)) > Cardinality(Node)
    BY <2>1
  <2>3. ASSUME NEW y \in Value, 2 * Cardinality(For(y)) > Cardinality(Node)
        PROVE  y = x
    <3> SUFFICES ASSUME y # x PROVE FALSE
      OBVIOUS
    <3>1. For(x) \in SUBSET Node /\ For(y) \in SUBSET Node /\ For(x) \cup For(y) \in SUBSET Node
      BY <1>1
    <3>2. For(x) \cap For(y) = {}
      OBVIOUS
    <3> HIDE DEF For
    <3>3. /\ IsFiniteSet(For(x)) /\ Cardinality(For(x)) \in Nat
          /\ IsFiniteSet(For(y)) /\ Cardinality(For(y)) \in Nat
      BY <3>1, ObeyingAmong
    <3>4. Cardinality(For(x) \cup For(y)) = Cardinality(For(x)) + Cardinality(For(y)) - 0
      BY <3>2, <3>3, FS_Union, FS_EmptySet
    <3>5. Cardinality(For(x) \cup For(y)) <= Cardinality(Node)
      BY <3>1, NodeFacts, FS_Subset
    <3> QED BY <2>2, <2>3, <3>3, <3>4, <3>5, NodeFacts
  <2>4. \A w \in fused(k, t) : w = v
    BY <2>1, <2>2, <2>3
  <2>5. x \in Nat /\ v = x + x
    BY <2>2, StoreAssumption
  <2> QED BY <2>4, <2>5 DEF StoredValue
<1> QED BY <1>3, <1>4

\* The two forms of an insertion.
LEMMA InsertionForms ==
  ASSUME NEW e \in Insertions
  PROVE  \/ /\ fuse_function = "default" /\ Len(reduced) <= NT
            /\ \E i \in DOMAIN reduced :
                 e = [at |-> i, key |-> reduced[i].key, time |-> reduced[i].time, value |-> 2 * reduced[i].value]
         \/ /\ fuse_function # "default"
            /\ \E k \in Key, t \in Time : \E v \in fused(k, t) :
                 e = [at |-> 0, key |-> k, time |-> t, value |-> v]
<1>1. CASE fuse_function = "default"
  BY <1>1 DEF Insertions
<1>2. CASE fuse_function # "default"
  BY <1>2 DEF Insertions
<1> QED BY <1>1, <1>2

LEMMA InsertionTypes ==
  ASSUME vector \in [Node -> Seq(Tuple)], NEW e \in Insertions
  PROVE  e \in Entry /\ e.at <= NT
<1>1. NT \in Nat
  BY StoreAssumption
<1>2. CASE fuse_function = "default"
  <2>1. PICK i \in DOMAIN reduced :
          e = [at |-> i, key |-> reduced[i].key, time |-> reduced[i].time, value |-> 2 * reduced[i].value]
    BY <1>2, InsertionForms
  <2>2. Len(reduced) <= NT
    BY <1>2, InsertionForms
  <2>3. reduced \in Seq(Tuple)
    BY ReducedFacts
  <2> HIDE DEF reduced
  <2>4. i \in 1..Len(reduced) /\ Len(reduced) \in Nat /\ reduced[i] \in Tuple
    BY <2>1, <2>3
  <2>5. reduced[i].key \in Key /\ reduced[i].time \in Time /\ reduced[i].value \in Value
    BY <2>4 DEF Tuple
  <2>6. 2 * reduced[i].value = reduced[i].value + reduced[i].value
    <3>1. reduced[i].value \in Nat
      BY <2>5, StoreAssumption
    <3> QED BY <3>1
  <2>7. 2 * reduced[i].value \in StoredValue
    BY <2>5, <2>6 DEF StoredValue
  <2> QED BY <1>1, <2>1, <2>2, <2>4, <2>5, <2>7 DEF Entry
<1>3. CASE fuse_function # "default"
  <2>1. PICK k, t, v : k \in Key /\ t \in Time /\ v \in fused(k, t) /\ e = [at |-> 0, key |-> k, time |-> t, value |-> v]
    BY <1>3, InsertionForms
  <2>2. v \in StoredValue
    BY <2>1, FusedFacts
  <2> QED BY <1>1, <2>1, <2>2 DEF Entry
<1> QED BY <1>2, <1>3

\* No two insertions for the same key and time have the same place in the order.
LEMMA InsertionUnique ==
  ASSUME vector \in [Node -> Seq(Tuple)], NEW e \in Insertions, NEW f \in Insertions,
         Same(e, f), e.at = f.at
  PROVE  e = f
<1>1. CASE fuse_function = "default"
  <2>1. PICK i \in DOMAIN reduced :
          e = [at |-> i, key |-> reduced[i].key, time |-> reduced[i].time, value |-> 2 * reduced[i].value]
    BY <1>1, InsertionForms
  <2>2. PICK j \in DOMAIN reduced :
          f = [at |-> j, key |-> reduced[j].key, time |-> reduced[j].time, value |-> 2 * reduced[j].value]
    BY <1>1, InsertionForms
  <2>3. i = j
    BY <2>1, <2>2
  <2> QED BY <2>1, <2>2, <2>3
<1>2. CASE fuse_function # "default"
  <2>1. PICK k, t, v : k \in Key /\ t \in Time /\ v \in fused(k, t) /\ e = [at |-> 0, key |-> k, time |-> t, value |-> v]
    BY <1>2, InsertionForms
  <2>2. PICK m, u, w : m \in Key /\ u \in Time /\ w \in fused(m, u) /\ f = [at |-> 0, key |-> m, time |-> u, value |-> w]
    BY <1>2, InsertionForms
  <2>3. k = m /\ t = u
    BY <2>1, <2>2 DEF Same
  <2>4. v = w
    BY <2>1, <2>2, <2>3, FusedFacts
  <2> QED BY <2>1, <2>2, <2>3, <2>4
<1> QED BY <1>1, <1>2

-----------------------------------------------------------------------------
(* Insertion into a bucket and garbage collection.                         *)

\* After an insertion and the removal of the oldest entry a bucket still holds
\* the newest times: the one removed is older than all that stay, and so is
\* every time that was removed before.
LEMMA InsertKeeps ==
  ASSUME NEW T \in SUBSET Time, NEW b \in Bucket, KeptOf(DOMAIN b, T),
         NEW t \in Time, NEW v \in StoredValue
  PROVE  /\ insert(b, t, v) \in Bucket
         /\ KeptOf(DOMAIN insert(b, t, v), T \cup {t})
<1> DEFINE D == DOMAIN b
           c == Put(b, t, v)
           B == D \cup {t}
<1>1. D \in SUBSET Time /\ b \in [D -> StoredValue]
  BY DEF Bucket
<1>2. keep_n_values \in Nat \ {0}
  BY StoreAssumption
<1>3. c = [u \in B |-> IF u = t THEN v ELSE b[u]] /\ DOMAIN c = B
  BY DEF Put
<1>4. B \in SUBSET Time /\ B \in SUBSET Nat /\ B # {}
  BY <1>1, TimeFacts
<1>5. IsFiniteSet(D) /\ Cardinality(D) \in Nat /\ IsFiniteSet(B) /\ Cardinality(B) \in Nat
  BY <1>1, <1>4, TimeFacts
<1>6. Cardinality(B) = IF t \in D THEN Cardinality(D) ELSE Cardinality(D) + 1
  BY <1>5, FS_AddElement
<1>7. /\ D \subseteq T /\ Cardinality(D) <= keep_n_values
      /\ D # T => Cardinality(D) = keep_n_values
      /\ \A u \in T \ D, w \in D : u < w
  BY DEF KeptOf
<1>8. insert(b, t, v) = IF Cardinality(B) > keep_n_values THEN Restrict(c, B \ {Min(B)}) ELSE c
  BY <1>3 DEF insert
<1> HIDE DEF c, B, D
<1>9. CASE Cardinality(B) > keep_n_values
  <2> DEFINE m == Min(B)
             E == B \ {m}
  <2>1. m \in B /\ \A u \in B : m <= u
    BY <1>4, MinIsLeast
  <2> HIDE DEF m
  <2>2. t \notin D /\ Cardinality(D) = keep_n_values /\ Cardinality(B) = keep_n_values + 1
    BY <1>2, <1>5, <1>6, <1>7, <1>9
  <2>3. Cardinality(E) = keep_n_values
    <3>1. Cardinality(E) = IF m \in B THEN Cardinality(B) - 1 ELSE Cardinality(B)
      BY <1>5, FS_RemoveElement
    <3> QED BY <1>2, <2>1, <2>2, <3>1
  <2>4. insert(b, t, v) = [u \in E |-> c[u]]
    BY <1>8, <1>9 DEF Restrict, m
  <2>5. \A u \in E : c[u] = IF u = t THEN v ELSE b[u]
    BY <1>3
  <2>6. \A u \in E : c[u] \in StoredValue
    BY <1>1, <2>5 DEF B
  <2>7. [u \in E |-> c[u]] \in Bucket
    <3>1. E \in SUBSET Time
      BY <1>4
    <3> HIDE DEF E
    <3>2. [u \in E |-> c[u]] \in [E -> StoredValue]
      BY <2>6
    <3> QED BY <3>1, <3>2 DEF Bucket
  <2>8. ASSUME NEW u \in (T \cup {t}) \ E, NEW w \in E
        PROVE  u < w
    <3>1. u \in Nat /\ w \in Nat /\ m \in Nat /\ t \in Nat /\ D \subseteq Nat
      BY <1>1, <1>4, <2>1, TimeFacts
    <3>2. m <= w /\ w # m
      BY <2>1
    <3>3. CASE u = m
      BY <3>1, <3>2, <3>3
    <3>4. CASE u # m
      <4>1. u \in T \ D /\ u # t
        BY <3>4 DEF B
      <4>2. CASE w \in D
        BY <1>7, <4>1, <4>2
      <4>3. CASE w = t
        <5>1. m \in D
          BY <2>1, <3>2, <4>3 DEF B
        <5>2. u < m
          BY <1>7, <4>1, <5>1
        <5> QED BY <3>1, <3>2, <5>2
      <4> QED BY <4>2, <4>3 DEF B
    <3> QED BY <3>3, <3>4
  <2>9. E \subseteq T \cup {t}
    BY <1>7 DEF B
  <2> HIDE DEF E
  <2>10. KeptOf(E, T \cup {t})
    BY <1>2, <2>3, <2>8, <2>9 DEF KeptOf
  <2> QED BY <2>4, <2>7, <2>10
<1>10. CASE ~ (Cardinality(B) > keep_n_values)
  <2>1. insert(b, t, v) = c
    BY <1>8, <1>10
  <2>2. c \in Bucket
    <3>1. \A u \in B : (IF u = t THEN v ELSE b[u]) \in StoredValue
      BY <1>1 DEF B
    <3> QED BY <1>3, <1>4, <3>1 DEF Bucket
  <2>3. ASSUME B # T \cup {t}
        PROVE  t \in D /\ B = D /\ Cardinality(B) = keep_n_values
    <3>1. D # T
      BY <2>3 DEF B
    <3>2. t \in D
      BY <1>2, <1>5, <1>6, <1>7, <1>10, <3>1
    <3> QED BY <1>7, <3>1, <3>2 DEF B
  <2>4. ASSUME NEW u \in (T \cup {t}) \ B, NEW w \in B
        PROVE  u < w
    <3>1. B # T \cup {t}
      BY <2>4
    <3> QED BY <1>7, <2>3, <2>4, <3>1
  <2>5. B \subseteq T \cup {t} /\ Cardinality(B) <= keep_n_values
    BY <1>2, <1>5, <1>7, <1>10 DEF B
  <2>6. KeptOf(B, T \cup {t})
    BY <2>3, <2>4, <2>5 DEF KeptOf
  <2> QED BY <1>3, <2>1, <2>2, <2>6
<1> QED BY <1>9, <1>10

-----------------------------------------------------------------------------
(* The steps that leave the stores alone.                                  *)

LEMMA SameInsertions ==
  ASSUME UNCHANGED <<fuse_function, vector>>
  PROVE  Insertions' = Insertions
BY DEF Insertions, reduced, fused, median_of_doubles, strong_simple_majority_of_strings, Votes, Median

LEMMA StoreFrame ==
  ASSUME StoreInv, UNCHANGED <<store, inserted, committed>>
  PROVE  Kept' /\ LastWins' /\ Agree'
<1>1. Kept'
  BY DEF StoreInv, Kept, Times, KeptOf
<1>2. LastWins'
  BY DEF StoreInv, LastWins, Same
<1>3. Agree'
  BY DEF StoreInv, Agree
<1> QED BY <1>1, <1>2, <1>3

LEMMA StoreInit ==
  ASSUME Init
  PROVE  StoreInv
<1> USE DEF Init
<1>0. EmptyBucket \in Bucket /\ EmptyBucket \in History /\ DOMAIN EmptyBucket = {}
  BY DEF EmptyBucket, Bucket, History
<1>1. Types
  <2>1. <<>> \in Seq(Tuple) /\ Len(<<>>) = 0 /\ NT \in Nat /\ MaxTime \in Nat
    BY StoreAssumption
  <2> QED BY <1>0, <2>1 DEF Types
<1>2. Control
  BY DEF Control, Fusing, Range
<1>3. Kept
  <2>1. KeptOf({}, {})
    BY StoreAssumption, FS_EmptySet DEF KeptOf
  <2>2. \A r \in Replica, k \in Key : DOMAIN store[r][k] = {} /\ Times(r, k) = {}
    BY <1>0 DEF Times
  <2> QED BY <2>1, <2>2 DEF Kept
<1>4. LastWins /\ Agree
  BY DEF LastWins, Agree
<1> QED BY <1>1, <1>2, <1>3, <1>4 DEF StoreInv

LEMMA WriteStep ==
  ASSUME StoreInv, NEW r \in Replica, NEW k \in Key, NEW t \in {now, now + 1}, NEW v \in Value,
         try_write(r, k, t, v)
  PROVE  StoreInv'
<1> USE DEF try_write
<1>1. Types'
  <2>1. t \in Time /\ [key |-> k, time |-> t, value |-> v] \in Tuple
    BY StoreAssumption DEF StoreInv, Types, Time, Tuple
  <2>2. /\ unpublished'[r] = Append(unpublished[r], [key |-> k, time |-> t, value |-> v])
        /\ \A s \in Replica : s # r => unpublished'[s] = unpublished[s]
    BY DEF StoreInv, Types
  <2>3. unpublished'[r] \in Seq(Tuple) /\ Len(unpublished'[r]) = Len(unpublished[r]) + 1 /\ Len(unpublished[r]) \in Nat
    BY <2>1, <2>2 DEF StoreInv, Types
  <2>4. Len(unpublished'[r]) <= NT
    BY <2>3, StoreAssumption
  <2>5. unpublished' \in [Replica -> Seq(Tuple)]
    BY <2>3 DEF StoreInv, Types
  <2> QED BY <2>2, <2>4, <2>5 DEF StoreInv, Types
<1>2. Control'
  BY SameInsertions DEF StoreInv, Control, Fusing, Left
<1> QED BY <1>1, <1>2, StoreFrame DEF StoreInv

LEMMA CopyStep ==
  ASSUME StoreInv, NEW r \in Replica, CopyRoot(r)
  PROVE  StoreInv'
<1> USE DEF CopyRoot
<1>1. Types'
  <2>1. Range(unpublished[r]) \subseteq Tuple
    BY DEF StoreInv, Types, Range
  <2> QED BY <2>1 DEF StoreInv, Types
<1>2. Control'
  <2>1. \A s \in Replica : ~ Fusing(s) /\ ~ Fusing(s)' /\ stage'[s] # "done"
    BY DEF StoreInv, Control, Types, Fusing
  <2>2. \A s \in Replica : Range(root'[s]) \subseteq honest'
    BY DEF StoreInv, Control, Types
  <2> QED BY <2>1, <2>2, SameInsertions DEF StoreInv, Control, Left
<1> QED BY <1>1, <1>2, StoreFrame DEF StoreInv

LEMMA ClearStep ==
  ASSUME StoreInv, NEW r \in Replica, ClearUnpublished(r)
  PROVE  StoreInv'
<1> USE DEF ClearUnpublished
<1>1. Types'
  <2>1. <<>> \in Seq(Tuple) /\ Len(<<>>) = 0 /\ NT \in Nat
    BY StoreAssumption
  <2> QED BY <2>1 DEF StoreInv, Types
<1>2. Control'
  <2>1. \A s \in Replica : ~ Fusing(s) /\ ~ Fusing(s)' /\ stage'[s] # "done"
    BY DEF StoreInv, Control, Types, Fusing
  <2> QED BY <2>1, SameInsertions DEF StoreInv, Control, Left
<1> QED BY <1>1, <1>2, StoreFrame DEF StoreInv

LEMMA ExchangeStep ==
  ASSUME StoreInv, NEW claims \in [Faulty -> Claim], Exchange(claims)
  PROVE  StoreInv'
<1> USE DEF Exchange
<1>1. Types'
  <2>1. Tuple # {}
    <3>1. 0 \in Time
      BY StoreAssumption DEF Time
    <3>2. PICK k \in Key, v \in Value : TRUE
      BY StoreAssumption
    <3>3. [key |-> k, time |-> 0, value |-> v] \in Tuple
      BY <3>1, <3>2 DEF Tuple
    <3> QED BY <3>3
  <2>2. Claim \subseteq Seq(Tuple)
    <3>1. (CHOOSE t \in Tuple : TRUE) \in Tuple
      BY <2>1
    <3>2. [i \in 1..(NT + 1) |-> CHOOSE t \in Tuple : TRUE] \in Seq(Tuple)
      BY <3>1, StoreAssumption
    <3>3. \A t \in Tuple : <<t>> \in Seq(Tuple)
      OBVIOUS
    <3>4. ASSUME NEW c \in Claim PROVE c \in Seq(Tuple)
      <4>1. CASE c = [i \in 1..(NT + 1) |-> CHOOSE t \in Tuple : TRUE]
        BY <3>2, <4>1
      <4>2. CASE c = <<>>
        BY <4>2
      <4>3. CASE \E t \in Tuple : c = <<t>>
        BY <3>3, <4>3
      <4> QED BY <4>1, <4>2, <4>3 DEF Claim
    <3> QED BY <3>4
  <2>3. vector' \in [Node -> Seq(Tuple)]
    BY <2>2 DEF StoreInv, Types, Node
  <2> QED BY <2>3 DEF StoreInv, Types
<1>2. Control'
  <2>1. \A s \in Replica : ~ Fusing(s) /\ Fusing(s)' /\ stage'[s] # "done"
    BY DEF Fusing
  <2>2. \A s \in Replica : inserted'[s] = {} /\ vector'[s] = root'[s]
    BY <2>1 DEF StoreInv, Control, Node
  <2> QED BY <2>1, <2>2 DEF StoreInv, Control
<1> QED BY <1>1, <1>2, StoreFrame DEF StoreInv

LEMMA EndStep ==
  ASSUME StoreInv, NEW r \in Replica, EndJob(r)
  PROVE  StoreInv'
<1> USE DEF EndJob
<1>1. Types'
  BY DEF StoreInv, Types
<1>2. Control'
  <2>1. \A s \in Replica : Fusing(s) /\ Fusing(s)' /\ (stage'[s] = "done" => s = r \/ stage[s] = "done")
    BY DEF StoreInv, Control, Types, Fusing
  <2>2. inserted[r] = Insertions
    BY DEF StoreInv, Control, Left
  <2> QED BY <2>1, <2>2, SameInsertions DEF StoreInv, Control, Left
<1> QED BY <1>1, <1>2, StoreFrame DEF StoreInv

-----------------------------------------------------------------------------
(* An insertion.                                                           *)

\* What an insertion changes.
LEMMA InsertEffect ==
  ASSUME StoreInv, NEW r \in Replica, NEW e \in Insertions, Insert(r, e)
  PROVE  /\ e \in Entry
         /\ \A s \in Replica, k \in Key : s # r \/ k # e.key => store'[s][k] = store[s][k]
         /\ store'[r][e.key] = insert(store[r][e.key], e.time, e.value)
         /\ \A s \in Replica : s # r => inserted'[s] = inserted[s] /\ committed'[s] = committed[s]
         /\ inserted'[r] = inserted[r] \cup {e}
         /\ DOMAIN committed'[r] = DOMAIN committed[r] \cup {<<e.key, e.time>>}
         /\ \A x \in DOMAIN committed'[r] :
              committed'[r][x] = IF x = <<e.key, e.time>> THEN e.value ELSE committed[r][x]
         /\ \A k \in Key : Times(r, k)' = IF k = e.key THEN Times(r, k) \cup {e.time} ELSE Times(r, k)
<1> USE DEF Insert
<1>1. e \in Entry
  BY InsertionTypes DEF StoreInv, Types
<1>2. e.key \in Key /\ e.time \in Time
  BY <1>1 DEF Entry
<1>3. /\ \A s \in Replica, k \in Key : s # r \/ k # e.key => store'[s][k] = store[s][k]
      /\ store'[r][e.key] = insert(store[r][e.key], e.time, e.value)
  BY <1>2 DEF StoreInv, Types
<1>4. /\ \A s \in Replica : s # r => inserted'[s] = inserted[s] /\ committed'[s] = committed[s]
      /\ inserted'[r] = inserted[r] \cup {e}
      /\ committed'[r] = Put(committed[r], <<e.key, e.time>>, e.value)
  BY DEF StoreInv, Types
<1>5. /\ DOMAIN committed'[r] = DOMAIN committed[r] \cup {<<e.key, e.time>>}
      /\ \A x \in DOMAIN committed'[r] :
           committed'[r][x] = IF x = <<e.key, e.time>> THEN e.value ELSE committed[r][x]
  BY <1>4 DEF Put
<1>6. ASSUME NEW k \in Key
      PROVE  Times(r, k)' = IF k = e.key THEN Times(r, k) \cup {e.time} ELSE Times(r, k)
  <2>1. \A t \in Time : <<k, t>> \in DOMAIN committed'[r] <=>
                          <<k, t>> \in DOMAIN committed[r] \/ (k = e.key /\ t = e.time)
    BY <1>5
  <2> QED BY <1>2, <2>1 DEF Times
<1> QED BY <1>1, <1>3, <1>4, <1>5, <1>6

LEMMA InsertStep ==
  ASSUME StoreInv, NEW r \in Replica, NEW e \in Insertions, Insert(r, e)
  PROVE  StoreInv'
<1>1. /\ e \in Entry /\ e.key \in Key /\ e.time \in Time /\ e.value \in StoredValue /\ e.at \in Nat
  BY InsertEffect DEF Entry
<1>2. /\ e \notin inserted[r] /\ stage[r] = "fuse"
      /\ \A f \in Insertions : f \notin inserted[r] => e.at <= f.at
      /\ UNCHANGED <<fuse_function, now, unpublished, root, stage, vector, honest>>
  BY DEF Insert, Left
<1>3. Insertions' = Insertions
  BY <1>2, SameInsertions
<1>4. /\ store[r][e.key] \in Bucket /\ Times(r, e.key) \in SUBSET Time
      /\ KeptOf(DOMAIN store[r][e.key], Times(r, e.key))
  BY <1>1 DEF StoreInv, Types, Kept, Times
<1> DEFINE b == insert(store[r][e.key], e.time, e.value)
<1>5. /\ b \in Bucket
      /\ KeptOf(DOMAIN b, Times(r, e.key) \cup {e.time})
      /\ \A u \in DOMAIN b : b[u] = IF u = e.time THEN e.value ELSE store[r][e.key][u]
  <2>1. b \in Bucket
    BY <1>1, <1>4, InsertKeeps
  <2>2. KeptOf(DOMAIN b, Times(r, e.key) \cup {e.time})
    BY <1>1, <1>4, InsertKeeps
  <2>3. \A u \in DOMAIN b : b[u] = IF u = e.time THEN e.value ELSE store[r][e.key][u]
    BY DEF insert, Put, Restrict
  <2> QED BY <2>1, <2>2, <2>3
<1> HIDE DEF b
<1>6. Types'
  <2>1. store' \in [Replica -> [Key -> Bucket]]
    BY <1>5 DEF StoreInv, Types, Insert, b
  <2>2. inserted' \in [Replica -> SUBSET Entry]
    BY <1>1 DEF StoreInv, Types, Insert
  <2>3. Put(committed[r], <<e.key, e.time>>, e.value) \in History
    <3> DEFINE P == DOMAIN committed[r] \cup {<<e.key, e.time>>}
               c == Put(committed[r], <<e.key, e.time>>, e.value)
    <3>1. DOMAIN committed[r] \in SUBSET (Key \X Time) /\ committed[r] \in [DOMAIN committed[r] -> StoredValue]
      BY DEF StoreInv, Types, History
    <3>2. P \in SUBSET (Key \X Time)
      BY <1>1, <3>1
    <3>3. c \in [P -> StoredValue]
      BY <1>1, <3>1 DEF Put
    <3> QED BY <3>2, <3>3 DEF History
  <2>4. committed' \in [Replica -> History]
    BY <2>3 DEF StoreInv, Types, Insert
  <2> QED BY <1>2, <2>1, <2>2, <2>4 DEF StoreInv, Types
<1>7. Control'
  <2>1. \A s \in Replica : Fusing(s)' <=> Fusing(s)
    BY <1>2 DEF Fusing
  <2>2. \A s \in Replica : inserted'[s] \subseteq Insertions
    BY InsertEffect DEF StoreInv, Control
  <2>3. ASSUME NEW s \in Replica, NEW f \in inserted'[s], NEW g \in Left(s)'
        PROVE  f.at <= g.at
    <3>1. g \in Insertions /\ g \notin inserted'[s]
      BY <1>3 DEF Left
    <3>2. CASE s = r /\ f = e
      BY <1>2, <3>1, <3>2, InsertEffect
    <3>3. CASE ~ (s = r /\ f = e)
      <4>1. f \in inserted[s] /\ g \notin inserted[s]
        BY <3>1, <3>3, InsertEffect
      <4> QED BY <3>1, <4>1 DEF StoreInv, Control, Left
    <3> QED BY <3>2, <3>3
  <2>4. \A s \in Replica : stage'[s] = "done" => inserted'[s] = inserted[s]
    BY <1>2, InsertEffect
  <2>5. \A s \in Replica : ~ Fusing(s)' => inserted'[s] = inserted[s]
    BY <1>2, <2>1, InsertEffect DEF Fusing
  <2>6. \A s \in Replica : vector'[s] = vector[s] /\ root'[s] = root[s] /\ honest' = honest /\ stage'[s] = stage[s]
    BY <1>2
  <2> QED BY <1>3, <2>1, <2>2, <2>3, <2>4, <2>5, <2>6 DEF StoreInv, Control
<1>8. Kept'
  <2> SUFFICES ASSUME NEW s \in Replica, NEW k \in Key
               PROVE  /\ KeptOf(DOMAIN store'[s][k], Times(s, k)')
                      /\ \A t \in DOMAIN store'[s][k] : store'[s][k][t] = committed'[s][<<k, t>>]
    BY DEF Kept, KeptOf
  <2>1. /\ KeptOf(DOMAIN store[s][k], Times(s, k))
        /\ \A t \in DOMAIN store[s][k] : store[s][k][t] = committed[s][<<k, t>>]
    BY DEF StoreInv, Kept
  <2>2. CASE s # r
    <3>1. store'[s][k] = store[s][k] /\ committed'[s] = committed[s]
      BY <2>2, InsertEffect
    <3>2. Times(s, k)' = Times(s, k)
      BY <3>1 DEF Times
    <3> QED BY <2>1, <3>1, <3>2
  <2>3. CASE s = r /\ k # e.key
    <3>1. store'[s][k] = store[s][k] /\ Times(s, k)' = Times(s, k)
      BY <2>3, InsertEffect
    <3>2. ASSUME NEW t \in DOMAIN store[s][k] PROVE committed'[s][<<k, t>>] = committed[s][<<k, t>>]
      <4>1. t \in Times(s, k)
        BY <2>1 DEF KeptOf
      <4>2. <<k, t>> \in DOMAIN committed'[s]
        BY <2>3, <4>1, InsertEffect DEF Times
      <4>3. <<k, t>> # <<e.key, e.time>>
        BY <2>3
      <4> QED BY <2>3, <4>2, <4>3, InsertEffect
    <3> QED BY <2>1, <3>1, <3>2
  <2>4. CASE s = r /\ k = e.key
    <3>1. store'[s][k] = b /\ Times(s, k)' = Times(r, k) \cup {e.time}
      BY <2>4, InsertEffect DEF b
    <3>2. KeptOf(DOMAIN b, Times(s, k)')
      BY <1>5, <2>4, <3>1
    <3>3. ASSUME NEW t \in DOMAIN b PROVE b[t] = committed'[s][<<k, t>>]
      <4>1. t \in Times(s, k)' /\ t \in Time
        BY <3>2 DEF KeptOf, Times
      <4>2. <<k, t>> \in DOMAIN committed'[s]
        BY <4>1 DEF Times
      <4>3. CASE t = e.time
        BY <1>5, <2>4, <4>2, <4>3, InsertEffect
      <4>4. CASE t # e.time
        <5>1. committed'[s][<<k, t>>] = committed[s][<<k, t>>]
          BY <2>4, <4>2, <4>4, InsertEffect
        <5>2. b[t] = store[s][k][t]
          BY <1>5, <2>4, <4>4
        <5>3. t \in DOMAIN store[s][k]
          BY <2>4, <3>3, <4>4 DEF b, insert, Put, Restrict
        <5> QED BY <2>1, <5>1, <5>2, <5>3
      <4> QED BY <4>3, <4>4
    <3> QED BY <3>1, <3>2, <3>3
  <2> QED BY <2>2, <2>3, <2>4
<1>9. LastWins'
  <2> SUFFICES ASSUME NEW s \in Replica, NEW f \in inserted'[s],
                      \A g \in inserted'[s] : Same(f, g) => g.at <= f.at
               PROVE  /\ <<f.key, f.time>> \in DOMAIN committed'[s]
                      /\ committed'[s][<<f.key, f.time>>] = f.value
    BY DEF LastWins, Same
  <2>1. CASE s # r
    BY <2>1, InsertEffect DEF StoreInv, LastWins
  <2>2. CASE s = r /\ f = e
    BY <2>2, InsertEffect
  <2>3. CASE s = r /\ f # e
    <3>1. f \in inserted[r] /\ f \in Insertions /\ e \in inserted'[r]
      BY <2>3, InsertEffect DEF StoreInv, Control
    <3>2. ~ Same(f, e)
      <4> SUFFICES ASSUME Same(f, e) PROVE FALSE
        OBVIOUS
      <4>1. e.at <= f.at
        BY <2>3, <3>1
      <4>2. f.at <= e.at
        BY <1>2, <3>1 DEF StoreInv, Control, Left
      <4>3. f \in Entry
        BY <3>1, InsertionTypes DEF StoreInv, Types
      <4>4. f.at = e.at
        BY <1>1, <4>1, <4>2, <4>3 DEF Entry
      <4> QED BY <2>3, <3>1, <4>4, InsertionUnique DEF StoreInv, Types
    <3>3. \A g \in inserted[r] : Same(f, g) => g.at <= f.at
      BY <2>3, InsertEffect
    <3>4. /\ <<f.key, f.time>> \in DOMAIN committed[r]
          /\ committed[r][<<f.key, f.time>>] = f.value
      BY <3>1, <3>3 DEF StoreInv, LastWins
    <3>5. <<f.key, f.time>> # <<e.key, e.time>>
      BY <3>2 DEF Same
    <3> QED BY <2>3, <3>4, <3>5, InsertEffect
  <2> QED BY <2>1, <2>2, <2>3
<1>10. Agree'
  <2> SUFFICES ASSUME NEW s \in Replica, NEW q \in Replica, NEW k \in Key, NEW t \in Time,
                      \A f \in inserted'[s] \cup inserted'[q] : ~ (f.key = k /\ f.time = t)
               PROVE  /\ <<k, t>> \in DOMAIN committed'[s] <=> <<k, t>> \in DOMAIN committed'[q]
                      /\ <<k, t>> \in DOMAIN committed'[s] => committed'[s][<<k, t>>] = committed'[q][<<k, t>>]
    BY DEF Agree
  <2>1. ASSUME NEW p \in {s, q}
        PROVE  /\ <<k, t>> \in DOMAIN committed'[p] <=> <<k, t>> \in DOMAIN committed[p]
               /\ <<k, t>> \in DOMAIN committed[p] => committed'[p][<<k, t>>] = committed[p][<<k, t>>]
    <3>1. CASE p # r
      BY <3>1, InsertEffect
    <3>2. CASE p = r
      <4>1. <<k, t>> # <<e.key, e.time>>
        BY <2>1, <3>2, InsertEffect
      <4> QED BY <3>2, <4>1, InsertEffect
    <3> QED BY <3>1, <3>2
  <2>2. \A f \in inserted[s] \cup inserted[q] : ~ (f.key = k /\ f.time = t)
    BY InsertEffect
  <2>3. /\ <<k, t>> \in DOMAIN committed[s] <=> <<k, t>> \in DOMAIN committed[q]
        /\ <<k, t>> \in DOMAIN committed[s] => committed[s][<<k, t>>] = committed[q][<<k, t>>]
    BY <2>2 DEF StoreInv, Agree
  <2> QED BY <2>1, <2>3
<1> QED BY <1>6, <1>7, <1>8, <1>9, <1>10 DEF StoreInv

-----------------------------------------------------------------------------
(* The end of a job and the next release.                                  *)

\* Replicas that are done have committed the same values: for a key and a time
\* the insertion that comes last decides, and is the same for all.
LEMMA DoneAgree ==
  ASSUME StoreInv, NEW r \in Replica, NEW s \in Replica, stage[r] = "done", stage[s] = "done",
         NEW k \in Key, NEW t \in Time
  PROVE  /\ <<k, t>> \in DOMAIN committed[r] <=> <<k, t>> \in DOMAIN committed[s]
         /\ <<k, t>> \in DOMAIN committed[r] => committed[r][<<k, t>>] = committed[s][<<k, t>>]
<1>1. inserted[r] = Insertions /\ inserted[s] = Insertions
  BY DEF StoreInv, Control
<1>2. CASE \A e \in Insertions : ~ (e.key = k /\ e.time = t)
  BY <1>1, <1>2 DEF StoreInv, Agree
<1>3. CASE \E e \in Insertions : e.key = k /\ e.time = t
  <2> DEFINE A == {n \in Nat : \E e \in Insertions : e.key = k /\ e.time = t /\ e.at = n}
  <2>1. \A e \in Insertions : e.at \in Nat /\ e.at <= NT
    BY InsertionTypes DEF StoreInv, Types, Entry
  <2>2. NT \in Nat /\ A \in SUBSET Nat /\ A # {} /\ \A n \in A : n <= NT
    BY <1>3, <2>1, StoreAssumption
  <2>3. Max(A) \in A /\ \A n \in A : Max(A) >= n
    BY <2>2, MaxIsGreatest
  <2>4. PICK e \in Insertions : e.key = k /\ e.time = t /\ e.at = Max(A)
    BY <2>3
  <2>5. \A f \in Insertions : Same(e, f) => f.at <= e.at
    BY <2>1, <2>3, <2>4 DEF Same
  <2>6. /\ <<k, t>> \in DOMAIN committed[r] /\ committed[r][<<k, t>>] = e.value
        /\ <<k, t>> \in DOMAIN committed[s] /\ committed[s][<<k, t>>] = e.value
    BY <1>1, <2>4, <2>5 DEF StoreInv, LastWins
  <2> QED BY <2>6
<1> QED BY <1>2, <1>3

LEMMA ReleaseStep ==
  ASSUME StoreInv, Release
  PROVE  StoreInv'
<1> USE DEF Release
<1>1. Types'
  <2>1. <<>> \in Seq(Tuple) /\ Len(<<>>) = 0 /\ NT \in Nat /\ MaxTime \in Nat
    BY StoreAssumption
  <2> QED BY <2>1 DEF StoreInv, Types
<1>2. Control'
  BY DEF Control, Fusing, Range
<1>3. Kept'
  BY DEF StoreInv, Kept, Times, KeptOf
<1>4. LastWins'
  BY DEF LastWins
<1>5. Agree'
  BY DoneAgree DEF Agree
<1> QED BY <1>1, <1>2, <1>3, <1>4, <1>5 DEF StoreInv

LEMMA StoreStutter ==
  ASSUME StoreInv, UNCHANGED vars
  PROVE  StoreInv'
<1> USE DEF vars
<1>1. Types'
  BY DEF StoreInv, Types
<1>2. Control'
  BY SameInsertions DEF StoreInv, Control, Fusing, Left
<1> QED BY <1>1, <1>2, StoreFrame DEF StoreInv

LEMMA StoreInductive == StoreInv /\ [Next]_vars => StoreInv'
<1> SUFFICES ASSUME StoreInv, [Next]_vars PROVE StoreInv'
  OBVIOUS
<1>1. ASSUME NEW r \in Replica, NEW k \in Key, NEW t \in {now, now + 1}, NEW v \in Value, try_write(r, k, t, v)
      PROVE  StoreInv'
  BY <1>1, WriteStep
<1>2. ASSUME NEW r \in Replica, CopyRoot(r) PROVE StoreInv'
  BY <1>2, CopyStep
<1>3. ASSUME NEW r \in Replica, ClearUnpublished(r) PROVE StoreInv'
  BY <1>3, ClearStep
<1>4. ASSUME NEW r \in Replica, NEW e \in Insertions, Insert(r, e) PROVE StoreInv'
  BY <1>4, InsertStep
<1>5. ASSUME NEW r \in Replica, EndJob(r) PROVE StoreInv'
  BY <1>5, EndStep
<1>6. ASSUME NEW claims \in [Faulty -> Claim], Exchange(claims) PROVE StoreInv'
  BY <1>6, ExchangeStep
<1>7. CASE Release
  BY <1>7, ReleaseStep
<1>8. CASE Stop \/ UNCHANGED vars
  BY <1>8, StoreStutter DEF Stop
<1> QED BY <1>1, <1>2, <1>3, <1>4, <1>5, <1>6, <1>7, <1>8 DEF Next

\* The inductive invariant holds of every job: the replicas fuse together, each
\* its part of the same insertions, in order, into buckets that keep the newest
\* times.
THEOREM StoreInvariant == Spec => []StoreInv
BY StoreInit, StoreInductive, PTL DEF Spec

-----------------------------------------------------------------------------
(* What follows from it.                                                   *)

LEMMA StoreTypeOK == StoreInv => TypeOK
<1> SUFFICES ASSUME StoreInv PROVE TypeOK
  OBVIOUS
<1>1. NT \in Nat
  BY StoreAssumption
<1>2. ASSUME NEW e \in Seq(Tuple), Len(e) <= NT
      PROVE  e \in BoundedSeq(Tuple, NT)
  <2>1. Len(e) \in 0..NT /\ e \in [1..Len(e) -> Tuple]
    BY <1>1, <1>2
  <2> QED BY <2>1 DEF BoundedSeq, SeqOf
<1>3. ASSUME NEW r \in Replica
      PROVE  /\ unpublished[r] \in BoundedSeq(Tuple, NT)
             /\ root[r] \in BoundedSeq(Tuple, NT)
             /\ stage[r] \in {"idle", "copied", "exchange", "fuse", "done"}
  BY <1>2 DEF StoreInv, Types
<1>4. ASSUME NEW r \in Replica, NEW k \in Key
      PROVE  /\ DOMAIN store[r][k] \subseteq Time
             /\ Range(store[r][k]) \subseteq StoredValue
             /\ Cardinality(DOMAIN store[r][k]) <= keep_n_values
  BY DEF StoreInv, Types, Kept, KeptOf, Bucket, Range
<1>5. fuse_function \in Fusions /\ now \in 0..MaxTime
  BY DEF StoreInv, Types
<1> QED BY <1>3, <1>4, <1>5 DEF TypeOK

\* Proposals never exceed NT tuples and buckets never exceed keep_n_values
\* entries: try_write checks for room and every insertion is followed by the
\* removal of the oldest entry.
THEOREM StoreTypes == Spec => []TypeOK
BY StoreInvariant, StoreTypeOK, PTL

LEMMA StoreKeepsNewest == StoreInv => KeepsNewest
<1> SUFFICES ASSUME StoreInv, NEW r \in Replica, NEW k \in Key
             PROVE  store[r][k] =
                      [t \in {t \in Times(r, k) : Cardinality({u \in Times(r, k) : u > t}) < keep_n_values} |->
                         committed[r][<<k, t>>]]
  BY DEF KeepsNewest, Times
<1> DEFINE T == Times(r, k)
           D == DOMAIN store[r][k]
           Newer(t) == {u \in T : u > t}
<1>1. /\ D \subseteq T /\ Cardinality(D) <= keep_n_values
      /\ D # T => Cardinality(D) = keep_n_values
      /\ \A u \in T \ D, t \in D : u < t
      /\ \A t \in D : store[r][k][t] = committed[r][<<k, t>>]
      /\ store[r][k] \in [D -> StoredValue]
  BY DEF StoreInv, Types, Kept, KeptOf, Bucket
<1>2. T \in SUBSET Time /\ T \subseteq Nat
  BY TimeFacts DEF Times
<1>3. keep_n_values \in Nat
  BY StoreAssumption
<1> HIDE DEF T, D
<1>4. ASSUME NEW t \in D PROVE Cardinality(Newer(t)) < keep_n_values
  <2>1. ASSUME NEW d \in Newer(t) PROVE d \in D \ {t}
    <3>1. d \in T /\ d \in Nat /\ t \in Nat /\ d > t
      BY <1>1, <1>2
    <3>2. d # t /\ ~ (d < t)
      BY <3>1
    <3> QED BY <1>1, <3>1, <3>2
  <2>2. IsFiniteSet(D) /\ Cardinality(D) \in Nat
    BY <1>1, <1>2, TimeFacts
  <2>3. IsFiniteSet(D \ {t}) /\ Cardinality(D \ {t}) = Cardinality(D) - 1
    BY <2>2, FS_RemoveElement
  <2>4. Cardinality(Newer(t)) <= Cardinality(D \ {t})
    BY <2>1, <2>3, FS_Subset
  <2>5. Newer(t) \in SUBSET Time
    BY <1>2
  <2>6. Cardinality(Newer(t)) \in Nat
    BY <2>5, TimeFacts
  <2> QED BY <1>1, <1>3, <2>2, <2>3, <2>4, <2>6
<1>5. ASSUME NEW t \in T \ D PROVE ~ (Cardinality(Newer(t)) < keep_n_values)
  <2>1. ASSUME NEW d \in D PROVE d \in Newer(t)
    <3>1. d \in T /\ d \in Nat /\ t \in Nat /\ t < d
      BY <1>1, <1>2
    <3> QED BY <3>1
  <2>2. Newer(t) \in SUBSET Time
    BY <1>2
  <2>3. IsFiniteSet(Newer(t)) /\ Cardinality(Newer(t)) \in Nat
    BY <2>2, TimeFacts
  <2>4. Cardinality(D) <= Cardinality(Newer(t))
    BY <2>1, <2>3, FS_Subset
  <2>5. Cardinality(D) = keep_n_values
    BY <1>1
  <2> QED BY <1>3, <2>3, <2>4, <2>5
<1>6. D = {t \in T : Cardinality(Newer(t)) < keep_n_values}
  BY <1>1, <1>4, <1>5
<1>7. store[r][k] = [t \in D |-> committed[r][<<k, t>>]]
  BY <1>1
<1> QED BY <1>6, <1>7 DEF T

\* A bucket holds the newest keep_n_values of all times ever committed to its
\* key, with the values committed last, at every moment of a fusion, although
\* an insertion may bring back a time that had been removed.
THEOREM NewestKept == Spec => []KeepsNewest
BY StoreInvariant, StoreKeepsNewest, PTL

LEMMA StoreAgrees == StoreInv => StoresAgree
<1> SUFFICES ASSUME StoreInv, NEW r \in Replica, NEW s \in Replica, stage[r] = "done", stage[s] = "done"
             PROVE  store[r] = store[s]
  BY DEF StoresAgree
<1>1. ASSUME NEW k \in Key PROVE store[r][k] = store[s][k]
  <2>1. Times(r, k) = Times(s, k)
    BY DoneAgree DEF Times
  <2> DEFINE Kept_(T) == {t \in T : Cardinality({u \in T : u > t}) < keep_n_values}
  <2>2. /\ store[r][k] = [t \in Kept_(Times(r, k)) |-> committed[r][<<k, t>>]]
        /\ store[s][k] = [t \in Kept_(Times(s, k)) |-> committed[s][<<k, t>>]]
    BY StoreKeepsNewest DEF KeepsNewest, Times
  <2>3. \A t \in Times(r, k) : committed[r][<<k, t>>] = committed[s][<<k, t>>]
    BY DoneAgree DEF Times
  <2> QED BY <2>1, <2>2, <2>3
<1>2. store[r] \in [Key -> Bucket] /\ store[s] \in [Key -> Bucket]
  BY DEF StoreInv, Types
<1> QED BY <1>1, <1>2

\* Replicas that have ended the same job hold the same data, in whatever order
\* they walked their hash tables and whatever was removed on the way.
THEOREM ReplicasAgree == Spec => []StoresAgree
BY StoreInvariant, StoreAgrees, PTL

-----------------------------------------------------------------------------
(* Faulty processes cannot forge values.                                   *)

\* The vote of an obeying replica is a tuple that it proposed.
LEMMA HonestVote ==
  ASSUME StoreInv, NEW r \in Replica, Fusing(r), NEW k \in Key, NEW t \in Time,
         NEW n \in DOMAIN Votes(k, t), n \in Replica
  PROVE  \E x \in honest : x.key = k /\ x.time = t /\ x.value = Votes(k, t)[n]
<1>1. vector \in [Node -> Seq(Tuple)] /\ vector[n] = root[n] /\ Range(root[n]) \subseteq honest
  BY DEF StoreInv, Types, Control
<1>2. PICK i \in LastSaid(vector[n], k, t) : Votes(k, t)[n] = vector[n][i].value
  BY <1>1, VoteFacts
<1>3. i \in DOMAIN vector[n] /\ vector[n][i].key = k /\ vector[n][i].time = t
  BY <1>2 DEF LastSaid
<1>4. vector[n][i] \in honest
  BY <1>1, <1>3 DEF Range
<1> QED BY <1>2, <1>3, <1>4

\* With more than twice as many votes as faulty processes the median lies
\* between the votes of two obeying replicas.
LEMMA MedianBetween ==
  ASSUME vector \in [Node -> Seq(Tuple)], NEW k \in Key, NEW t \in Time,
         Cardinality(DOMAIN Votes(k, t)) > 2 * Cardinality(Faulty)
  PROVE  \E a, b \in DOMAIN Votes(k, t) :
           /\ a \in Replica /\ b \in Replica
           /\ 2 * Votes(k, t)[a] <= Median(Votes(k, t))
           /\ Median(Votes(k, t)) <= 2 * Votes(k, t)[b]
<1> DEFINE votes == Votes(k, t)
           S == DOMAIN votes
           n == Cardinality(S)
           g == Cardinality(Faulty)
           high == (n \div 2) + 1
           low == ((n - 1) \div 2) + 1
<1>1. S \in SUBSET Node /\ votes \in [S -> Value]
  BY VoteFacts
<1>2. IsFiniteSet(S) /\ n \in Nat
  BY <1>1, ObeyingAmong
<1>3. g \in Nat /\ IsFiniteSet(Faulty) /\ n > 2 * g /\ n >= 1
  BY <1>2, NodeFacts, StoreAssumption
<1> HIDE DEF votes, g
<1>4. S # {}
  BY <1>2, <1>3, FS_EmptySet
<1>5. PICK s \in [1..n -> S] :
        /\ \A i, j \in 1..n : i # j => s[i] # s[j]
        /\ \A i, j \in 1..n : i <= j => votes[s[i]] <= votes[s[j]]
        /\ Median(votes) = votes[s[high]] + votes[s[low]]
  BY <1>1, <1>2, <1>4, MedianFacts
<1> HIDE DEF S, n
<1>6. /\ high \in 1..n /\ high > g /\ low \in 1..n /\ low > g
      /\ n - high + 1 > g /\ n - low + 1 > g /\ low <= high
  <2>1. /\ (n \div 2) + 1 \in 1..n /\ (n \div 2) + 1 > g
        /\ ((n - 1) \div 2) + 1 \in 1..n /\ ((n - 1) \div 2) + 1 > g
        /\ n - ((n - 1) \div 2) > g /\ n - (n \div 2) > g
    BY <1>2, <1>3, MiddlePositions
  <2>2. (n - 1) \div 2 <= n \div 2 /\ n \div 2 \in Int /\ (n - 1) \div 2 \in Int
    BY <1>2, <1>3
  <2> QED BY <1>2, <1>3, <2>1, <2>2
<1> HIDE DEF high, low
<1>7. PICK i \in 1..low : s[i] \notin Faulty
  BY <1>2, <1>3, <1>5, <1>6, GoodOnBothSides DEF g
<1>8. PICK j \in high..n : s[j] \notin Faulty
  BY <1>2, <1>3, <1>5, <1>6, GoodOnBothSides DEF g
<1>9. i \in 1..n /\ i <= low /\ i <= high /\ j \in 1..n /\ high <= j /\ low <= j
  BY <1>2, <1>6, <1>7, <1>8
<1>10. s[i] \in S /\ s[i] \in Replica /\ s[j] \in S /\ s[j] \in Replica /\ s[low] \in S /\ s[high] \in S
  BY <1>1, <1>5, <1>6, <1>7, <1>8, <1>9 DEF Node
<1>11. /\ votes[s[i]] <= votes[s[low]] /\ votes[s[i]] <= votes[s[high]]
       /\ votes[s[low]] <= votes[s[j]] /\ votes[s[high]] <= votes[s[j]]
  BY <1>5, <1>6, <1>9
<1>12. votes[s[i]] \in Nat /\ votes[s[j]] \in Nat /\ votes[s[low]] \in Nat /\ votes[s[high]] \in Nat
  <2>1. \A x \in S : votes[x] \in Nat
    BY <1>1, StoreAssumption
  <2> QED BY <1>10, <2>1
<1>13. 2 * votes[s[i]] <= Median(votes) /\ Median(votes) <= 2 * votes[s[j]]
  BY <1>5, <1>11, <1>12
<1> QED BY <1>10, <1>13 DEF S, votes

\* The quorum of three votes of median_of_doubles is enough for one faulty
\* process.
QuorumFits == "median" \in Fusions => Cardinality(Faulty) <= 1

LEMMA InsertionBacked ==
  ASSUME StoreInv, QuorumFits, NEW r \in Replica, Fusing(r), NEW e \in Insertions
  PROVE  Backed(e.key, e.time, e.value)
<1>1. vector \in [Node -> Seq(Tuple)] /\ fuse_function \in Fusions
  BY DEF StoreInv, Types
<1>2. \A x \in honest : x.value \in Nat
  BY StoreAssumption DEF StoreInv, Types, Tuple
<1>3. CASE fuse_function = "default"
  <2>1. PICK i \in DOMAIN reduced :
          e = [at |-> i, key |-> reduced[i].key, time |-> reduced[i].time, value |-> 2 * reduced[i].value]
    BY <1>3, InsertionForms
  <2>2. reduced # <<>>
    BY <2>1
  <2>3. PICK n \in Replica : vector[n] = reduced
    BY <1>1, <2>2, ReducedFacts
  <2>4. reduced[i] \in Range(root[n])
    BY <2>1, <2>3 DEF StoreInv, Control, Range
  <2>5. reduced[i] \in honest
    BY <2>4 DEF StoreInv, Control
  <2> HIDE DEF reduced
  <2>6. 2 * reduced[i].value <= 2 * reduced[i].value
    BY <1>2, <2>5
  <2> QED BY <2>1, <2>5, <2>6 DEF Backed
<1>4. CASE fuse_function # "default"
  <2>1. PICK k, t, v : k \in Key /\ t \in Time /\ v \in fused(k, t) /\ e = [at |-> 0, key |-> k, time |-> t, value |-> v]
    BY <1>4, InsertionForms
  <2> DEFINE votes == Votes(k, t)
             S == DOMAIN votes
  <2>2. S \in SUBSET Node /\ votes \in [S -> Value]
    BY <1>1, VoteFacts
  <2>3. \A n \in S : n \in Replica => \E x \in honest : x.key = k /\ x.time = t /\ x.value = votes[n]
    BY <2>1, HonestVote
  <2>4. \E a, b \in S : a \in Replica /\ b \in Replica /\ 2 * votes[a] <= v /\ v <= 2 * votes[b]
    <3>1. CASE fuse_function = "median"
      <4>1. Cardinality(S) \in Nat /\ Cardinality(Faulty) \in Nat
        BY <2>2, ObeyingAmong, NodeFacts
      <4>2. Cardinality(S) >= 3 /\ v = Median(votes)
        BY <2>1, <3>1, <4>1 DEF fused, median_of_doubles
      <4>3. Cardinality(S) > 2 * Cardinality(Faulty)
        BY <1>1, <3>1, <4>1, <4>2 DEF QuorumFits
      <4> QED BY <1>1, <2>1, <4>2, <4>3, MedianBetween
    <3>2. CASE fuse_function # "median"
      <4> DEFINE For(x) == {n \in S : votes[n] = x}
      <4>1. PICK x \in Value : v = 2 * x /\ 2 * Cardinality(For(x)) > Cardinality(Node)
        BY <2>1, <3>2 DEF fused, strong_simple_majority_of_strings
      <4>2. For(x) \in SUBSET Node
        BY <2>2
      <4>3. Cardinality(For(x)) \in Nat
        BY <4>2, ObeyingAmong
      <4>4. Cardinality(For(x)) > Cardinality(Faulty)
        BY <4>1, <4>3, NodeFacts
      <4>5. PICK n \in For(x) : n \in Replica
        BY <4>2, <4>4, ObeyingAmong
      <4>6. x \in Nat
        BY <4>1, StoreAssumption
      <4>7. n \in S /\ 2 * votes[n] <= v /\ v <= 2 * votes[n]
        BY <4>1, <4>5, <4>6
      <4> QED BY <4>5, <4>7
    <3> QED BY <3>1, <3>2
  <2> HIDE DEF S, votes
  <2>5. PICK a, b \in S : a \in Replica /\ b \in Replica /\ 2 * votes[a] <= v /\ v <= 2 * votes[b]
    BY <2>4
  <2> QED BY <2>1, <2>3, <2>5 DEF Backed
<1> QED BY <1>3, <1>4

LEMMA SoundInit == Init => Sound
BY DEF Init, Sound, EmptyBucket

LEMMA SoundInductive ==
  ASSUME QuorumFits, StoreInv, Sound, [Next]_vars
  PROVE  Sound'
<1> DEFINE Known(H, k, t, v) == \E x, y \in H :
             /\ x.key = k /\ y.key = k /\ x.time = t /\ y.time = t
             /\ 2 * x.value <= v /\ v <= 2 * y.value
<1>1. /\ now \in Nat
      /\ \A r \in Replica : unpublished[r] \in Seq(Tuple)
      /\ \A x \in Tuple : x.time \in Nat
      /\ honest \subseteq Tuple
  <2>1. now \in Nat
    BY StoreAssumption DEF StoreInv, Types
  <2>2. \A x \in Tuple : x.time \in Nat
    BY TimeFacts DEF Tuple
  <2> QED BY <2>1, <2>2 DEF StoreInv, Types
<1>2. /\ \A r \in Replica, k \in Key, t \in Time :
           <<k, t>> \in DOMAIN committed[r] => Known(honest, k, t, committed[r][<<k, t>>])
      /\ \A r \in Replica : \A i \in DOMAIN unpublished[r] : unpublished[r][i].time <= now + 1
      /\ \A x \in honest : x.time <= now + 1
  BY DEF Sound, Backed
<1> DEFINE Goal ==
             /\ \A r \in Replica, k \in Key, t \in Time :
                  <<k, t>> \in DOMAIN committed'[r] => Known(honest', k, t, committed'[r][<<k, t>>])
             /\ \A r \in Replica : \A i \in DOMAIN unpublished'[r] : unpublished'[r][i].time <= now' + 1
             /\ \A x \in honest' : x.time <= now' + 1
<1>3. SUFFICES Goal
  BY DEF Sound, Backed
<1>4. ASSUME NEW r \in Replica, NEW k \in Key, NEW t \in {now, now + 1}, NEW v \in Value, try_write(r, k, t, v)
      PROVE  Goal
  <2>1. committed' = committed /\ honest' = honest /\ now' = now
    BY <1>4 DEF try_write
  <2>2. /\ unpublished'[r] = Append(unpublished[r], [key |-> k, time |-> t, value |-> v])
        /\ \A s \in Replica : s # r => unpublished'[s] = unpublished[s]
    BY <1>4 DEF try_write, StoreInv, Types
  <2>3. ASSUME NEW i \in DOMAIN unpublished'[r] PROVE unpublished'[r][i].time <= now + 1
    <3>1. CASE i \in DOMAIN unpublished[r]
      BY <1>1, <1>2, <2>2, <3>1
    <3>2. CASE i \notin DOMAIN unpublished[r]
      <4>1. unpublished'[r][i] = [key |-> k, time |-> t, value |-> v]
        BY <1>1, <2>2, <3>2
      <4> QED BY <1>1, <4>1
    <3> QED BY <3>1, <3>2
  <2> QED BY <1>2, <2>1, <2>2, <2>3
<1>5. ASSUME NEW r \in Replica, CopyRoot(r)
      PROVE  Goal
  <2>1. committed' = committed /\ unpublished' = unpublished /\ now' = now /\ honest' = honest \cup Range(unpublished[r])
    BY <1>5 DEF CopyRoot
  <2>2. \A x \in Range(unpublished[r]) : x.time <= now + 1
    BY <1>2 DEF Range
  <2>3. \A k, t, v : Known(honest, k, t, v) => Known(honest', k, t, v)
    BY <2>1
  <2> QED BY <1>2, <2>1, <2>2, <2>3
<1>6. ASSUME NEW r \in Replica, ClearUnpublished(r)
      PROVE  Goal
  <2>1. committed' = committed /\ honest' = honest /\ now' = now
    BY <1>6 DEF ClearUnpublished
  <2>2. unpublished'[r] = <<>> /\ \A s \in Replica : s # r => unpublished'[s] = unpublished[s]
    BY <1>6 DEF ClearUnpublished, StoreInv, Types
  <2> QED BY <1>2, <2>1, <2>2
<1>7. ASSUME NEW r \in Replica, NEW e \in Insertions, Insert(r, e)
      PROVE  Goal
  <2>1. honest' = honest /\ now' = now /\ unpublished' = unpublished /\ Fusing(r)
    BY <1>7 DEF Insert, Fusing
  <2>2. Known(honest, e.key, e.time, e.value)
    BY <1>7, <2>1, InsertionBacked DEF Backed
  <2> HIDE DEF Known
  <2>3. ASSUME NEW s \in Replica, NEW k \in Key, NEW t \in Time, <<k, t>> \in DOMAIN committed'[s]
        PROVE  Known(honest, k, t, committed'[s][<<k, t>>])
    <3>1. CASE s # r
      BY <1>2, <1>7, <2>3, <3>1, InsertEffect
    <3>2. CASE s = r /\ k = e.key /\ t = e.time
      BY <1>7, <2>2, <2>3, <3>2, InsertEffect
    <3>3. CASE s = r /\ ~ (k = e.key /\ t = e.time)
      <4>1. <<k, t>> # <<e.key, e.time>>
        BY <3>3
      <4> QED BY <1>2, <1>7, <2>3, <3>3, <4>1, InsertEffect
    <3> QED BY <3>1, <3>2, <3>3
  <2> QED BY <1>2, <2>1, <2>3
<1>8. CASE Release
  <2>1. committed' = committed /\ honest' = honest /\ unpublished' = unpublished /\ now' = now + 1
    BY <1>8 DEF Release
  <2>2. \A x \in Tuple : x.time <= now + 1 => x.time <= now' + 1
    BY <1>1, <2>1
  <2>3. \A r \in Replica : \A i \in DOMAIN unpublished[r] : unpublished[r][i] \in Tuple
    BY <1>1
  <2> QED BY <1>1, <1>2, <2>1, <2>2, <2>3
<1>9. CASE \/ \E r \in Replica : EndJob(r)
           \/ \E claims \in [Faulty -> Claim] : Exchange(claims)
           \/ Stop \/ UNCHANGED vars
  <2>1. committed' = committed /\ honest' = honest /\ unpublished' = unpublished /\ now' = now
    BY <1>9 DEF EndJob, Exchange, Stop, vars
  <2> QED BY <1>2, <2>1
<1> HIDE DEF Goal
<1> QED BY <1>4, <1>5, <1>6, <1>7, <1>8, <1>9 DEF Next

\* What was ever committed is backed by obeying replicas, and nobody who obeys
\* proposes for a time after the period that comes.
THEOREM SoundInvariant == ASSUME QuorumFits PROVE Spec => []Sound
<1>1. StoreInv /\ Sound /\ [Next]_vars => Sound'
  BY SoundInductive
<1> QED BY <1>1, SoundInit, StoreInvariant, PTL DEF Spec

LEMMA StoreNotForged == StoreInv /\ Sound => NotForged
<1> SUFFICES ASSUME StoreInv, Sound, NEW r \in Replica, NEW k \in Key, NEW t \in DOMAIN store[r][k]
             PROVE  Backed(k, t, store[r][k][t])
  BY DEF NotForged, Backed
<1>1. t \in Times(r, k) /\ store[r][k][t] = committed[r][<<k, t>>]
  BY DEF StoreInv, Kept, KeptOf
<1> QED BY <1>1 DEF Sound, Times

\* Every value in a store lies between two values that obeying replicas proposed
\* for its key and time, whatever the faulty processes made everybody believe
\* that they proposed.
THEOREM NothingForged == ASSUME QuorumFits PROVE Spec => []NotForged
BY SoundInvariant, StoreInvariant, StoreNotForged, PTL

-----------------------------------------------------------------------------
(* What is committed can be read.                                          *)

\* The longest time ahead that a task writes for is one period: one entry of a
\* bucket may be for the future, and the next must still be there.
LEMMA StoreReadable ==
  ASSUME keep_n_values >= 2, StoreInv, Sound
  PROVE  Readable
<1> SUFFICES ASSUME NEW r \in Replica, NEW kt \in DOMAIN committed[r], kt[2] <= now
             PROVE  try_read(store[r][kt[1]], kt[2]) # <<>>
  BY DEF Readable
<1> DEFINE k == kt[1]
           t == kt[2]
           b == store[r][k]
           D == DOMAIN b
           seen == {u \in D : u <= now \/ u < t}
<1>1. k \in Key /\ t \in Time /\ kt = <<k, t>>
  BY DEF StoreInv, Types, History
<1>2. /\ t \in Times(r, k) /\ D \subseteq Times(r, k)
      /\ D # Times(r, k) => Cardinality(D) = keep_n_values
      /\ \A u \in Times(r, k) \ D, w \in D : u < w
  BY <1>1 DEF StoreInv, Kept, KeptOf, Times
<1>3. now \in Nat /\ t \in Nat /\ t <= now /\ D \in SUBSET Time /\ D \subseteq Nat
  <2>1. now \in Nat
    BY StoreAssumption DEF StoreInv, Types
  <2>2. Times(r, k) \subseteq Time
    BY DEF Times
  <2> QED BY <1>1, <1>2, <2>1, <2>2, TimeFacts
<1>4. ASSUME NEW u \in D PROVE u <= now + 1
  <2>1. u \in Time /\ <<k, u>> \in DOMAIN committed[r]
    BY <1>2 DEF Times
  <2>2. \E x \in honest : x.time = u
    BY <1>1, <2>1 DEF Sound, Backed
  <2> QED BY <2>2 DEF Sound
<1> HIDE DEF k, t, b, D
<1>5. \E u \in D : t <= u /\ u <= now
  <2>1. CASE t \in D
    BY <1>3, <2>1
  <2>2. CASE t \notin D
    <3>1. Cardinality(D) >= 2 /\ IsFiniteSet(D) /\ \A w \in D : t < w
      BY <1>2, <1>3, <2>2, TimeFacts
    <3>2. D \ {now + 1} # {}
      <4>1. Cardinality(D \ {now + 1}) = IF now + 1 \in D THEN Cardinality(D) - 1 ELSE Cardinality(D)
        BY <3>1, FS_RemoveElement
      <4>2. Cardinality(D) \in Nat
        BY <3>1, FS_CardinalityType
      <4>3. Cardinality(D \ {now + 1}) # 0
        BY <3>1, <4>1, <4>2
      <4> QED BY <4>3, FS_EmptySet
    <3>3. PICK u \in D : u # now + 1
      BY <3>2
    <3> QED BY <1>3, <1>4, <3>1, <3>3
  <2> QED BY <2>1, <2>2
<1>6. PICK u \in D : t <= u /\ u <= now
  BY <1>5
<1>7. u \in seen /\ seen \in SUBSET Nat /\ seen # {} /\ \A w \in seen : w <= now
  <2>1. u \in seen
    BY <1>6
  <2>2. ASSUME NEW w \in seen PROVE w \in Nat /\ w <= now
    <3>1. w \in Nat /\ (w <= now \/ w < t)
      BY <1>3
    <3> QED BY <1>3, <3>1
  <2> QED BY <2>1, <2>2
<1>8. Max(seen) \in seen /\ \A w \in seen : Max(seen) >= w
  BY <1>3, <1>7, MaxIsGreatest
<1>9. Max(seen) >= t
  BY <1>3, <1>6, <1>7, <1>8
<1>10. try_read(b, t) = <<b[Max(seen)]>>
  BY <1>3, <1>7, <1>9 DEF try_read, D
<1>11. try_read(b, t) # <<>>
  BY <1>10
<1> QED BY <1>11 DEF b, k, t

\* A key committed for a time that has come can be read with that time as the
\* limit, in every state of every job.  Two entries per key are needed, one
\* may be for the period that comes; the code keeps twenty.
THEOREM CommittedReadable == ASSUME QuorumFits, keep_n_values >= 2 PROVE Spec => []Readable
<1>1. StoreInv /\ Sound => Readable
  BY StoreReadable
<1> QED BY <1>1, SoundInvariant, StoreInvariant, PTL

-----------------------------------------------------------------------------
(* Unanimous proposals are committed.                                      *)

\* Three obeying replicas reach the quorum of median_of_doubles by themselves.
QuorumReached == "median" \in Fusions => Cardinality(Replica) >= 3

\* What all obeying replicas said last for a key and a time is among the
\* insertions, and no insertion for them comes after it.
LEMMA UnanimousInserted ==
  ASSUME QuorumReached, StoreInv, NEW r \in Replica, stage[r] = "done",
         fuse_function = "default" => \A s \in Replica : root[s] = root[r],
         NEW k \in Key, NEW t \in Time, NEW v \in Value,
         \A s \in Replica : \E i \in LastSaid(root[s], k, t) : root[s][i].value = v
  PROVE  \E e \in Insertions : /\ e.key = k /\ e.time = t /\ e.value = 2 * v
                               /\ \A f \in Insertions : Same(e, f) => f.at <= e.at
<1>1. vector \in [Node -> Seq(Tuple)] /\ fuse_function \in Fusions /\ root \in [Replica -> Seq(Tuple)]
  BY DEF StoreInv, Types
<1>2. \A s \in Replica : vector[s] = root[s] /\ Len(root[s]) <= NT
  BY DEF StoreInv, Types, Control, Fusing
<1>3. CASE fuse_function = "default"
  <2>1. reduced = root[r]
    BY <1>1, <1>2, <1>3, ReducedFacts
  <2>2. PICK i \in LastSaid(root[r], k, t) : root[r][i].value = v
    OBVIOUS
  <2> DEFINE e == [at |-> i, key |-> root[r][i].key, time |-> root[r][i].time, value |-> 2 * root[r][i].value]
  <2>3. i \in DOMAIN root[r] /\ root[r][i].key = k /\ root[r][i].time = t
    BY <2>2 DEF LastSaid
  <2>4. e \in Insertions
    BY <1>2, <1>3, <2>1, <2>3 DEF Insertions
  <2>5. ASSUME NEW f \in Insertions, Same(e, f) PROVE f.at <= e.at
    <3>1. PICK j \in DOMAIN root[r] :
            f = [at |-> j, key |-> root[r][j].key, time |-> root[r][j].time, value |-> 2 * root[r][j].value]
      BY <1>3, <2>1, InsertionForms
    <3>2. root[r][j].key = k /\ root[r][j].time = t
      BY <2>3, <2>5, <3>1 DEF Same
    <3> QED BY <2>2, <3>1, <3>2 DEF LastSaid
  <2> QED BY <2>2, <2>3, <2>4, <2>5
<1>4. CASE fuse_function # "default"
  <2> DEFINE votes == Votes(k, t)
             S == DOMAIN votes
             e == [at |-> 0, key |-> k, time |-> t, value |-> 2 * v]
  <2>1. S \in SUBSET Node /\ votes \in [S -> Value]
    BY <1>1, VoteFacts
  <2>2. ASSUME NEW s \in Replica PROVE s \in S /\ votes[s] = v
    <3>1. PICK i \in LastSaid(root[s], k, t) : root[s][i].value = v
      OBVIOUS
    <3>2. s \in S
      BY <1>1, <1>2, <3>1, VoteFacts DEF Node
    <3>3. PICK j \in LastSaid(root[s], k, t) : votes[s] = root[s][j].value
      BY <1>1, <1>2, <3>2, VoteFacts
    <3>4. i = j
      BY <1>1, LastSaidUnique
    <3> QED BY <3>1, <3>2, <3>3, <3>4
  <2>3. Cardinality(S) \in Nat /\ Cardinality(S) >= Cardinality(Replica)
    BY <2>1, <2>2, ObeyingAmong
  <2>4. v \in Nat
    BY StoreAssumption
  <2>5. 2 * v \in fused(k, t)
    <3>1. CASE fuse_function = "median"
      <4>1. Cardinality(S) >= 3 /\ Cardinality(S) > 2 * Cardinality(Faulty)
        BY <1>1, <2>3, <3>1, NodeFacts DEF QuorumReached
      <4>2. PICK a, b \in S : /\ a \in Replica /\ b \in Replica
                              /\ 2 * votes[a] <= Median(votes) /\ Median(votes) <= 2 * votes[b]
        BY <1>1, <4>1, MedianBetween
      <4>3. 2 * v <= Median(votes) /\ Median(votes) <= 2 * v
        BY <2>2, <4>2
      <4>4. fused(k, t) = {Median(votes)}
        BY <2>3, <3>1, <4>1 DEF fused, median_of_doubles
      <4>5. Median(votes) \in Nat
        <5>1. Median(votes) \in StoredValue
          BY <1>1, <4>4, FusedFacts
        <5> QED BY <5>1, StoreAssumption DEF StoredValue
      <4> QED BY <2>4, <4>3, <4>4, <4>5
    <3>2. CASE fuse_function # "median"
      <4> DEFINE For == {n \in S : votes[n] = v}
      <4>1. For \in SUBSET Node /\ Replica \subseteq For
        BY <2>1, <2>2
      <4>2. Cardinality(For) \in Nat /\ Cardinality(For) >= Cardinality(Replica)
        BY <4>1, ObeyingAmong
      <4>3. 2 * Cardinality(For) > Cardinality(Node)
        BY <4>2, NodeFacts
      <4> QED BY <3>2, <4>3 DEF fused, strong_simple_majority_of_strings
    <3> QED BY <3>1, <3>2
  <2>6. e \in Insertions
    <3> DEFINE Of(kt) == {[at |-> 0, key |-> kt[1], time |-> kt[2], value |-> w] : w \in fused(kt[1], kt[2])}
    <3>1. e \in Of(<<k, t>>) /\ <<k, t>> \in Key \X Time
      BY <2>5
    <3>2. Insertions = UNION {Of(kt) : kt \in Key \X Time}
      BY <1>4 DEF Insertions
    <3> HIDE DEF Of, e
    <3> QED BY <3>1, <3>2
  <2>7. \A f \in Insertions : f.at <= 0
    BY <1>4, InsertionForms
  <2> QED BY <2>6, <2>7
<1> QED BY <1>3, <1>4

LEMMA StoreUnanimous ==
  ASSUME QuorumReached, StoreInv
  PROVE  UnanimousCommits
<1> SUFFICES ASSUME NEW r \in Replica, stage[r] = "done",
                    fuse_function = "default" => \A s \in Replica : root[s] = root[r],
                    NEW k \in Key, NEW t \in Time, NEW v \in Value,
                    \A s \in Replica : \E i \in LastSaid(root[s], k, t) : root[s][i].value = v
             PROVE  \/ t \in DOMAIN store[r][k] /\ store[r][k][t] = 2 * v
                    \/ Cardinality({u \in DOMAIN store[r][k] : u > t}) = keep_n_values
  BY DEF UnanimousCommits
<1>1. PICK e \in Insertions : /\ e.key = k /\ e.time = t /\ e.value = 2 * v
                              /\ \A f \in Insertions : Same(e, f) => f.at <= e.at
  BY UnanimousInserted
<1>2. inserted[r] = Insertions
  BY DEF StoreInv, Control
<1>3. <<k, t>> \in DOMAIN committed[r] /\ committed[r][<<k, t>>] = 2 * v
  BY <1>1, <1>2 DEF StoreInv, LastWins
<1> DEFINE D == DOMAIN store[r][k]
<1>4. /\ t \in Times(r, k) /\ D \subseteq Times(r, k)
      /\ D # Times(r, k) => Cardinality(D) = keep_n_values
      /\ \A u \in Times(r, k) \ D, w \in D : u < w
      /\ \A u \in D : store[r][k][u] = committed[r][<<k, u>>]
  BY <1>3 DEF StoreInv, Kept, KeptOf, Times
<1>5. CASE t \in D
  BY <1>3, <1>4, <1>5
<1>6. CASE t \notin D
  <2>1. Cardinality(D) = keep_n_values
    BY <1>4, <1>6
  <2>2. \A u \in D : u \in Nat /\ t \in Nat /\ t < u
    BY <1>4, <1>6, TimeFacts DEF Times
  <2>3. {u \in D : u > t} = D
    BY <2>2
  <2> QED BY <2>1, <2>3
<1> QED BY <1>5, <1>6

\* What all obeying replicas propose for a key and a time is in the store of
\* every replica that has ended the job, or older than everything kept there.
THEOREM UnanimityCommits == ASSUME QuorumReached PROVE Spec => []UnanimousCommits
<1>1. StoreInv => UnanimousCommits
  BY StoreUnanimous
<1> QED BY <1>1, StoreInvariant, PTL

=============================================================================
