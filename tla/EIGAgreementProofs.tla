------------------------- MODULE EIGAgreementProofs -------------------------
(***************************************************************************)
(* Proofs about module EIGAgreement, for every number of processes and of  *)
(* rounds that satisfies FaultBound.                                       *)
(***************************************************************************)
EXTENDS EIGAgreement, FiniteSetTheorems, SequenceTheorems,
        WellFoundedInduction, TLAPS

-----------------------------------------------------------------------------
(* Labels.                                                                 *)

\* A label of level k is a sequence of k processes.
LEMMA LevelSeq ==
  ASSUME NEW k \in Nat, NEW x \in Level(k)
  PROVE  /\ x \in Seq(Proc)
         /\ Len(x) = k
         /\ DOMAIN x = 1..k
         /\ Relayers(x) \subseteq Proc
BY DEF Level, Relayers

\* Levels do not overlap.
LEMMA LevelDisjoint ==
  ASSUME NEW j \in Nat, NEW k \in Nat, NEW x \in Level(j), x \in Level(k)
  PROVE  j = k
BY LevelSeq

\* The levels of the tree are made of labels, and the other way round.
LEMMA LabelLevel ==
  /\ \A k \in 0..max_rounds : \A x \in Level(k) : x \in Label
  /\ \A x \in Label : \E k \in 0..max_rounds : x \in Level(k)
BY DEF Label

\* The level of a label is its length.
LEMMA LabelLen ==
  \A x \in Label : \A k \in Nat : x \in Level(k) <=> Len(x) = k
<1> TAKE x \in Label
<1> TAKE k \in Nat
<1>1. PICK j \in 0..max_rounds : x \in Level(j)
  BY LabelLevel
<1>2. j \in Nat /\ Len(x) = j
  BY <1>1, LevelSeq
<1> QED BY <1>1, <1>2, LevelSeq

\* A label grows by the process that relays it.
LEMMA AppendLevel ==
  ASSUME NEW k \in Nat, NEW y \in Level(k), NEW q \in Kids(y)
  PROVE  /\ Append(y, q) \in Level(k + 1)
         /\ Append(y, q)[k + 1] = q
         /\ SubSeq(Append(y, q), 1, k) = y
         /\ Relayers(Append(y, q)) = Relayers(y) \cup {q}
         /\ q \in Proc
<1> DEFINE z == Append(y, q)
<1>1. /\ y \in Seq(Proc) /\ Len(y) = k /\ DOMAIN y = 1..k
      /\ q \in Proc /\ q \notin Relayers(y)
  BY LevelSeq DEF Kids
<1>2. z \in Seq(Proc) /\ Len(z) = k + 1 /\ z[k + 1] = q /\ \A i \in 1..k : z[i] = y[i]
  BY <1>1
<1>3. z \in [1..(k + 1) -> Proc]
  BY <1>2, LenProperties
<1>4. ASSUME NEW i \in 1..(k + 1), NEW j \in 1..(k + 1), z[i] = z[j]
      PROVE  i = j
  BY <1>1, <1>2, <1>4 DEF Level, Relayers
<1>5. SubSeq(z, 1, k) = y
  BY <1>1, <1>2
<1>6. Relayers(z) = Relayers(y) \cup {q}
  <2>1. DOMAIN z = 1..(k + 1)
    BY <1>3
  <2> QED BY <1>1, <1>2, <2>1 DEF Relayers
<1> HIDE DEF z
<1>7. z \in Level(k + 1)
  BY <1>3, <1>4 DEF Level
<1> QED BY <1>1, <1>2, <1>5, <1>6, <1>7 DEF z

\* Every label but the root's was made that way.
LEMMA FrontLevel ==
  ASSUME NEW k \in Nat, NEW x \in Level(k + 1)
  PROVE  \E y \in Level(k) : \E q \in Kids(y) : x = Append(y, q)
<1> DEFINE y == SubSeq(x, 1, k)
           q == x[k + 1]
<1>1. x \in Seq(Proc) /\ Len(x) = k + 1
  BY LevelSeq
<1>2. y \in Seq(Proc) /\ Len(y) = k /\ \A i \in 1..k : y[i] = x[i]
  BY <1>1
<1>3. y \in Level(k)
  <2>1. y \in [1..k -> Proc]
    BY <1>2, LenProperties
  <2> HIDE DEF y
  <2>2. \A i, j \in 1..k : y[i] = y[j] => i = j
    BY <1>2 DEF Level
  <2> QED BY <2>1, <2>2 DEF Level
<1>4. q \in Kids(y)
  BY <1>1, <1>2 DEF Level, Kids, Relayers
<1>5. x = Append(y, q)
  BY <1>1, <1>2
<1> QED BY <1>3, <1>4, <1>5

\* A label of level k names k processes.
LEMMA LevelCardinality ==
  ASSUME NEW k \in Nat, NEW x \in Level(k)
  PROVE  IsFiniteSet(Relayers(x)) /\ Cardinality(Relayers(x)) = k
<1>1. x \in Bijection(1..k, Relayers(x))
  BY DEF Level, Relayers, Bijection, Injection, Surjection, IsInjective
<1>2. ExistsBijection(1..k, Relayers(x))
  BY <1>1 DEF ExistsBijection
<1>3. IsFiniteSet(1..k) /\ Cardinality(1..k) = k
  BY FS_Interval
<1> QED BY <1>2, <1>3, FS_Bijection

-----------------------------------------------------------------------------
(* The majority of a node's children.                                      *)

\* degree is the number of processes.
LEMMA DegreeNat == degree \in Nat /\ max_rounds \in Nat /\ max_rounds > 0 /\ MaxFaulty \in Nat
BY TreeShape, FaultBound, FS_CardinalityType DEF degree

\* A nonempty set of naturals has a smallest element.
LEMMA NatMin ==
  ASSUME NEW T \in SUBSET Nat, T # {}
  PROVE  \E m \in T : \A n \in T : m <= n
<1>1. PICK m \in T : \A n \in T : ~ (<<n, m>> \in OpToRel(<, Nat))
  BY NatLessThanWellFounded, WFMin, Zenon
<1>2. \A n \in T : ~ (n < m)
  BY <1>1 DEF OpToRel
<1> QED BY <1>2

\* Among finitely many children some checksum is most frequent, and the value
\* reduce() picks is one of theirs or the empty one.
LEMMA MajorityType ==
  ASSUME NEW S, IsFiniteSet(S), NEW votes \in [S -> Value], NEW k \in Nat
  PROVE  Majority(votes, k) \in Value
<1>1. CASE S = {}
  <2>1. ASSUME NEW h PROVE freq(votes, h) = 0
    <3>1. {q \in DOMAIN votes : checksum[votes[q]] = h} = {}
      BY <1>1
    <3> QED BY <3>1, FS_EmptySet DEF freq
  <2>2. ~ Exceeds(freq(votes, TopHash(votes)), k)
    BY <2>1, DegreeNat DEF Exceeds
  <2> QED BY <2>2, NodeContents DEF Majority
<1>2. CASE S # {}
  <2>1. Cardinality(S) \in Nat
    BY FS_CardinalityType
  <2>2. ASSUME NEW h PROVE freq(votes, h) \in Nat /\ freq(votes, h) <= Cardinality(S)
    <3> DEFINE A == {q \in DOMAIN votes : checksum[votes[q]] = h}
    <3>1. A \subseteq S
      OBVIOUS
    <3>2. IsFiniteSet(A) /\ Cardinality(A) <= Cardinality(S) /\ Cardinality(A) \in Nat
      BY <3>1, FS_Subset, FS_CardinalityType
    <3> QED BY <3>2 DEF freq
  <2> DEFINE T == {Cardinality(S) - freq(votes, h) : h \in Hashes(votes)}
  <2>3. T \in SUBSET Nat /\ T # {}
    BY <1>2, <2>1, <2>2 DEF Hashes
  <2>4. PICK h \in Hashes(votes) : \A g \in Hashes(votes) :
               Cardinality(S) - freq(votes, h) <= Cardinality(S) - freq(votes, g)
    <3> HIDE DEF T
    <3>1. PICK m \in T : \A n \in T : m <= n
      BY <2>3, NatMin
    <3> QED BY <3>1 DEF T
  <2>5. \A g \in Hashes(votes) : freq(votes, g) <= freq(votes, h)
    BY <2>1, <2>2, <2>4
  <2>6. TopHash(votes) \in Hashes(votes)
    BY <2>5 DEF TopHash
  <2>7. \E q \in DOMAIN votes : checksum[votes[q]] = TopHash(votes)
    BY <2>6 DEF Hashes
  <2> QED BY <2>7, NodeContents DEF Majority
<1> QED BY <1>1, <1>2

\* The greatest frequency is attained.
LEMMA TopHashIsTop ==
  ASSUME NEW votes, NEW h0 \in Hashes(votes),
         \A g \in Hashes(votes) : g # h0 => freq(votes, g) < freq(votes, h0),
         \A g \in Hashes(votes) : freq(votes, g) \in Nat
  PROVE  TopHash(votes) = h0
<1>1. \A g \in Hashes(votes) : freq(votes, g) <= freq(votes, h0)
  OBVIOUS
<1>2. TopHash(votes) \in Hashes(votes) /\ \A g \in Hashes(votes) : freq(votes, g) <= freq(votes, TopHash(votes))
  BY <1>1 DEF TopHash
<1> QED BY <1>2

\* When all children relayed by obeying processes carry v, the node becomes v:
\* the others are at most MaxFaulty, too few to win and too few to keep v from
\* exceeding the threshold of EIGTree::reduce.
LEMMA MajorityOfCorrect ==
  ASSUME NEW F \in SUBSET Proc, Cardinality(F) <= MaxFaulty,
         NEW k \in 0..(max_rounds - 1), NEW x \in Level(k),
         NEW t \in [Label -> Value], NEW v \in Value,
         \A q \in Kids(x) \ F : t[Append(x, q)] = v
  PROVE  Majority(Votes(t, x), k) = v
<1> DEFINE votes == Votes(t, x)
           For == {q \in DOMAIN votes : checksum[votes[q]] = checksum[v]}
           h0 == checksum[v]
<1>0. k \in Nat /\ k + 1 \in 0..max_rounds /\ IsFiniteSet(Proc) /\ IsFiniteSet(F)
      /\ Cardinality(F) \in Nat
  BY DegreeNat, TreeShape, FS_Subset, FS_CardinalityType
<1>1. DOMAIN votes = Kids(x) /\ \A q \in Kids(x) : votes[q] = t[Append(x, q)] /\ votes[q] \in Value
  BY <1>0, AppendLevel, LabelLevel DEF Votes
<1> HIDE DEF votes
<1>2. IsFiniteSet(Kids(x)) /\ Cardinality(Kids(x)) = degree - k
  <2>1. IsFiniteSet(Relayers(x)) /\ Cardinality(Relayers(x)) = k /\ Relayers(x) \subseteq Proc
    BY <1>0, LevelCardinality, LevelSeq
  <2>2. Proc \cap Relayers(x) = Relayers(x)
    BY <2>1
  <2> QED BY <1>0, <2>1, <2>2, FS_Difference DEF Kids, degree
<1>3. IsFiniteSet(Kids(x) \ F) /\ Cardinality(Kids(x) \ F) >= degree - k - MaxFaulty
  <2>1. IsFiniteSet(Kids(x) \cap F) /\ Cardinality(Kids(x) \cap F) <= Cardinality(F)
    BY <1>0, FS_Intersection
  <2>2. Cardinality(Kids(x) \cap F) \in Nat
    BY <2>1, FS_CardinalityType
  <2>3. /\ IsFiniteSet(Kids(x) \ F)
        /\ Cardinality(Kids(x) \ F) = Cardinality(Kids(x)) - Cardinality(Kids(x) \cap F)
    BY <1>2, FS_Difference
  <2> QED BY <1>0, <1>2, <2>1, <2>2, <2>3, DegreeNat
<1>4. For \subseteq Kids(x) /\ Kids(x) \ F \subseteq For
  BY <1>1
<1>5. IsFiniteSet(For) /\ Cardinality(For) \in Nat /\ Cardinality(For) >= degree - k - MaxFaulty
  <2>1. IsFiniteSet(For)
    BY <1>2, <1>4, FS_Subset
  <2>2. Cardinality(Kids(x) \ F) <= Cardinality(For)
    BY <1>4, <2>1, FS_Subset
  <2>3. Cardinality(For) \in Nat /\ Cardinality(Kids(x) \ F) \in Nat
    BY <1>3, <2>1, FS_CardinalityType
  <2> QED BY <1>0, <1>3, <2>1, <2>2, <2>3, DegreeNat
<1>6. freq(votes, h0) = Cardinality(For)
  BY DEF freq
<1> HIDE DEF For
<1>7. ASSUME NEW g \in Hashes(votes), g # h0
      PROVE  freq(votes, g) \in Nat /\ freq(votes, g) <= MaxFaulty
  <2> DEFINE A == {q \in DOMAIN votes : checksum[votes[q]] = g}
  <2>1. A \subseteq F
    BY <1>1, <1>7
  <2>2. IsFiniteSet(A) /\ Cardinality(A) <= Cardinality(F) /\ Cardinality(A) \in Nat
    BY <1>0, <2>1, FS_Subset, FS_CardinalityType
  <2>3. freq(votes, g) = Cardinality(A)
    BY DEF freq
  <2> HIDE DEF A
  <2> QED BY <1>0, <2>2, <2>3, DegreeNat
<1>8. /\ degree - max_rounds - k >= 0
      /\ freq(votes, h0) \in Nat
      /\ freq(votes, h0) > degree - max_rounds - k
      /\ freq(votes, h0) > MaxFaulty
  BY <1>0, <1>5, <1>6, DegreeNat, FaultBound
<1>9. \E q \in DOMAIN votes : checksum[votes[q]] = h0
  <2>1. ASSUME For = {} PROVE FALSE
    <3>1. Cardinality(For) = 0
      BY <2>1, FS_EmptySet
    <3> QED BY <1>6, <1>8, <3>1, DegreeNat
  <2> QED BY <2>1 DEF For
<1>10. h0 \in Hashes(votes)
  BY <1>9 DEF Hashes
<1>11. TopHash(votes) = h0
  <2>1. \A g \in Hashes(votes) : g # h0 => freq(votes, g) < freq(votes, h0)
    BY <1>7, <1>8, DegreeNat
  <2>2. \A g \in Hashes(votes) : freq(votes, g) \in Nat
    BY <1>7, <1>8
  <2> HIDE DEF h0
  <2> QED BY <1>10, <2>1, <2>2, TopHashIsTop
<1>12. Exceeds(freq(votes, h0), k)
  BY <1>8 DEF Exceeds
<1>13. votes[CHOOSE q \in DOMAIN votes : checksum[votes[q]] = h0] = v
  BY <1>1, <1>9, NodeContents
<1> QED BY <1>11, <1>12, <1>13 DEF Majority, votes

-----------------------------------------------------------------------------
(* Type correctness.                                                       *)

\* The trees that the steps of the exchange and of the reduction compute are
\* trees again.
LEMMA TreeTypes ==
  ASSUME TypeOK, NEW p \in Proc, NEW k \in 0..(max_rounds - 1),
         NEW t \in [Label -> Value], NEW s \in [Label -> Value],
         NEW b \in [LiarSlots(k) -> Value]
  PROVE  /\ copy_current_level(t, k, p) \in [Label -> Value]
         /\ send_buffer_optimized(t, s, k, p) \in [Label -> Value]
         /\ receive_level(t, k, p, b) \in [Label -> Value]
         /\ reduce_level(t, k) \in [Label -> Value]
<1>0. k \in Nat /\ k \in 0..max_rounds /\ k + 1 \in 0..max_rounds
  BY DegreeNat
<1>1. ASSUME NEW x \in Level(k + 1)
      PROVE  SubSeq(x, 1, k) \in Label /\ x[k + 1] \in Proc
  <2>1. PICK y \in Level(k) : \E q \in Kids(y) : x = Append(y, q)
    BY <1>0, FrontLevel
  <2>2. PICK q \in Kids(y) : x = Append(y, q)
    BY <2>1
  <2>3. SubSeq(x, 1, k) = y /\ x[k + 1] = q /\ q \in Proc
    BY <1>0, <2>2, AppendLevel
  <2> QED BY <1>0, <2>3, LabelLevel
<1>2. ASSUME NEW x \in Level(k)
      PROVE  Majority(Votes(t, x), k) \in Value
  <2>1. Votes(t, x) \in [Kids(x) -> Value]
    BY <1>0, AppendLevel, LabelLevel DEF Votes
  <2>2. IsFiniteSet(Kids(x))
    BY TreeShape, FS_Difference DEF Kids
  <2> QED BY <1>0, <2>1, <2>2, MajorityType
<1>3. copy_current_level(t, k, p) \in [Label -> Value]
  BY <1>0, <1>1, LabelLen DEF copy_current_level
<1>4. send_buffer_optimized(t, s, k, p) \in [Label -> Value]
  BY DEF send_buffer_optimized
<1>5. receive_level(t, k, p, b) \in [Label -> Value]
  BY <1>0, <1>1, LabelLen DEF receive_level, LiarSlots, TypeOK, correct
<1>6. reduce_level(t, k) \in [Label -> Value]
  BY <1>0, <1>2, LabelLen DEF reduce_level
<1> QED BY <1>3, <1>4, <1>5, <1>6

\* The cleared tree and the root.
LEMMA ClearedType == Cleared \in [Label -> Value] /\ <<>> \in Level(0) /\ <<>> \in Label
<1>1. <<>> \in Level(0)
  BY DEF Level
<1> QED BY <1>1, NodeContents, DegreeNat, LabelLevel DEF Cleared

\* The labels of level 1 are the proposers.
LEMMA Proposer ==
  ASSUME NEW d \in Proc
  PROVE  /\ <<d>> \in Level(1) /\ <<d>> \in Label
         /\ <<d>> = Append(<<>>, d) /\ d \in Kids(<<>>)
         /\ <<d>>[1] = d /\ <<d>> # <<>>
         /\ <<d>> \notin Level(0)
<1>1. d \in Kids(<<>>)
  BY DEF Kids, Relayers
<1>2. <<d>> = Append(<<>>, d)
  OBVIOUS
<1>3. <<d>> \in Level(1)
  <2>1. Append(<<>>, d) \in Level(0 + 1)
    BY <1>1, AppendLevel, ClearedType
  <2> QED BY <1>2, <2>1
<1>4. <<d>> \in Label
  BY <1>3, DegreeNat, LabelLevel
<1>5. <<d>> \notin Level(0)
  BY <1>3, LevelDisjoint
<1> QED BY <1>1, <1>2, <1>3, <1>4, <1>5

\* Type correctness of the exchange and the reduction (BFTKVS::job).  That the
\* loop variable stays in range needs the control part of the invariant.
LEMMA TypeStep ==
  ASSUME TypeOK, Control, [Next]_vars
  PROVE  TypeOK'
<1> USE DegreeNat
<1>1. ASSUME NEW p \in Proc, NEW v \in Value, BeginJob(p, v)
      PROVE  TypeOK'
  BY <1>1, ClearedType DEF TypeOK, BeginJob
<1>2. ASSUME NEW p \in Proc, SendRound(p)
      PROVE  TypeOK'
  <2>1. l[p] \in 0..(max_rounds - 1)
    BY <1>2 DEF SendRound, Control, TypeOK
  <2>2. /\ copy_current_level(levels[p], l[p], p) \in [Label -> Value]
        /\ send_buffer_optimized(levels[p], sent[p], l[p], p) \in [Label -> Value]
    <3>1. \E b : b \in [LiarSlots(l[p]) -> Value]
      <4>1. [x \in LiarSlots(l[p]) |-> Zero] \in [LiarSlots(l[p]) -> Value]
        BY NodeContents
      <4> QED BY <4>1
    <3> QED BY <2>1, <3>1, TreeTypes DEF TypeOK
  <2> QED BY <1>2, <2>1, <2>2 DEF TypeOK, SendRound
<1>3. ASSUME NEW p \in Proc, NEW b \in [LiarSlots(l[p]) -> Value], ReceiveRound(p, b)
      PROVE  TypeOK'
  <2>1. l[p] \in 0..(max_rounds - 1)
    BY <1>3 DEF ReceiveRound, Control, TypeOK
  <2>2. receive_level(levels[p], l[p], p, b) \in [Label -> Value]
    BY <2>1, TreeTypes DEF TypeOK
  <2> QED BY <1>3, <2>1, <2>2 DEF TypeOK, ReceiveRound
<1>4. ASSUME NEW p \in Proc, ReduceLevel(p)
      PROVE  TypeOK'
  <2>1. l[p] - 1 \in 0..(max_rounds - 1)
    BY <1>4 DEF ReduceLevel, TypeOK
  <2>2. reduce_level(levels[p], l[p] - 1) \in [Label -> Value]
    <3>1. [x \in LiarSlots(l[p] - 1) |-> Zero] \in [LiarSlots(l[p] - 1) -> Value]
      BY NodeContents
    <3> QED BY <2>1, <3>1, TreeTypes DEF TypeOK
  <2> QED BY <1>4, <2>1, <2>2 DEF TypeOK, ReduceLevel
<1>5. ASSUME NEW p \in Proc, FinishJob(p)
      PROVE  TypeOK'
  BY <1>5, ClearedType DEF TypeOK, FinishJob
<1>6. ASSUME NEW F \in SUBSET Suspect, NEW D \in SUBSET Suspect, NextJob(F, D)
      PROVE  TypeOK'
  BY <1>6, ClearedType, NodeContents, FaultBound DEF TypeOK, NextJob, PickFaults
<1>7. CASE UNCHANGED vars
  BY <1>7 DEF vars, TypeOK
<1> QED BY <1>1, <1>2, <1>3, <1>4, <1>5, <1>6, <1>7 DEF Next

-----------------------------------------------------------------------------
(* The invariant holds initially and is preserved by each action.          *)

\* Control does not depend on what the trees hold, but for the cleared ones.
LEMMA ControlStep ==
  ASSUME TypeOK, Control, Next
  PROVE  Control'
<1> USE DegreeNat
<1>1. ASSUME NEW p \in Proc, NEW v \in Value, BeginJob(p, v)
      PROVE  Control'
  BY <1>1 DEF TypeOK, BeginJob, Control, correct
<1>2. ASSUME NEW p \in Proc, SendRound(p)
      PROVE  Control'
  BY <1>2 DEF TypeOK, SendRound, Control, correct
<1>3. ASSUME NEW p \in Proc, NEW b, ReceiveRound(p, b)
      PROVE  Control'
  <2>1. /\ l[p] < max_rounds /\ l[p] \in Nat /\ nsent[p] = l[p] + 1
        /\ \A q \in correct : nsent[q] > l[p]
    BY <1>3 DEF TypeOK, ReceiveRound, Control
  <2> QED BY <1>3, <2>1 DEF TypeOK, ReceiveRound, Control, correct
<1>4. ASSUME NEW p \in Proc, ReduceLevel(p)
      PROVE  Control'
  BY <1>4 DEF TypeOK, ReduceLevel, Control, correct
<1>5. ASSUME NEW p \in Proc, FinishJob(p)
      PROVE  Control'
  BY <1>5 DEF TypeOK, FinishJob, Control, correct
<1>6. ASSUME NEW F \in SUBSET Suspect, NEW D \in SUBSET Suspect, NextJob(F, D)
      PROVE  Control'
  <2>1. \A p \in Proc : levels[p] = Cleared
    BY <1>6 DEF TypeOK, NextJob, Control, correct
  <2> QED BY <1>6, <2>1 DEF TypeOK, NextJob, Control, correct
<1> QED BY <1>1, <1>2, <1>3, <1>4, <1>5, <1>6 DEF Next

\* The empty tree satisfies everything.
LEMMA InitInv == Init => TypeOK /\ IInv
<1> SUFFICES ASSUME Init PROVE TypeOK /\ IInv
  OBVIOUS
<1> USE DegreeNat
<1>1. TypeOK
  BY ClearedType, NodeContents, FaultBound DEF Init, TypeOK, PickFaults
<1>2. Control
  BY DEF Init, Control, correct
<1>3. ProposalKept
  BY DEF Init, ProposalKept, correct
<1>4. Relayed
  BY DEF Init, Relayed, correct, Got
<1>5. HonestRelay
  BY DEF Init, HonestRelay, correct
<1>6. ReducedNodes /\ CommonNodes
  BY DEF Init, ReducedNodes, CommonNodes, correct, Resolved
<1>7. SilentSlots
  <2>1. \A d \in dead : Cleared[<<d>>] = Zero
    BY <1>1, Proposer DEF Cleared, TypeOK
  <2> QED BY <2>1 DEF Init, SilentSlots, correct, View
<1> QED BY <1>1, <1>2, <1>3, <1>4, <1>5, <1>6, <1>7 DEF IInv

\* Nobody is more than one round ahead.
LEMMA SentOrder ==
  ASSUME TypeOK, Control, NEW p \in correct, NEW q \in correct, NEW k \in Nat, nsent[p] > k
  PROVE  nsent[q] >= k
<1>1. p \in Proc /\ q \in Proc /\ nsent[p] \in Nat /\ nsent[q] \in Nat /\ l[p] \in Nat
  BY DegreeNat DEF TypeOK, correct
<1>2. pc[p] \in {"send", "recv", "reduce", "done"}
  BY <1>1 DEF TypeOK, Control
<1>3. CASE pc[p] \in {"send", "recv"}
  BY <1>1, <1>3 DEF Control
<1>4. CASE pc[p] \in {"reduce", "done"}
  BY <1>1, <1>4 DEF Control
<1> QED BY <1>2, <1>3, <1>4

\* What a receiver holds of q was sent by q.
LEMMA GotSent ==
  ASSUME TypeOK, Control, NEW p \in correct, NEW q \in correct,
         NEW k \in 1..max_rounds, Got(p, q, k), q # p
  PROVE  nsent[q] >= k
<1>1. p \in Proc /\ q \in Proc /\ nsent[q] \in Nat /\ l[p] \in Nat /\ k \in Nat
  BY DegreeNat DEF TypeOK, correct
<1>2. pc[p] \in {"idle", "send", "recv", "reduce", "done"}
  BY <1>1 DEF TypeOK
<1>3. CASE pc[p] = "idle"
  BY <1>1, <1>3 DEF Control, Got
<1>4. CASE pc[p] \in {"send", "recv"}
  BY <1>1, <1>4 DEF Control, Got
<1>5. CASE pc[p] \in {"reduce", "done"}
  BY <1>1, <1>5, DegreeNat DEF Control, Got
<1> QED BY <1>2, <1>3, <1>4, <1>5

\* The root of a job is filled.
LEMMA BeginJobInv ==
  ASSUME TypeOK, IInv, NEW p \in Proc, NEW v \in Value, BeginJob(p, v)
  PROVE  ProposalKept' /\ Relayed' /\ HonestRelay' /\ ReducedNodes' /\ CommonNodes' /\ SilentSlots'
<1> USE DegreeNat
<1>1. /\ p \in correct /\ pc[p] = "idle" /\ nsent[p] = 0 /\ correct' = correct /\ dead' = dead
      /\ faulty' = faulty /\ sent' = sent /\ nsent' = nsent
      /\ pc'[p] = "send" /\ l'[p] = 0
      /\ levels'[p][<<>>] = v /\ proposed'[p] = v
      /\ \A x \in Label : x # <<>> => levels'[p][x] = levels[p][x]
  BY ClearedType DEF BeginJob, TypeOK, IInv, Control, correct
<1>2. \A r \in Proc : r # p =>
        /\ View(r)' = View(r) /\ levels'[r] = levels[r] /\ proposed'[r] = proposed[r]
        /\ pc'[r] = pc[r] /\ l'[r] = l[r]
  BY DEF BeginJob, TypeOK, View
<1>3. correct \subseteq Proc
  BY DEF correct
<1>4. ProposalKept'
  BY <1>1, <1>2, <1>3 DEF ProposalKept, IInv
<1>5. Relayed'
  <2> SUFFICES ASSUME NEW r \in correct, NEW q \in correct, NEW k \in 0..(max_rounds - 1),
                      NEW y \in Level(k), q \in Kids(y), Got(r, q, k + 1)'
               PROVE  View(r)'[Append(y, q)] = sent'[q][y]
    BY <1>1 DEF Relayed
  <2>1. r # p
    BY <1>1 DEF Got
  <2>2. Got(r, q, k + 1)
    BY <1>2, <1>3, <2>1 DEF Got
  <2> QED BY <1>1, <1>2, <1>3, <2>1, <2>2 DEF Relayed, IInv
<1>6. HonestRelay'
  BY <1>1 DEF HonestRelay, IInv
<1>7. \A k : ~ Resolved(p, k)'
  BY <1>1 DEF Resolved
<1>8. \A r \in correct : r # p => \A k : Resolved(r, k)' = Resolved(r, k)
  BY <1>2, <1>3 DEF Resolved
<1>9. ReducedNodes'
  BY <1>1, <1>2, <1>3, <1>7, <1>8 DEF ReducedNodes, IInv, Votes
<1>10. CommonNodes'
  BY <1>1, <1>2, <1>3, <1>7, <1>8 DEF CommonNodes, IInv
<1>11. SilentSlots'
  <2>1. \A d \in dead : levels'[p][<<d>>] = levels[p][<<d>>]
    BY <1>1, Proposer DEF TypeOK
  <2>2. View(p)' = levels'[p] /\ View(p) = levels[p]
    BY <1>1 DEF View
  <2> SUFFICES ASSUME NEW r \in correct, NEW d \in dead
               PROVE  View(r)'[<<d>>] = Zero /\ sent'[r][<<d>>] = Zero
    BY <1>1 DEF SilentSlots
  <2>3. View(r)'[<<d>>] = View(r)[<<d>>]
    BY <1>2, <1>3, <2>1, <2>2
  <2> QED BY <1>1, <2>3 DEF SilentSlots, IInv
<1> QED BY <1>4, <1>5, <1>6, <1>9, <1>10, <1>11

\* What copy_current_level and send_buffer_optimized change.
LEMMA SendRoundEffect ==
  ASSUME TypeOK, IInv, NEW p \in Proc, SendRound(p)
  PROVE  /\ p \in correct /\ pc[p] = "send" /\ nsent[p] = l[p] /\ l[p] \in 0..(max_rounds - 1)
         /\ correct' = correct /\ dead' = dead /\ faulty' = faulty /\ l' = l
         /\ proposed' = proposed /\ result' = result
         /\ pc'[p] = "recv" /\ nsent'[p] = l[p] + 1
         /\ View(p) = levels[p] /\ View(p)' = levels'[p]
         /\ \A r \in Proc : r # p =>
              /\ View(r)' = View(r) /\ levels'[r] = levels[r] /\ sent'[r] = sent[r]
              /\ pc'[r] = pc[r] /\ nsent'[r] = nsent[r]
         /\ \A x \in Label : x \notin Level(l[p] + 1) \/ x[l[p] + 1] # p
              => levels'[p][x] = levels[p][x]
         /\ \A x \in Label : x \notin Level(l[p]) => sent'[p][x] = sent[p][x]
         /\ \A x \in Level(l[p]) : p \in Kids(x) =>
              sent'[p][x] = levels[p][x] /\ levels'[p][Append(x, p)] = levels[p][x]
<1> USE DegreeNat
<1>1. /\ p \in correct /\ pc[p] = "send" /\ nsent[p] = l[p] /\ l[p] \in 0..(max_rounds - 1)
      /\ correct' = correct /\ dead' = dead /\ faulty' = faulty /\ l' = l
      /\ proposed' = proposed /\ result' = result
      /\ pc'[p] = "recv" /\ nsent'[p] = l[p] + 1
  BY DEF SendRound, TypeOK, IInv, Control, correct
<1>2. /\ View(p) = levels[p] /\ View(p)' = levels'[p]
      /\ \A r \in Proc : r # p =>
              /\ View(r)' = View(r) /\ levels'[r] = levels[r] /\ sent'[r] = sent[r]
              /\ pc'[r] = pc[r] /\ nsent'[r] = nsent[r]
  BY <1>1 DEF SendRound, TypeOK, View
<1>3. /\ levels'[p] = copy_current_level(levels[p], l[p], p)
      /\ sent'[p] = send_buffer_optimized(levels[p], sent[p], l[p], p)
  BY DEF SendRound, TypeOK
<1>4. \A x \in Label : x \notin Level(l[p] + 1) \/ x[l[p] + 1] # p => levels'[p][x] = levels[p][x]
  BY <1>1, <1>3, LabelLen DEF copy_current_level
<1>5. \A x \in Label : x \notin Level(l[p]) => sent'[p][x] = sent[p][x]
  BY <1>1, <1>3, LabelLen DEF send_buffer_optimized
<1>6. ASSUME NEW x \in Level(l[p]), p \in Kids(x)
      PROVE  sent'[p][x] = levels[p][x] /\ levels'[p][Append(x, p)] = levels[p][x]
  <2>1. x \in Label /\ p \notin Relayers(x)
    BY <1>1, <1>6, LabelLevel DEF Kids
  <2>2. /\ Append(x, p) \in Level(l[p] + 1) /\ Append(x, p)[l[p] + 1] = p
        /\ SubSeq(Append(x, p), 1, l[p]) = x
    BY <1>1, <1>6, AppendLevel
  <2>3. Append(x, p) \in Label
    BY <1>1, <2>2, LabelLevel
  <2>4. sent'[p][x] = levels[p][x]
    BY <1>1, <1>3, <1>6, <2>1, LabelLen DEF send_buffer_optimized
  <2>5. levels'[p][Append(x, p)] = levels[p][x]
    <3> DEFINE z == Append(x, p)
    <3>1. z \in Label /\ Len(z) = l[p] + 1 /\ z[l[p] + 1] = p /\ SubSeq(z, 1, l[p]) = x
      BY <1>1, <2>2, <2>3, LevelSeq
    <3> HIDE DEF z
    <3>2. levels'[p][z] = levels[p][x]
      BY <1>3, <3>1 DEF copy_current_level
    <3> QED BY <3>2 DEF z
  <2> QED BY <2>4, <2>5
<1> QED BY <1>1, <1>2, <1>4, <1>5, <1>6

\* A round is sent.
LEMMA SendRoundInv ==
  ASSUME TypeOK, IInv, NEW p \in Proc, SendRound(p)
  PROVE  ProposalKept' /\ Relayed' /\ HonestRelay' /\ ReducedNodes' /\ CommonNodes' /\ SilentSlots'
<1> USE DegreeNat
<1>0. correct \subseteq Proc /\ dead \subseteq faulty /\ faulty \subseteq Proc
      /\ Control /\ ProposalKept /\ Relayed /\ HonestRelay /\ ReducedNodes /\ CommonNodes /\ SilentSlots
  BY DEF correct, TypeOK, IInv
<1>1. /\ p \in correct /\ pc[p] = "send" /\ nsent[p] = l[p] /\ l[p] \in 0..(max_rounds - 1)
      /\ correct' = correct /\ dead' = dead /\ faulty' = faulty /\ l' = l
      /\ proposed' = proposed /\ result' = result
      /\ pc'[p] = "recv" /\ nsent'[p] = l[p] + 1
      /\ View(p) = levels[p] /\ View(p)' = levels'[p]
  BY SendRoundEffect
<1>2. \A r \in Proc : r # p =>
           /\ View(r)' = View(r) /\ levels'[r] = levels[r] /\ sent'[r] = sent[r]
           /\ pc'[r] = pc[r] /\ nsent'[r] = nsent[r]
  BY SendRoundEffect
<1>3. /\ \A x \in Label : x \notin Level(l[p] + 1) \/ x[l[p] + 1] # p => levels'[p][x] = levels[p][x]
      /\ \A x \in Label : x \notin Level(l[p]) => sent'[p][x] = sent[p][x]
      /\ \A x \in Level(l[p]) : p \in Kids(x) =>
           sent'[p][x] = levels[p][x] /\ levels'[p][Append(x, p)] = levels[p][x]
  BY SendRoundEffect
<1>4. ProposalKept'
  <2> SUFFICES nsent'[p] > 0 => sent'[p][<<>>] = proposed[p]
    BY <1>0, <1>1, <1>2 DEF ProposalKept
  <2>1. CASE l[p] = 0
    <3>1. <<>> \in Level(0) /\ p \in Kids(<<>>)
      BY ClearedType, Proposer
    <3>2. levels[p][<<>>] = proposed[p]
      BY <1>0, <1>1, <2>1 DEF ProposalKept
    <3> QED BY <1>3, <2>1, <3>1, <3>2
  <2>2. CASE l[p] # 0
    <3>1. <<>> \in Label /\ <<>> \notin Level(l[p])
      BY <1>1, <2>2, ClearedType, LevelDisjoint
    <3>2. sent[p][<<>>] = proposed[p]
      BY <1>0, <1>1, <2>2 DEF ProposalKept
    <3> QED BY <1>3, <3>1, <3>2
  <2> QED BY <2>1, <2>2
<1>5. Relayed'
  <2> SUFFICES ASSUME NEW r \in correct, NEW q \in correct, NEW k \in 0..(max_rounds - 1),
                      NEW y \in Level(k), q \in Kids(y), Got(r, q, k + 1)'
               PROVE  View(r)'[Append(y, q)] = sent'[q][y]
    BY <1>1 DEF Relayed
  <2>1. /\ y \in Label /\ Append(y, q) \in Level(k + 1) /\ Append(y, q) \in Label
        /\ Append(y, q)[k + 1] = q
    BY AppendLevel, LabelLevel
  <2>2. CASE r # p
    <3>1. Got(r, q, k + 1)
      BY <1>0, <1>1, <1>2, <2>2 DEF Got
    <3>2. View(r)[Append(y, q)] = sent[q][y]
      BY <1>0, <3>1 DEF Relayed
    <3>3. sent'[q][y] = sent[q][y]
      <4>1. CASE q = p
        <5>1. nsent[p] >= k + 1
          BY <1>0, <1>1, <2>2, <3>1, <4>1, GotSent
        <5>2. y \notin Level(l[p])
          BY <1>1, <5>1, LevelDisjoint
        <5> QED BY <1>3, <2>1, <4>1, <5>2
      <4> QED BY <1>0, <1>2, <4>1
    <3> QED BY <1>0, <1>2, <2>2, <3>2, <3>3
  <2>3. CASE r = p /\ k + 1 <= l[p]
    <3>1. View(p)[Append(y, q)] = sent[q][y]
      BY <1>0, <1>1, <2>3 DEF Relayed, Got
    <3>2. levels'[p][Append(y, q)] = levels[p][Append(y, q)]
      <4>1. Append(y, q) \notin Level(l[p] + 1)
        BY <1>1, <2>1, <2>3, LevelDisjoint
      <4> QED BY <1>3, <2>1, <4>1
    <3>3. sent'[q][y] = sent[q][y]
      <4>1. y \notin Level(l[p])
        BY <1>1, <2>3, LevelDisjoint
      <4> QED BY <1>0, <1>2, <1>3, <2>1, <4>1
    <3> QED BY <1>1, <2>3, <3>1, <3>2, <3>3
  <2>4. CASE r = p /\ q = p /\ k = l[p]
    BY <1>1, <1>3, <2>4
  <2> QED BY <1>1, <2>2, <2>3, <2>4 DEF Got
<1>6. HonestRelay'
  <2> SUFFICES ASSUME NEW q \in correct, NEW r \in correct, NEW k \in 0..(max_rounds - 1),
                      NEW y \in Level(k), q \in Kids(y), r \in Kids(Append(y, q)),
                      nsent'[r] > k + 1
               PROVE  sent'[r][Append(y, q)] = sent'[q][y]
    BY <1>1 DEF HonestRelay
  <2>1. /\ y \in Label /\ Append(y, q) \in Level(k + 1) /\ Append(y, q) \in Label
        /\ q # r
    <3>1. Relayers(Append(y, q)) = Relayers(y) \cup {q}
      BY AppendLevel
    <3> QED BY <3>1, AppendLevel, LabelLevel DEF Kids
  <2>2. CASE r = p /\ l[p] = k + 1
    <3>1. sent'[p][Append(y, q)] = levels[p][Append(y, q)]
      BY <1>3, <2>1, <2>2
    <3>2. View(p)[Append(y, q)] = sent[q][y]
      BY <1>0, <1>1, <2>2 DEF Relayed, Got
    <3>3. sent'[q] = sent[q]
      BY <1>0, <1>2, <2>1, <2>2
    <3> QED BY <1>1, <2>2, <3>1, <3>2, <3>3
  <2>3. CASE r = p /\ l[p] # k + 1
    <3>1. nsent[p] > k + 1
      BY <1>1, <2>3
    <3>2. sent[p][Append(y, q)] = sent[q][y]
      BY <1>0, <2>3, <3>1 DEF HonestRelay
    <3>3. sent'[p][Append(y, q)] = sent[p][Append(y, q)]
      <4>1. Append(y, q) \notin Level(l[p])
        BY <1>1, <2>1, <2>3, LevelDisjoint
      <4> QED BY <1>3, <2>1, <4>1
    <3>4. sent'[q] = sent[q]
      BY <1>0, <1>2, <2>1, <2>3
    <3> QED BY <2>3, <3>2, <3>3, <3>4
  <2>4. CASE r # p
    <3>1. nsent[r] > k + 1 /\ sent'[r] = sent[r]
      BY <1>0, <1>2, <2>4
    <3>2. sent[r][Append(y, q)] = sent[q][y]
      BY <1>0, <3>1 DEF HonestRelay
    <3>3. sent'[q][y] = sent[q][y]
      <4>1. CASE q = p
        <5>1. nsent[p] >= k + 1
          BY <1>0, <1>1, <3>1, SentOrder
        <5>2. y \notin Level(l[p])
          BY <1>1, <5>1, LevelDisjoint
        <5> QED BY <1>3, <2>1, <4>1, <5>2
      <4> QED BY <1>0, <1>2, <4>1
    <3> QED BY <3>1, <3>2, <3>3
  <2> QED BY <2>2, <2>3, <2>4
<1>7. \A k : ~ Resolved(p, k)'
  BY <1>1 DEF Resolved
<1>8. \A r \in correct : r # p => \A k : Resolved(r, k)' = Resolved(r, k)
  BY <1>0, <1>1, <1>2 DEF Resolved
<1>9. ReducedNodes'
  BY <1>0, <1>1, <1>2, <1>7, <1>8 DEF ReducedNodes, Votes
<1>10. CommonNodes'
  BY <1>0, <1>1, <1>2, <1>7, <1>8 DEF CommonNodes
<1>11. SilentSlots'
  <2> SUFFICES ASSUME NEW r \in correct, NEW d \in dead
               PROVE  View(r)'[<<d>>] = Zero /\ sent'[r][<<d>>] = Zero
    BY <1>1 DEF SilentSlots
  <2>1. View(r)[<<d>>] = Zero /\ sent[r][<<d>>] = Zero
    BY <1>0 DEF SilentSlots
  <2>2. d # p /\ d \in Proc /\ <<d>> \in Label /\ <<d>> \in Level(1) /\ <<d>>[1] = d
    BY <1>0, <1>1, Proposer DEF correct
  <2>3. CASE r # p
    BY <1>0, <1>2, <2>1, <2>3
  <2>4. CASE r = p
    <3>1. <<d>> \notin Level(l[p] + 1) \/ <<d>>[l[p] + 1] # p
      BY <1>1, <2>2, LevelDisjoint
    <3>2. levels'[p][<<d>>] = levels[p][<<d>>]
      BY <1>3, <2>2, <3>1
    <3>3. p \in Kids(<<d>>)
      BY <1>0, <1>1, <2>2 DEF Kids, Relayers
    <3>4. sent'[p][<<d>>] = Zero
      BY <1>1, <1>3, <2>1, <2>2, <2>4, <3>3
    <3> QED BY <1>1, <2>1, <2>4, <3>2, <3>4
  <2> QED BY <2>3, <2>4
<1> QED BY <1>4, <1>5, <1>6, <1>9, <1>10, <1>11

\* A round is received.
LEMMA ReceiveRoundInv ==
  ASSUME TypeOK, IInv, NEW p \in Proc, NEW b \in [LiarSlots(l[p]) -> Value], ReceiveRound(p, b)
  PROVE  ProposalKept' /\ Relayed' /\ HonestRelay' /\ ReducedNodes' /\ CommonNodes' /\ SilentSlots'
<1> USE DegreeNat
<1>0. correct \subseteq Proc /\ dead \subseteq faulty /\ faulty \subseteq Proc
      /\ Control /\ ProposalKept /\ Relayed /\ HonestRelay /\ ReducedNodes /\ CommonNodes /\ SilentSlots
  BY DEF correct, TypeOK, IInv
<1>1. /\ p \in correct /\ pc[p] = "recv" /\ l[p] \in 0..(max_rounds - 1)
      /\ correct' = correct /\ dead' = dead /\ faulty' = faulty
      /\ proposed' = proposed /\ result' = result /\ sent' = sent /\ nsent' = nsent
      /\ l'[p] = l[p] + 1
      /\ pc'[p] = (IF l[p] + 1 < max_rounds THEN "send" ELSE "reduce")
      /\ nsent[p] > 0
  BY DEF ReceiveRound, TypeOK, IInv, Control, correct
<1>2. /\ View(p) = levels[p] /\ View(p)' = levels'[p]
      /\ \A r \in Proc : r # p =>
           /\ View(r)' = View(r) /\ levels'[r] = levels[r] /\ pc'[r] = pc[r] /\ l'[r] = l[r]
  BY <1>1 DEF ReceiveRound, TypeOK, View
<1>3. levels'[p] = receive_level(levels[p], l[p], p, b)
  BY DEF ReceiveRound, TypeOK
<1>4. \A x \in Label : x \notin Level(l[p] + 1) \/ x[l[p] + 1] = p \/ x[l[p] + 1] \in dead
        => levels'[p][x] = levels[p][x]
  BY <1>0, <1>1, <1>3, LabelLen DEF receive_level, LiarSlots, correct
<1>5. ASSUME NEW y \in Level(l[p]), NEW q \in correct, q \in Kids(y), q # p
      PROVE  levels'[p][Append(y, q)] = sent[q][y]
  <2>1. /\ Append(y, q) \in Level(l[p] + 1) /\ Append(y, q)[l[p] + 1] = q
        /\ SubSeq(Append(y, q), 1, l[p]) = y
    BY <1>1, <1>5, AppendLevel
  <2>2. Append(y, q) \in Label
    BY <1>1, <2>1, LabelLevel
  <2> DEFINE z == Append(y, q)
  <2>3. z \in Label /\ Len(z) = l[p] + 1 /\ z[l[p] + 1] = q /\ SubSeq(z, 1, l[p]) = y
    BY <1>1, <2>1, <2>2, LevelSeq
  <2> HIDE DEF z
  <2>4. levels'[p][z] = sent[q][y]
    BY <1>0, <1>3, <1>5, <2>3 DEF receive_level, correct
  <2> QED BY <2>4 DEF z
<1>6. ProposalKept'
  BY <1>0, <1>1, <1>2 DEF ProposalKept
<1>7. Relayed'
  <2> SUFFICES ASSUME NEW r \in correct, NEW q \in correct, NEW k \in 0..(max_rounds - 1),
                      NEW y \in Level(k), q \in Kids(y), Got(r, q, k + 1)'
               PROVE  View(r)'[Append(y, q)] = sent[q][y]
    BY <1>1 DEF Relayed
  <2>1. /\ Append(y, q) \in Level(k + 1) /\ Append(y, q) \in Label
        /\ Append(y, q)[k + 1] = q
    BY AppendLevel, LabelLevel
  <2>2. CASE r # p
    <3>1. Got(r, q, k + 1)
      BY <1>0, <1>1, <1>2, <2>2 DEF Got
    <3> QED BY <1>0, <1>2, <2>2, <3>1 DEF Relayed
  <2>3. CASE r = p /\ k + 1 <= l[p]
    <3>1. View(p)[Append(y, q)] = sent[q][y]
      BY <1>0, <1>1, <2>3 DEF Relayed, Got
    <3>2. Append(y, q) \notin Level(l[p] + 1)
      BY <1>1, <2>1, <2>3, LevelDisjoint
    <3> QED BY <1>2, <1>4, <2>1, <2>3, <3>1, <3>2
  <2>4. CASE r = p /\ k = l[p] /\ q # p
    BY <1>2, <1>5, <2>4
  <2>5. CASE r = p /\ k = l[p] /\ q = p
    <3>1. View(p)[Append(y, q)] = sent[q][y]
      BY <1>0, <1>1, <2>5 DEF Relayed, Got
    <3> QED BY <1>2, <1>4, <2>1, <2>5, <3>1
  <2>6. r = p => k <= l[p]
    BY <1>1 DEF Got
  <2> QED BY <1>1, <2>2, <2>3, <2>4, <2>5, <2>6
<1>8. HonestRelay'
  BY <1>0, <1>1 DEF HonestRelay
<1>9. \A k \in 0..max_rounds : Resolved(p, k)' => k = max_rounds
  BY <1>1 DEF Resolved
<1>10. \A r \in correct : r # p => \A k : Resolved(r, k)' = Resolved(r, k)
  BY <1>0, <1>1, <1>2 DEF Resolved
<1>11. ReducedNodes'
  <2> SUFFICES ASSUME NEW r \in correct, NEW k \in 0..(max_rounds - 1), NEW x \in Level(k),
                      Resolved(r, k)'
               PROVE  View(r)'[x] = Majority(Votes(View(r), x), k)'
    BY <1>1 DEF ReducedNodes
  <2>1. r # p
    BY <1>9
  <2> QED BY <1>0, <1>2, <1>10, <2>1 DEF ReducedNodes, Votes
<1>12. CommonNodes'
  <2> SUFFICES ASSUME NEW r \in correct, NEW q \in correct, NEW k \in 0..max_rounds,
                      NEW x \in Level(k), Relayers(x) \subseteq faulty,
                      Resolved(r, k)', Resolved(q, k)'
               PROVE  View(r)'[x] = View(q)'[x]
    BY <1>1 DEF CommonNodes
  <2>1. k # max_rounds
    <3>1. IsFiniteSet(faulty) /\ Cardinality(faulty) <= MaxFaulty /\ Cardinality(faulty) \in Nat
      BY TreeShape, FS_Subset, FS_CardinalityType DEF TypeOK
    <3>2. Cardinality(Relayers(x)) = k /\ Cardinality(Relayers(x)) <= Cardinality(faulty)
      BY <3>1, LevelCardinality, FS_Subset
    <3> QED BY <3>1, <3>2, FaultBound
  <2>2. r # p /\ q # p
    BY <1>9, <2>1
  <2> QED BY <1>0, <1>2, <1>10, <2>2 DEF CommonNodes
<1>13. SilentSlots'
  <2> SUFFICES ASSUME NEW r \in correct, NEW d \in dead
               PROVE  View(r)'[<<d>>] = Zero /\ sent[r][<<d>>] = Zero
    BY <1>1 DEF SilentSlots
  <2>1. View(r)[<<d>>] = Zero /\ sent[r][<<d>>] = Zero
    BY <1>0 DEF SilentSlots
  <2>2. d \in Proc /\ <<d>> \in Label /\ <<d>> \in Level(1) /\ <<d>>[1] = d
    BY <1>0, Proposer
  <2>3. <<d>> \notin Level(l[p] + 1) \/ <<d>>[l[p] + 1] \in dead
    BY <1>1, <2>2, LevelDisjoint
  <2>4. levels'[p][<<d>>] = levels[p][<<d>>]
    BY <1>4, <2>2, <2>3
  <2> QED BY <1>0, <1>2, <2>1, <2>4
<1> QED BY <1>6, <1>7, <1>8, <1>11, <1>12, <1>13

\* One level is reduced.
LEMMA ReduceLevelInv ==
  ASSUME TypeOK, IInv, NEW p \in Proc, ReduceLevel(p)
  PROVE  ProposalKept' /\ Relayed' /\ HonestRelay' /\ ReducedNodes' /\ CommonNodes' /\ SilentSlots'
<1> USE DegreeNat
<1> DEFINE k0 == l[p] - 1
<1>0. correct \subseteq Proc /\ dead \subseteq faulty /\ faulty \subseteq Proc
      /\ Cardinality(faulty) <= MaxFaulty
      /\ Control /\ ProposalKept /\ Relayed /\ HonestRelay /\ ReducedNodes /\ CommonNodes /\ SilentSlots
  BY DEF correct, TypeOK, IInv
<1>1. /\ p \in correct /\ pc[p] = "reduce" /\ k0 \in 0..(max_rounds - 1) /\ l[p] = k0 + 1
      /\ correct' = correct /\ dead' = dead /\ faulty' = faulty /\ pc' = pc
      /\ proposed' = proposed /\ result' = result /\ sent' = sent /\ nsent' = nsent
      /\ l'[p] = k0
      /\ \A r \in correct : nsent[r] = max_rounds
  BY DEF ReduceLevel, TypeOK, IInv, Control, correct
<1>2. /\ View(p) = levels[p] /\ View(p)' = levels'[p] /\ View(p) \in [Label -> Value]
      /\ \A r \in Proc : r # p => View(r)' = View(r) /\ levels'[r] = levels[r] /\ l'[r] = l[r]
  BY <1>1 DEF ReduceLevel, TypeOK, View
<1>3. levels'[p] = reduce_level(levels[p], k0)
  BY DEF ReduceLevel, TypeOK
<1> HIDE DEF k0
<1>4. /\ \A x \in Label : x \notin Level(k0) => View(p)'[x] = View(p)[x]
      /\ \A x \in Level(k0) : View(p)'[x] = Majority(Votes(View(p), x), k0)
  BY <1>1, <1>2, <1>3, LabelLevel, LabelLen DEF reduce_level
<1>5. ASSUME NEW k \in 0..(max_rounds - 1), k >= k0, NEW x \in Level(k)
      PROVE  Votes(View(p), x)' = Votes(View(p), x)
  <2>1. \A q \in Kids(x) : View(p)'[Append(x, q)] = View(p)[Append(x, q)]
    <3> TAKE q \in Kids(x)
    <3>1. Append(x, q) \in Level(k + 1)
      BY AppendLevel
    <3>2. Append(x, q) \in Label /\ Append(x, q) \notin Level(k0)
      BY <1>1, <1>5, <3>1, LabelLevel, LevelDisjoint
    <3> QED BY <1>4, <3>2
  <2> QED BY <2>1 DEF Votes
<1>6. ASSUME NEW x \in Level(k0), NEW v \in Value,
             \A r \in correct : r \in Kids(x) => sent[r][x] = v
      PROVE  View(p)'[x] = v
  <2>1. \A r \in Kids(x) \ faulty : View(p)[Append(x, r)] = v
    <3> TAKE r \in Kids(x) \ faulty
    <3>1. r \in correct
      BY DEF correct, Kids
    <3> QED BY <1>0, <1>1, <1>6, <3>1 DEF Relayed, Got
  <2>2. Majority(Votes(View(p), x), k0) = v
    BY <1>0, <1>1, <1>2, <2>1, MajorityOfCorrect
  <2> QED BY <1>4, <2>2
<1>7. ProposalKept'
  BY <1>0, <1>1, <1>2 DEF ProposalKept
<1>8. Relayed'
  <2> SUFFICES ASSUME NEW r \in correct, NEW q \in correct, NEW k \in 0..(max_rounds - 1),
                      NEW y \in Level(k), q \in Kids(y), Got(r, q, k + 1)'
               PROVE  View(r)'[Append(y, q)] = sent[q][y]
    BY <1>1 DEF Relayed
  <2>1. /\ Append(y, q) \in Level(k + 1) /\ Append(y, q) \in Label /\ y \in Label
        /\ sent[q][y] \in Value
    BY <1>0, AppendLevel, LabelLevel DEF TypeOK
  <2>2. Got(r, q, k + 1)
    BY <1>0, <1>1, <1>2 DEF Got
  <2>3. View(r)[Append(y, q)] = sent[q][y]
    BY <1>0, <2>2 DEF Relayed
  <2>4. CASE r = p /\ k + 1 = k0
    <3>1. \A s \in correct : s \in Kids(Append(y, q)) => sent[s][Append(y, q)] = sent[q][y]
      BY <1>0, <1>1, <2>4 DEF HonestRelay
    <3> QED BY <1>6, <2>1, <2>4, <3>1
  <2>5. CASE r = p /\ k + 1 # k0
    <3>1. Append(y, q) \notin Level(k0)
      BY <1>1, <2>1, <2>5, LevelDisjoint
    <3> QED BY <1>4, <2>1, <2>3, <2>5, <3>1
  <2>6. CASE r # p
    BY <1>0, <1>2, <2>3, <2>6
  <2> QED BY <2>4, <2>5, <2>6
<1>9. HonestRelay'
  BY <1>0, <1>1 DEF HonestRelay
<1>10. \A k \in 0..max_rounds : Resolved(p, k)' => k = k0 \/ (k > k0 /\ Resolved(p, k))
  BY <1>1 DEF Resolved
<1>11. \A r \in correct : r # p => \A k : Resolved(r, k)' = Resolved(r, k)
  BY <1>0, <1>1, <1>2 DEF Resolved
<1>12. ReducedNodes'
  <2> SUFFICES ASSUME NEW r \in correct, NEW k \in 0..(max_rounds - 1), NEW x \in Level(k),
                      Resolved(r, k)'
               PROVE  View(r)'[x] = Majority(Votes(View(r), x)', k)
    BY <1>1 DEF ReducedNodes
  <2>1. CASE r # p
    <3>1. Votes(View(r), x)' = Votes(View(r), x)
      BY <1>0, <1>2, <2>1 DEF Votes
    <3> QED BY <1>0, <1>2, <1>11, <2>1, <3>1 DEF ReducedNodes
  <2>2. CASE r = p /\ k = k0
    BY <1>1, <1>4, <1>5, <2>2
  <2>3. CASE r = p /\ k > k0 /\ Resolved(p, k)
    <3>1. x \in Label /\ x \notin Level(k0)
      BY <1>1, <2>3, LabelLevel, LevelDisjoint
    <3>2. View(p)[x] = Majority(Votes(View(p), x), k)
      BY <1>0, <1>1, <2>3 DEF ReducedNodes
    <3> QED BY <1>1, <1>4, <1>5, <2>3, <3>1, <3>2
  <2> QED BY <1>10, <2>1, <2>2, <2>3
<1>13. ASSUME NEW q \in correct, q # p, NEW x \in Level(k0), Relayers(x) \subseteq faulty,
              Resolved(q, k0)
       PROVE  View(p)'[x] = View(q)[x]
  <2>1. ASSUME NEW r \in Kids(x)
        PROVE  View(p)[Append(x, r)] = View(q)[Append(x, r)]
    <3>1. /\ Append(x, r) \in Level(k0 + 1) /\ k0 + 1 \in 0..max_rounds /\ r \in Proc
          /\ Relayers(Append(x, r)) = Relayers(x) \cup {r}
      BY <1>1, AppendLevel
    <3>2. CASE r \in correct
      <4>1. Got(p, r, k0 + 1) /\ Got(q, r, k0 + 1)
        BY <1>1, <1>13 DEF Got, Resolved
      <4> QED BY <1>0, <1>1, <3>2, <4>1 DEF Relayed
    <3>3. CASE r \in faulty
      <4>1. Resolved(p, k0 + 1) /\ Resolved(q, k0 + 1)
        BY <1>0, <1>1, <1>13 DEF Resolved, TypeOK
      <4> QED BY <1>0, <1>1, <1>13, <3>1, <3>3, <4>1 DEF CommonNodes
    <3> QED BY <3>1, <3>2, <3>3 DEF correct
  <2>2. Votes(View(p), x) = Votes(View(q), x)
    BY <2>1 DEF Votes
  <2>3. View(q)[x] = Majority(Votes(View(q), x), k0)
    BY <1>0, <1>1, <1>13 DEF ReducedNodes
  <2> QED BY <1>4, <2>2, <2>3
<1>14. CommonNodes'
  <2> SUFFICES ASSUME NEW r \in correct, NEW q \in correct, NEW k \in 0..max_rounds,
                      NEW x \in Level(k), Relayers(x) \subseteq faulty,
                      Resolved(r, k)', Resolved(q, k)'
               PROVE  View(r)'[x] = View(q)'[x]
    BY <1>1 DEF CommonNodes
  <2>1. CASE r # p /\ q # p
    BY <1>0, <1>2, <1>11, <2>1 DEF CommonNodes
  <2>2. CASE k = k0
    BY <1>0, <1>2, <1>11, <1>13, <2>2
  <2>3. CASE k # k0
    <3>1. Resolved(r, k) /\ Resolved(q, k)
      BY <1>10, <1>11, <2>3
    <3>2. View(r)[x] = View(q)[x]
      BY <1>0, <3>1 DEF CommonNodes
    <3>3. x \in Label /\ x \notin Level(k0)
      BY <1>1, <2>3, LabelLevel, LevelDisjoint
    <3>4. View(r)'[x] = View(r)[x] /\ View(q)'[x] = View(q)[x]
      BY <1>0, <1>2, <1>4, <3>3
    <3> QED BY <3>2, <3>4
  <2> QED BY <2>1, <2>2, <2>3
<1>15. SilentSlots'
  <2> SUFFICES ASSUME NEW r \in correct, NEW d \in dead
               PROVE  View(r)'[<<d>>] = Zero /\ sent[r][<<d>>] = Zero
    BY <1>1 DEF SilentSlots
  <2>1. View(r)[<<d>>] = Zero /\ sent[r][<<d>>] = Zero
    BY <1>0 DEF SilentSlots
  <2>2. d \in Proc /\ <<d>> \in Label /\ <<d>> \in Level(1)
    BY <1>0, Proposer
  <2>3. View(p)'[<<d>>] = Zero
    <3>1. CASE k0 = 1
      BY <1>0, <1>6, <2>2, <3>1, NodeContents DEF SilentSlots
    <3>2. CASE k0 # 1
      <4>1. <<d>> \notin Level(k0)
        BY <1>1, <2>2, <3>2, LevelDisjoint
      <4> QED BY <1>0, <1>1, <1>4, <2>2, <4>1 DEF SilentSlots
    <3> QED BY <3>1, <3>2
  <2> QED BY <1>0, <1>2, <2>1, <2>3
<1> QED BY <1>7, <1>8, <1>9, <1>12, <1>14, <1>15

\* A job ends: the tree is handed over as it is.
LEMMA FinishJobInv ==
  ASSUME TypeOK, IInv, NEW p \in Proc, FinishJob(p)
  PROVE  ProposalKept' /\ Relayed' /\ HonestRelay' /\ ReducedNodes' /\ CommonNodes' /\ SilentSlots'
<1> USE DegreeNat
<1>0. correct \subseteq Proc
      /\ Control /\ ProposalKept /\ Relayed /\ HonestRelay /\ ReducedNodes /\ CommonNodes /\ SilentSlots
  BY DEF correct, IInv
<1>1. /\ p \in correct /\ pc[p] = "reduce" /\ pc'[p] = "done" /\ l[p] = 0
      /\ correct' = correct /\ dead' = dead /\ faulty' = faulty /\ l' = l
      /\ proposed' = proposed /\ sent' = sent /\ nsent' = nsent
  BY DEF FinishJob, TypeOK, correct
<1>2. \A r \in Proc : r # p => pc'[r] = pc[r] /\ levels'[r] = levels[r]
  BY DEF FinishJob, TypeOK
<1>3. \A r \in Proc : View(r)' = View(r)
  BY <1>1 DEF FinishJob, TypeOK, View
<1>4. \A r \in correct : \A q, k : Got(r, q, k)' = Got(r, q, k)
  BY <1>0, <1>1, <1>2 DEF Got
<1>5. \A r \in correct : \A k \in Nat : Resolved(r, k)' = Resolved(r, k)
  BY <1>0, <1>1, <1>2 DEF Resolved
<1>6. ProposalKept'
  BY <1>0, <1>1, <1>2 DEF ProposalKept
<1>7. Relayed'
  BY <1>0, <1>1, <1>3, <1>4 DEF Relayed
<1>8. HonestRelay'
  BY <1>0, <1>1 DEF HonestRelay
<1>9. ReducedNodes'
  <2> SUFFICES ASSUME NEW r \in correct, NEW k \in 0..(max_rounds - 1), NEW x \in Level(k),
                      Resolved(r, k)'
               PROVE  View(r)'[x] = Majority(Votes(View(r), x)', k)
    BY <1>1 DEF ReducedNodes
  <2>1. Votes(View(r), x)' = Votes(View(r), x)
    BY <1>0, <1>3 DEF Votes
  <2> QED BY <1>0, <1>3, <1>5, <2>1 DEF ReducedNodes
<1>10. CommonNodes'
  BY <1>0, <1>1, <1>3, <1>5 DEF CommonNodes
<1>11. SilentSlots'
  BY <1>0, <1>1, <1>3 DEF SilentSlots
<1> QED BY <1>6, <1>7, <1>8, <1>9, <1>10, <1>11

\* The next job starts from cleared trees and empty sockets.
LEMMA NextJobInv ==
  ASSUME TypeOK, IInv, NEW F \in SUBSET Suspect, NEW D \in SUBSET Suspect, NextJob(F, D)
  PROVE  ProposalKept' /\ Relayed' /\ HonestRelay' /\ ReducedNodes' /\ CommonNodes' /\ SilentSlots'
<1> USE DegreeNat
<1>1. \A p \in Proc : levels'[p] = Cleared
  BY DEF TypeOK, IInv, NextJob, Control, correct
<1>2. /\ \A p \in Proc : pc'[p] = "idle" /\ l'[p] = 0 /\ nsent'[p] = 0 /\ sent'[p] = Cleared
      /\ correct' \subseteq Proc /\ dead' \subseteq Proc
  BY FaultBound DEF NextJob, PickFaults, correct
<1>3. ProposalKept'
  BY <1>2 DEF ProposalKept
<1>4. Relayed'
  <2>1. \A p \in Proc : \A q : \A k \in 0..(max_rounds - 1) : ~ Got(p, q, k + 1)'
    BY <1>2 DEF Got
  <2> QED BY <1>2, <2>1 DEF Relayed
<1>5. HonestRelay'
  BY <1>2 DEF HonestRelay
<1>6. \A p \in Proc : \A k : ~ Resolved(p, k)'
  BY <1>2 DEF Resolved
<1>7. ReducedNodes' /\ CommonNodes'
  BY <1>2, <1>6 DEF ReducedNodes, CommonNodes
<1>8. SilentSlots'
  <2>1. \A d \in dead' : Cleared[<<d>>] = Zero
    BY <1>2, Proposer DEF Cleared
  <2>2. \A p \in Proc : View(p)' = Cleared
    BY <1>1, <1>2 DEF View
  <2> QED BY <1>2, <2>1, <2>2 DEF SilentSlots
<1> QED BY <1>3, <1>4, <1>5, <1>7, <1>8

\* Every step preserves the invariant.
LEMMA InvStep ==
  ASSUME TypeOK, IInv, [Next]_vars
  PROVE  TypeOK' /\ IInv'
<1>1. TypeOK'
  BY TypeStep DEF IInv
<1>2. CASE Next
  <2>1. Control'
    BY <1>2, ControlStep DEF IInv
  <2>2. ProposalKept' /\ Relayed' /\ HonestRelay' /\ ReducedNodes' /\ CommonNodes' /\ SilentSlots'
    BY <1>2, BeginJobInv, SendRoundInv, ReceiveRoundInv, ReduceLevelInv, FinishJobInv,
       NextJobInv DEF Next
  <2> QED BY <1>1, <2>1, <2>2 DEF IInv
<1>3. CASE UNCHANGED vars
  <2>1. /\ faulty' = faulty /\ dead' = dead /\ pc' = pc /\ l' = l /\ levels' = levels
        /\ sent' = sent /\ nsent' = nsent /\ proposed' = proposed /\ result' = result
    BY <1>3 DEF vars
  <2>2. Control'
    BY <2>1 DEF IInv, Control, correct
  <2>3. ProposalKept' /\ HonestRelay'
    BY <2>1 DEF IInv, ProposalKept, HonestRelay, correct
  <2>4. Relayed' /\ SilentSlots'
    BY <2>1 DEF IInv, Relayed, SilentSlots, correct, View, Got
  <2>5. ReducedNodes' /\ CommonNodes'
    BY <2>1 DEF IInv, ReducedNodes, CommonNodes, correct, View, Resolved, Votes
  <2> QED BY <1>1, <2>2, <2>3, <2>4, <2>5 DEF IInv
<1> QED BY <1>1, <1>2, <1>3

\* The inductive invariant of the exchange and reduction holds throughout.
THEOREM Invariance == Spec => [](TypeOK /\ IInv)
<1>1. Init => TypeOK /\ IInv
  BY InitInv
<1>2. TypeOK /\ IInv /\ [Next]_vars => (TypeOK /\ IInv)'
  BY InvStep
<1> QED BY <1>1, <1>2, PTL DEF Spec

\* Type correctness of the protocol variables, for every size of the cluster.
THEOREM TypeCorrect == Spec => []TypeOK
BY Invariance, PTL

\* Validity of the interactive consistency vector: what EIGTree::reduce leaves
\* for an obeying process is that process's proposal, for every cluster that
\* satisfies FaultBound.
THEOREM ValidityHolds == Spec => []Validity
<1>1. TypeOK /\ IInv => Validity
  <2> SUFFICES ASSUME TypeOK, IInv, NEW p \in correct, NEW q \in correct, pc[p] = "done"
               PROVE  result[p][<<q>>] = proposed[q]
    BY DEF Validity
  <2>1. q \in Proc /\ 0 \in 0..(max_rounds - 1)
    BY DegreeNat DEF correct
  <2>2. <<>> \in Level(0) /\ q \in Kids(<<>>) /\ <<q>> = Append(<<>>, q)
    BY <2>1, ClearedType, Proposer, Zenon
  <2>3. View(p)[Append(<<>>, q)] = sent[q][<<>>]
    BY <2>1, <2>2 DEF IInv, Relayed, Got
  <2>4. sent[q][<<>>] = proposed[q]
    BY DegreeNat DEF IInv, Control, ProposalKept
  <2> QED BY <2>2, <2>3, <2>4 DEF View
<1> QED BY <1>1, Invariance, PTL

\* Agreement: obeying replicas fuse the same vector and the same root, whatever
\* the other processes send, for every cluster that satisfies FaultBound.
THEOREM AgreementHolds == Spec => []Agreement
<1>1. TypeOK /\ IInv => Agreement
  <2> SUFFICES ASSUME TypeOK, IInv, NEW p \in correct, NEW q \in correct,
                      pc[p] = "done", pc[q] = "done", NEW x \in Label, Len(x) <= 1
               PROVE  View(p)[x] = View(q)[x]
    BY DEF Agreement, View
  <2>1. Resolved(p, 0) /\ Resolved(q, 0) /\ Resolved(p, 1) /\ Resolved(q, 1)
    BY DEF Resolved
  <2>2. PICK k \in 0..max_rounds : x \in Level(k)
    BY LabelLevel
  <2>3. Len(x) = k /\ k \in {0, 1}
    BY <2>2, LevelSeq, DegreeNat
  <2>4. CASE Relayers(x) \subseteq faulty
    BY <2>1, <2>2, <2>3, <2>4 DEF IInv, CommonNodes
  <2>5. CASE ~ (Relayers(x) \subseteq faulty)
    <3>1. k = 1
      <4>1. ASSUME k = 0 PROVE Relayers(x) = {}
        BY <2>2, <4>1, LevelSeq DEF Relayers
      <4> QED BY <2>3, <2>5, <4>1
    <3>2. x \in Level(0 + 1)
      BY <2>2, <3>1
    <3>3. PICK y \in Level(0) : \E r \in Kids(y) : x = Append(y, r)
      BY <3>2, FrontLevel
    <3>4. PICK r \in Kids(y) : x = Append(y, r)
      BY <3>3
    <3>5. Relayers(y) = {} /\ Relayers(x) = Relayers(y) \cup {r} /\ r \in Proc
      BY <3>4, LevelSeq, AppendLevel DEF Relayers
    <3>6. r \in correct
      BY <2>5, <3>5 DEF correct
    <3>7. 0 \in 0..(max_rounds - 1)
      BY DegreeNat
    <3> QED BY <3>4, <3>6, <3>7 DEF IInv, Relayed, Got
  <2> QED BY <2>4, <2>5
<1> QED BY <1>1, Invariance, PTL

\* A process that skips a job (should_die) is seen by all obeying processes as
\* having proposed nothing, even right after jobs in which it took part.
THEOREM SilentIsEmptyHolds == Spec => []SilentIsEmpty
<1>1. IInv => SilentIsEmpty
  BY DEF IInv, SilentSlots, SilentIsEmpty, View
<1> QED BY <1>1, Invariance, PTL

-----------------------------------------------------------------------------
(* The refinement.                                                         *)

\* The abstract specification counts as this one does.
LEMMA SameCardinality == \A S : IC!Cardinality(S) = Cardinality(S)
BY Zenon DEF IC!Cardinality, Cardinality, IC!IsFiniteSet, IsFiniteSet

\* The outcome of a process is a vector and a root.
LEMMA OutcomeType ==
  ASSUME NEW t \in [Label -> Value]
  PROVE  [vector |-> [q \in Proc |-> t[<<q>>]], root |-> t[<<>>]] \in IC!Outcome
<1>1. <<>> \in Label
  BY ClearedType
<1>2. ASSUME NEW q \in Proc PROVE <<q>> \in Label
  BY Proposer, Zenon
<1>3. [q \in Proc |-> t[<<q>>]] \in [Proc -> Value] /\ t[<<>>] \in Value
  BY <1>1, <1>2
<1> QED BY <1>3 DEF IC!Outcome

\* Initial states of the exchange are initial states of interactive consistency.
LEMMA RefinementInit == Init => IC!Init
<1> SUFFICES ASSUME Init PROVE IC!Init
  OBVIOUS
<1>1. /\ faulty \in SUBSET Proc /\ dead \in SUBSET faulty
      /\ IC!Faults(faulty, dead)
  BY FaultBound, SameCardinality DEF Init, PickFaults, IC!Faults
<1>2. stage = [p \in Proc |-> "idle"]
  BY DEF Init, stage
<1>3. outcome = [p \in Proc |-> IC!Nothing]
  <2>1. ASSUME NEW q \in Proc PROVE <<q>> \in Label
    BY Proposer, Zenon
  <2>2. ASSUME NEW p \in Proc
        PROVE  [vector |-> [q \in Proc |-> result[p][<<q>>]], root |-> result[p][<<>>]] = IC!Nothing
    <3>1. result[p] = Cleared
      BY DEF Init
    <3>2. result[p][<<>>] = Zero /\ \A q \in Proc : result[p][<<q>>] = Zero
      BY <2>1, <3>1, ClearedType DEF Cleared
    <3> QED BY <3>2 DEF IC!Nothing
  <2> QED BY <2>2 DEF outcome
<1> QED BY <1>1, <1>2, <1>3 DEF Init, IC!Init

\* A proposal.
LEMMA RefinementBegin ==
  ASSUME TypeOK, NEW p \in Proc, NEW v \in Value, BeginJob(p, v)
  PROVE  IC!Next
<1>1. stage[p] = "idle" /\ stage' = [stage EXCEPT ![p] = "busy"]
  BY DEF BeginJob, TypeOK, stage
<1>2. outcome' = outcome
  BY DEF BeginJob, outcome
<1>3. IC!Propose(p, v)
  BY <1>1, <1>2 DEF BeginJob, IC!Propose, IC!Obeying, correct
<1> QED BY <1>3 DEF IC!Next

\* The rounds and the levels of the reduction are invisible.
LEMMA RefinementHidden ==
  ASSUME TypeOK, NEW p \in Proc,
         SendRound(p) \/ (\E b \in [LiarSlots(l[p]) -> Value] : ReceiveRound(p, b)) \/ ReduceLevel(p)
  PROVE  UNCHANGED IC!icvars
<1>1. stage' = stage
  BY DEF SendRound, ReceiveRound, ReduceLevel, TypeOK, stage
<1>2. outcome' = outcome
  BY DEF SendRound, ReceiveRound, ReduceLevel, outcome
<1> QED BY <1>1, <1>2 DEF SendRound, ReceiveRound, ReduceLevel, IC!icvars

\* The end of a job is a decision that agrees with all earlier ones.
LEMMA RefinementFinish ==
  ASSUME TypeOK, IInv, TypeOK', Validity', Agreement', SilentIsEmpty',
         NEW p \in Proc, FinishJob(p)
  PROVE  IC!Next
<1>0. /\ p \in correct /\ p \in IC!Obeying /\ IC!Obeying = correct
      /\ faulty' = faulty /\ dead' = dead /\ proposed' = proposed /\ correct' = correct
      /\ pc[p] = "reduce" /\ pc' = [pc EXCEPT ![p] = "done"] /\ pc'[p] = "done"
      /\ result' = [result EXCEPT ![p] = levels[p]]
  BY DEF FinishJob, correct, IC!Obeying, TypeOK
<1>1. stage[p] = "busy" /\ stage' = [stage EXCEPT ![p] = "done"]
  BY <1>0 DEF TypeOK, stage
<1>2. outcome' \in [Proc -> IC!Outcome]
  <2>1. ASSUME NEW q \in Proc
        PROVE  [vector |-> [d \in Proc |-> result'[q][<<d>>]], root |-> result'[q][<<>>]] \in IC!Outcome
    <3>1. result'[q] \in [Label -> Value]
      BY DEF TypeOK
    <3> QED BY <3>1, OutcomeType
  <2> QED BY <2>1 DEF outcome
<1>3. \A q \in Proc \ {p} : outcome'[q] = outcome[q]
  BY <1>0 DEF TypeOK, outcome
<1>4. \A q \in correct : stage[q] # "idle"
  <2> SUFFICES ASSUME NEW q \in correct PROVE pc[q] # "idle"
    BY DEF stage, correct
  <2>1. nsent[q] = max_rounds
    BY <1>0 DEF IInv, Control
  <2> QED BY <2>1, DegreeNat DEF IInv, Control, correct
<1>5. \A q \in correct : outcome'[p].vector[q] = proposed[q]
  <2> SUFFICES ASSUME NEW q \in correct PROVE outcome'[p].vector[q] = proposed[q]
    OBVIOUS
  <2>1. q \in Proc /\ result'[p][<<q>>] = proposed[q]
    BY <1>0 DEF Validity, correct
  <2> QED BY <2>1 DEF outcome
<1>6. \A d \in dead : outcome'[p].vector[d] = Zero
  BY <1>0 DEF SilentIsEmpty, outcome, TypeOK
<1>7. ASSUME NEW q \in correct, stage[q] = "done"
      PROVE  outcome[q] = outcome'[p]
  <2>1. pc[q] = "done" /\ q # p /\ pc'[q] = "done" /\ q \in Proc /\ q \in correct'
    BY <1>0, <1>7 DEF stage, correct, TypeOK
  <2>2. \A x \in Label : Len(x) <= 1 => result'[q][x] = result'[p][x]
    BY <1>0, <2>1 DEF Agreement
  <2>3. result'[q][<<>>] = result'[p][<<>>]
    BY <2>2, ClearedType
  <2>4. \A d \in Proc : result'[q][<<d>>] = result'[p][<<d>>]
    <3> TAKE d \in Proc
    <3>1. <<d>> \in Label
      BY Proposer, Zenon
    <3>2. Len(<<d>>) <= 1
      OBVIOUS
    <3> QED BY <2>2, <3>1, <3>2, Zenon
  <2>5. outcome'[q] = outcome'[p]
    BY <2>1, <2>3, <2>4 DEF outcome
  <2> QED BY <1>3, <2>1, <2>5
<1>8. IC!Decide(p)
  BY <1>0, <1>1, <1>2, <1>3, <1>4, <1>5, <1>6, <1>7 DEF IC!Decide
<1> QED BY <1>8 DEF IC!Next

\* The next release starts a new instance.
LEMMA RefinementNextJob ==
  ASSUME TypeOK, NEW F \in SUBSET Suspect, NEW D \in SUBSET Suspect, NextJob(F, D)
  PROVE  IC!Next
<1>1. \A p \in IC!Obeying : stage[p] = "done"
  BY DEF NextJob, correct, IC!Obeying, stage
<1>2. IC!Faults(faulty', dead')
  BY FaultBound, SameCardinality DEF NextJob, PickFaults, IC!Faults
<1>3. stage' = [p \in Proc |-> "idle"]
  BY DEF NextJob, stage
<1>4. outcome' = [p \in Proc |-> IC!Nothing]
  <2>1. ASSUME NEW q \in Proc PROVE <<q>> \in Label
    BY Proposer, Zenon
  <2>2. ASSUME NEW p \in Proc
        PROVE  [vector |-> [q \in Proc |-> result'[p][<<q>>]], root |-> result'[p][<<>>]] = IC!Nothing
    <3>1. result'[p] = Cleared
      BY DEF NextJob
    <3>2. result'[p][<<>>] = Zero /\ \A q \in Proc : result'[p][<<q>>] = Zero
      BY <2>1, <3>1, ClearedType DEF Cleared
    <3> QED BY <3>2 DEF IC!Nothing
  <2> QED BY <2>2 DEF outcome
<1>5. IC!NewInstance
  BY <1>1, <1>2, <1>3, <1>4 DEF NextJob, IC!NewInstance
<1> QED BY <1>5 DEF IC!Next

\* The rounds and the reduction of BFTKVS::job implement interactive
\* consistency: whatever liars and silent processes do, the steps of a job are
\* a proposal, one common decision and the next job, or invisible.
THEOREM RefinementHolds == Spec => Refinement
<1> DEFINE Q == TypeOK /\ IInv /\ Validity /\ Agreement /\ SilentIsEmpty
<1>1. Init => IC!Init
  BY RefinementInit
<1>2. Q /\ Q' /\ [Next]_vars => [IC!Next]_IC!icvars
  <2> SUFFICES ASSUME Q, Q', [Next]_vars
               PROVE  [IC!Next]_IC!icvars
    OBVIOUS
  <2>1. CASE UNCHANGED vars
    BY <2>1 DEF vars, IC!icvars, stage, outcome
  <2>2. ASSUME NEW p \in Proc, NEW v \in Value, BeginJob(p, v)
        PROVE  IC!Next
    BY <2>2, RefinementBegin
  <2>3. ASSUME NEW p \in Proc,
               SendRound(p) \/ (\E b \in [LiarSlots(l[p]) -> Value] : ReceiveRound(p, b)) \/ ReduceLevel(p)
        PROVE  UNCHANGED IC!icvars
    BY <2>3, RefinementHidden
  <2>4. ASSUME NEW p \in Proc, FinishJob(p)
        PROVE  IC!Next
    BY <2>4, RefinementFinish
  <2>5. ASSUME NEW F \in SUBSET Suspect, NEW D \in SUBSET Suspect, NextJob(F, D)
        PROVE  IC!Next
    BY <2>5, RefinementNextJob
  <2> QED BY <2>1, <2>2, <2>3, <2>4, <2>5 DEF Next
<1>3. Spec => []Q
  BY Invariance, ValidityHolds, AgreementHolds, SilentIsEmptyHolds, PTL
<1> HIDE DEF Q
<1> QED BY <1>1, <1>2, <1>3, PTL DEF Spec, Refinement, IC!Spec

=============================================================================
