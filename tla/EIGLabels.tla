----------------------------- MODULE EIGLabels ------------------------------
(***************************************************************************)
(* The tree of EIGTree (eig_tree.h) by labels.  A node of level l is named *)
(* by the sequence of the l distinct processes that relayed it, the        *)
(* proposer first and the newest relayer last.  Module EIGTree keeps the   *)
(* node numbers of the code and is checked against these operators.        *)
(***************************************************************************)
EXTENDS Integers, Sequences, FiniteSets

CONSTANTS
  Proc,        \* the processes of config.peers
  max_rounds,  \* config.max_rounds, the height of the tree
  Value,       \* contents of an eig_node
  Zero,        \* the node that memset leaves: no tuples
  checksum     \* CRC-32 of an eig_node

degree == Cardinality(Proc)

\* What the code asserts (height <= degree) and what its comments presume of
\* CRC-32: different nodes have different checksums.
ASSUME TreeShape ==
  /\ IsFiniteSet(Proc)
  /\ max_rounds \in Nat \ {0}
  /\ max_rounds <= degree

ASSUME NodeContents ==
  /\ Zero \in Value
  /\ checksum \in [Value -> Nat]
  /\ \A v, w \in Value : checksum[v] = checksum[w] => v = w

-----------------------------------------------------------------------------
(* Labels.                                                                 *)

Relayers(x) == {x[i] : i \in DOMAIN x}

\* The valid nodes of level l: no process occurs twice in the label.
Level(l) ==
  {x \in [1..l -> Proc] : \A i, j \in 1..l : x[i] = x[j] => i = j}

Label == UNION {Level(l) : l \in 0..max_rounds}

\* A node has one child for every process that has not relayed it yet.
Kids(x) == Proc \ Relayers(x)

Cleared == [x \in Label |-> Zero]

-----------------------------------------------------------------------------
(* Operations on a tree t, a function from labels to node contents.        *)

\* Variants: the own block of level k+1 is left empty; all blocks are filled.
copy_current_level_omitted(t, k, p) == t

copy_current_level_everywhere(t, k, p) ==
  [x \in Label |-> IF Len(x) = k + 1 THEN t[SubSeq(x, 1, k)] ELSE t[x]]

\* EIGTree::copy_current_level: the block of p in level k+1 becomes a copy of
\* level k, as if p had relayed every node to itself.
copy_current_level(t, k, p) ==
  [x \in Label |->
     IF Len(x) = k + 1 /\ x[k + 1] = p THEN t[SubSeq(x, 1, k)] ELSE t[x]]

\* The children of node x in tree t, by relayer.
Votes(t, x) == [q \in Kids(x) |-> t[Append(x, q)]]

freq(votes, h) == Cardinality({q \in DOMAIN votes : checksum[votes[q]] = h})

Hashes(votes) == {checksum[votes[q]] : q \in DOMAIN votes}

\* The first hash of greatest frequency in the order of iteration of freq,
\* which depends on the children alone.
TopHash(votes) ==
  CHOOSE h \in Hashes(votes) : \A g \in Hashes(votes) : freq(votes, g) <= freq(votes, h)

\* Variant: the same threshold at every level.
ExceedsAtRoot(m, k) == m > degree - max_rounds

\* max_frequency > degree - height - l, in uint32_t: a negative difference is
\* close to 2^32 and no frequency exceeds it.
Exceeds(m, k) ==
  /\ degree - max_rounds - k >= 0
  /\ m > degree - max_rounds - k

\* The loop body of EIGTree::reduce for a valid node of level k.
Majority(votes, k) ==
  LET h == TopHash(votes) IN
  IF Exceeds(freq(votes, h), k)
    THEN votes[CHOOSE q \in DOMAIN votes : checksum[votes[q]] = h]
    ELSE Zero

reduce_level(t, k) ==
  [x \in Label |-> IF Len(x) = k THEN Majority(Votes(t, x), k) ELSE t[x]]

=============================================================================
