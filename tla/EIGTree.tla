------------------------------ MODULE EIGTree -------------------------------
(***************************************************************************)
(* Class EIGTree of eig_tree.h with the node numbers of the code, and the  *)
(* part of BFTKVS::job that uses it: one process fills its tree round by   *)
(* round from the messages of its peers, reduces it and clears it.         *)
(*                                                                         *)
(* Beside the arrays the module keeps the tree by labels that module       *)
(* EIGLabels computes for the same job.  That they stay equal is what      *)
(* allows EIGAgreement and its proofs to speak of labels.                  *)
(***************************************************************************)
EXTENDS Integers, Sequences, FiniteSets

CONSTANTS
  d,         \* number of processes, the degree of the tree
  height,    \* number of rounds
  Value, Zero, checksum,
  WordSize   \* 2^32 in the code: the range of uint32_t

degree == d

\* The constructor asserts height <= degree.  Any WordSize that no frequency
\* reaches after a wrap-around gives the comparisons of the code.
ASSUME Shape ==
  /\ degree \in Nat /\ height \in 1..degree
  /\ WordSize \in Nat /\ WordSize > 3 * degree

Process == 0..(degree - 1)

L == INSTANCE EIGLabels WITH Proc <- Process, max_rounds <- height

-----------------------------------------------------------------------------
(* What the constructor lays out.                                          *)

num_nodes(k) == degree ^ k

Nodes(k) == 0..(num_nodes(k) - 1)

\* The process that relayed node n in round i, out of the node number.
relayer(n, i) == (n \div num_nodes(i)) % degree

labels(k, n) == {relayer(n, i) : i \in 0..(k - 1)}

valid(k, n) == \A i, j \in 0..(k - 1) : relayer(n, i) = relayer(n, j) => i = j

\* Invalid nodes have no children, the others one for each process that is not
\* in their label, in the order of the processes.
children(k, n) ==
  IF valid(k, n)
    THEN SelectSeq([i \in 1..degree |-> (i - 1) * num_nodes(k) + n],
                   LAMBDA c : c \div num_nodes(k) \notin labels(k, n))
    ELSE <<>>

\* The nodes of level k that process pid passes on.
passes(k, n, pid) == \E i \in DOMAIN children(k, n) : children(k, n)[i] \div num_nodes(k) = pid

\* Variant: all valid nodes of the level.
buffer_length_all(k, pid) == Cardinality({n \in Nodes(k) : valid(k, n)})

buffer_length_optimized(k, pid) == Cardinality({n \in Nodes(k) : passes(k, n, pid)})

\* The nodes whose contents process pid puts on the wire, in this order.
send_buffer_optimized(k, pid) ==
  SelectSeq([i \in 1..num_nodes(k) |-> i - 1], LAMBDA n : passes(k, n, pid))

\* The nodes that take what comes from process pid, in this order.
receive_buffer_optimized(k, pid) ==
  SelectSeq([i \in 1..num_nodes(k) |-> pid * num_nodes(k) + i - 1], LAMBDA n : valid(k + 1, n))

cleared == [k \in 0..height |-> [n \in Nodes(k) |-> Zero]]

-----------------------------------------------------------------------------
(* Operations on the arrays.                                               *)

\* Variant: the block is taken for every degree-th node.
copy_current_level_strided(a, k, pid) ==
  [a EXCEPT ![k + 1] =
     [n \in Nodes(k + 1) |-> IF n % degree = pid THEN a[k][n \div degree] ELSE @[n]]]

copy_current_level(a, k, pid) ==
  [a EXCEPT ![k + 1] =
     [n \in Nodes(k + 1) |->
        IF n \div num_nodes(k) = pid THEN a[k][n % num_nodes(k)] ELSE @[n]]]

\* sgetn into the receive buffers: slot i takes the i-th element of the message.
receive(a, k, pid, message) ==
  LET slots == receive_buffer_optimized(k, pid) IN
  [a EXCEPT ![k + 1] =
     [n \in Nodes(k + 1) |->
        IF \E i \in DOMAIN slots : slots[i] = n
          THEN message[CHOOSE i \in DOMAIN slots : slots[i] = n]
          ELSE @[n]]]

frequency(cs, a, k, h) == Cardinality({i \in DOMAIN cs : checksum[a[k + 1][cs[i]]] = h})

\* index[h]: the last child with checksum h.
last_index(cs, a, k, h) ==
  LET I == {i \in DOMAIN cs : checksum[a[k + 1][cs[i]]] = h}
  IN  cs[CHOOSE i \in I : \A j \in I : j <= i]

\* Variants: the height is forgotten; the difference is signed.
threshold_no_height(k) == degree - k
threshold_signed(k) == degree - height - k

\* max_frequency > degree - height - l is evaluated in uint32_t.
threshold(k) == (degree - height - k) % WordSize

\* Variant: the number of the child in place of its contents.
reduced_to_index(a, k, n) == last_index(children(k, n), a, k, checksum[a[k + 1][children(k, n)[1]]])

reduced_node(a, k, n) ==
  LET cs == children(k, n)
      hashes == {checksum[a[k + 1][cs[i]]] : i \in DOMAIN cs}
      top == CHOOSE h \in hashes : \A g \in hashes : frequency(cs, a, k, g) <= frequency(cs, a, k, h)
  IN  IF frequency(cs, a, k, top) > threshold(k)
        THEN a[k + 1][last_index(cs, a, k, top)]
        ELSE Zero

\* One iteration of the outer loop of reduce().
reduce_level(a, k) ==
  [a EXCEPT ![k] = [n \in Nodes(k) |-> IF valid(k, n) THEN reduced_node(a, k, n) ELSE @[n]]]

-----------------------------------------------------------------------------
(* The job of one process.                                                 *)

VARIABLES
  me,       \* config.my_process_id
  alive,    \* the peers that send in this job
  stage,    \* where in job() the process is
  l,        \* the round, then the level being reduced
  levels,   \* EIGTree::levels
  byLabel   \* the same tree as EIGLabels computes it

vars == <<me, alive, stage, l, levels, byLabel>>

\* The label that a node number encodes, and back.
label(k, n) == [i \in 1..k |-> relayer(n, i - 1)]

Init ==
  /\ me \in Process
  /\ alive \in SUBSET (Process \ {me})
  /\ stage = "idle"
  /\ l = 0
  /\ levels = cleared
  /\ byLabel = L!Cleared

\* *tree.root() = unpublished
SetRoot(v) ==
  /\ stage = "idle"
  /\ levels' = [levels EXCEPT ![0][0] = v]
  /\ byLabel' = [byLabel EXCEPT ![<<>>] = v]
  /\ stage' = "copy"
  /\ UNCHANGED <<me, alive, l>>

CopyCurrentLevel ==
  /\ stage = "copy"
  /\ levels' = copy_current_level(levels, l, me)
  /\ byLabel' = L!copy_current_level(byLabel, l, me)
  /\ stage' = "receive"
  /\ UNCHANGED <<me, alive, l>>

\* What process q puts on the wire when its level k holds contents, by label.
wire(contents, k, q) ==
  [i \in DOMAIN send_buffer_optimized(k, q) |->
     contents[label(k, send_buffer_optimized(k, q)[i])]]

\* The labels of level k that process q passes on.
Passed(k, q) == {x \in L!Level(k) : q \in L!Kids(x)}

\* The handlers of one round of job(): the answers of all live peers: contents[q] is level l of peer q.
Receive(contents) ==
  /\ stage = "receive"
  /\ levels' = [levels EXCEPT ![l + 1] =
       [n \in Nodes(l + 1) |->
          LET q == n \div num_nodes(l) IN
          IF q \in alive
            THEN receive(levels, l, q, wire(contents[q], l, q))[l + 1][n]
            ELSE @[n]]]
  /\ byLabel' = [x \in L!Label |->
       IF Len(x) = l + 1 /\ x[l + 1] \in alive
         THEN contents[x[l + 1]][SubSeq(x, 1, l)]
         ELSE byLabel[x]]
  /\ l' = l + 1
  /\ stage' = IF l + 1 < height THEN "copy" ELSE "reduce"
  /\ UNCHANGED <<me, alive>>

ReduceLevel ==
  /\ stage = "reduce"
  /\ l > 0
  /\ levels' = reduce_level(levels, l - 1)
  /\ byLabel' = L!reduce_level(byLabel, l - 1)
  /\ l' = l - 1
  /\ UNCHANGED <<me, alive, stage>>

\* clear() and the next job, with other peers alive.
Clear ==
  /\ stage = "reduce"
  /\ l = 0
  /\ levels' = cleared
  /\ byLabel' = L!Cleared
  /\ stage' = "idle"
  /\ alive' \in SUBSET (Process \ {me})
  /\ UNCHANGED <<me, l>>

Next ==
  \/ \E v \in Value : SetRoot(v)
  \/ CopyCurrentLevel
  \/ /\ stage = "receive"
     /\ \E contents \in {[q \in alive |-> [x \in Passed(l, q) |-> f[<<q, x>>]]] :
             f \in [{<<q, x>> \in alive \X L!Level(l) : x \in Passed(l, q)} -> Value]} :
          Receive(contents)
  \/ ReduceLevel
  \/ Clear

Spec == Init /\ [][Next]_vars

-----------------------------------------------------------------------------
(* Properties.                                                             *)

\* Type invariant: every array of EIGTree::levels keeps its length num_nodes[l]
\* and holds node contents only, so that reduce() never copies anything else.
TypeOK ==
  /\ me \in Process
  /\ alive \in SUBSET (Process \ {me})
  /\ stage \in {"idle", "copy", "receive", "reduce"}
  /\ l \in 0..height
  /\ DOMAIN levels = 0..height
  /\ \A k \in 0..height : levels[k] \in [Nodes(k) -> Value]

\* The arrays hold the tree of EIGLabels: the decoding of node numbers, the
\* children, the order in which a peer sends its nodes and the order of the
\* slots they are received into, and the last child of a checksum that
\* reduce() takes all amount to labels and relayers.
TreesMatch ==
  \A k \in 0..height : \A n \in Nodes(k) :
    valid(k, n) => levels[k][n] = byLabel[label(k, n)]

\* The length of a message does not depend on who computes it: the receiver
\* waits for as many nodes as are sent, both when a peer sends its level
\* (send_buffer_optimized with its own id) and when it replaces the data by a
\* block of buffer_length_optimized of the receiver's id.
LengthsAgree ==
  stage = "receive" =>
    \A q \in Process \ {me} :
      /\ Len(receive_buffer_optimized(l, q)) = Len(send_buffer_optimized(l, q))
      /\ Len(receive_buffer_optimized(l, q)) = buffer_length_optimized(l, me)

\* A node all of whose children are equal has a majority, which reduce() keeps.
UnanimityKept ==
  \A k \in 0..(height - 1) : \A n \in Nodes(k) :
    (stage = "reduce" /\ l <= k /\ valid(k, n)) =>
      LET cs == children(k, n) IN
      \A v \in Value :
        (\A i \in DOMAIN cs : levels[k + 1][cs[i]] = v) => levels[k][n] = v

=============================================================================
