---------------------------- MODULE EIGAgreement ----------------------------
(***************************************************************************)
(* One job of the replicated key-value store after another, seen by all    *)
(* processes together: the exponential-information-gathering exchange and  *)
(* its reduction (BFTKVS::job in bft_kvs.h over EIGTree in eig_tree.h).    *)
(*                                                                         *)
(* A node of level l of the tree is named by its label, the sequence of    *)
(* the l distinct processes that relayed it, the proposer first and the    *)
(* newest relayer last.  Module EIGTree keeps the node numbers of the code *)
(* and shows that they encode these labels.                                *)
(*                                                                         *)
(* Processes interleave freely.  The one timing assumption is the one the  *)
(* round timeout is there for: a round of a process that obeys the         *)
(* protocol ends only when the messages of that round from all obeying     *)
(* peers have arrived.  What happens when they are late is module PeerStream. *)
(***************************************************************************)
EXTENDS EIGLabels

CONSTANTS
  Suspect,     \* the processes that may misbehave (given a should_die or a lie)
  MaxFaulty    \* at most so many of them do so in one job

\* The configurations the algorithm is meant for.  With max_rounds equal to
\* MaxFaulty + 1 this is the usual degree > 3 * MaxFaulty.  The last conjunct
\* keeps the unsigned difference in EIGTree::reduce from wrapping around.
ASSUME FaultBound ==
  /\ Suspect \subseteq Proc
  /\ MaxFaulty \in Nat
  /\ MaxFaulty < max_rounds
  /\ degree > 2 * MaxFaulty + max_rounds - 1
  /\ degree >= 2 * max_rounds - 1

-----------------------------------------------------------------------------
VARIABLES
  faulty,    \* the processes that do not follow the protocol in this job
  dead,      \* those of them that stay silent (should_die)
  pc,        \* where in job() each process is
  l,         \* the loop variable of the exchange, then of the reduction
  levels,    \* EIGTree::levels of each process
  sent,      \* the nodes each process has written to its sockets in this job
  nsent,     \* the number of rounds of this job each process has sent
  proposed,  \* history: the unpublished tuples a process started the job with
  result     \* history: the reduced tree given to record_result and to fuse

vars == <<faulty, dead, pc, l, levels, sent, nsent, proposed, result>>

correct == Proc \ faulty

\* Type invariant: at most MaxFaulty processes misbehave, the loop variable of
\* job() stays within the levels of the tree, which hold node contents only.
TypeOK ==
  /\ faulty \in SUBSET Proc
  /\ Cardinality(faulty) <= MaxFaulty
  /\ dead \in SUBSET faulty
  /\ pc \in [Proc -> {"idle", "send", "recv", "reduce", "done"}]
  /\ l \in [Proc -> 0..max_rounds]
  /\ levels \in [Proc -> [Label -> Value]]
  /\ sent \in [Proc -> [Label -> Value]]
  /\ nsent \in [Proc -> 0..max_rounds]
  /\ proposed \in [Proc -> Value]
  /\ result \in [Proc -> [Label -> Value]]

\* Who misbehaves in a job, and how, is decided when the job is released:
\* should_die and lie are asked with the number of the job.
PickFaults(F, D) ==
  /\ D \subseteq F
  /\ F \subseteq Suspect
  /\ Cardinality(F) <= MaxFaulty

Init ==
  /\ faulty \in SUBSET Suspect
  /\ dead \in SUBSET faulty
  /\ PickFaults(faulty, dead)
  /\ pc = [p \in Proc |-> "idle"]
  /\ l = [p \in Proc |-> 0]
  /\ levels = [p \in Proc |-> Cleared]
  /\ sent = [p \in Proc |-> Cleared]
  /\ nsent = [p \in Proc |-> 0]
  /\ proposed = [p \in Proc |-> Zero]
  /\ result = [p \in Proc |-> Cleared]

-----------------------------------------------------------------------------
(* The exchange.                                                           *)

\* *tree.root() = unpublished
BeginJob(p, v) ==
  /\ p \in correct
  /\ pc[p] = "idle"
  /\ proposed' = [proposed EXCEPT ![p] = v]
  /\ levels' = [levels EXCEPT ![p][<<>>] = v]
  /\ l' = [l EXCEPT ![p] = 0]
  /\ pc' = [pc EXCEPT ![p] = "send"]
  /\ UNCHANGED <<faulty, dead, sent, nsent, result>>

\* Variant: the root goes out in every round.
send_root_again(t, s, k, p) ==
  [x \in Label |-> IF Len(x) = k /\ p \notin Relayers(x) THEN t[<<>>] ELSE s[x]]

\* EIGTree::send_buffer_optimized: level k without the nodes p has relayed.
send_buffer_optimized(t, s, k, p) ==
  [x \in Label |-> IF Len(x) = k /\ p \notin Relayers(x) THEN t[x] ELSE s[x]]

\* The first half of a round: own copy, then async_write to every client.
SendRound(p) ==
  /\ p \in correct
  /\ pc[p] = "send"
  /\ levels' = [levels EXCEPT ![p] = copy_current_level(@, l[p], p)]
  /\ sent' = [sent EXCEPT ![p] = send_buffer_optimized(levels[p], @, l[p], p)]
  /\ nsent' = [nsent EXCEPT ![p] = l[p] + 1]
  /\ pc' = [pc EXCEPT ![p] = "recv"]
  /\ UNCHANGED <<faulty, dead, l, proposed, result>>

\* The slots of level k+1 that a liar fills as it likes.
LiarSlots(k) == {x \in Label : Len(x) = k + 1 /\ x[k + 1] \in faulty \ dead}

\* EIGTree::receive_buffer_optimized of every server, filled with what came
\* in: the sender's level k if it obeys, anything (b) if it lies; the slots of
\* a dead peer are not written.
receive_level(t, k, p, b) ==
  [x \in Label |->
     CASE Len(x) # k + 1 \/ x[k + 1] \in dead \cup {p} -> t[x]
       [] Len(x) = k + 1 /\ x[k + 1] \in correct \ {p} -> sent[x[k + 1]][SubSeq(x, 1, k)]
       [] Len(x) = k + 1 /\ x[k + 1] \in faulty \ dead -> b[x]]

\* Variant: one round too many.
ReceiveRoundTooOften(p, b) ==
  /\ p \in correct
  /\ pc[p] = "recv"
  /\ \A q \in correct : nsent[q] > l[p]
  /\ levels' = [levels EXCEPT ![p] = receive_level(@, l[p], p, b)]
  /\ l' = [l EXCEPT ![p] = @ + 1]
  /\ pc' = [pc EXCEPT ![p] = IF l[p] + 1 <= max_rounds THEN "send" ELSE "reduce"]
  /\ UNCHANGED <<faulty, dead, sent, nsent, proposed, result>>

\* Variant: no timeout, a round waits for every peer.
ReceiveRoundNoTimeout(p, b) ==
  /\ p \in correct
  /\ pc[p] = "recv"
  /\ \A q \in Proc : nsent[q] > l[p]
  /\ levels' = [levels EXCEPT ![p] = receive_level(@, l[p], p, b)]
  /\ l' = [l EXCEPT ![p] = @ + 1]
  /\ pc' = [pc EXCEPT ![p] = IF l[p] + 1 < max_rounds THEN "send" ELSE "reduce"]
  /\ UNCHANGED <<faulty, dead, sent, nsent, proposed, result>>

\* The second half of a round: all handlers have run or were cancelled.
ReceiveRound(p, b) ==
  /\ p \in correct
  /\ pc[p] = "recv"
  /\ \A q \in correct : nsent[q] > l[p]
  /\ levels' = [levels EXCEPT ![p] = receive_level(@, l[p], p, b)]
  /\ l' = [l EXCEPT ![p] = @ + 1]
  /\ pc' = [pc EXCEPT ![p] = IF l[p] + 1 < max_rounds THEN "send" ELSE "reduce"]
  /\ UNCHANGED <<faulty, dead, sent, nsent, proposed, result>>

-----------------------------------------------------------------------------
(* The reduction.                                                          *)

\* One iteration of the outer loop of EIGTree::reduce.
ReduceLevel(p) ==
  /\ p \in correct
  /\ pc[p] = "reduce"
  /\ l[p] > 0
  /\ levels' = [levels EXCEPT ![p] = reduce_level(@, l[p] - 1)]
  /\ l' = [l EXCEPT ![p] = @ - 1]
  /\ UNCHANGED <<faulty, dead, pc, sent, nsent, proposed, result>>

\* The rest of job(): the reduced tree is recorded and fused, then cleared.
FinishJob(p) ==
  /\ p \in correct
  /\ pc[p] = "reduce"
  /\ l[p] = 0
  /\ result' = [result EXCEPT ![p] = levels[p]]
  /\ levels' = [levels EXCEPT ![p] = Cleared]
  /\ pc' = [pc EXCEPT ![p] = "done"]
  /\ UNCHANGED <<faulty, dead, l, sent, nsent, proposed>>

\* The next common release of the periodic tasks.  A process that lied is back
\* at the start of job() with a cleared tree.  One that was silent may be back
\* too, but it left the messages of the skipped job in its sockets and takes
\* them for those of the next: what it relays is arbitrary and it stays faulty.
NextJob(F, D) ==
  /\ \A p \in correct : pc[p] = "done"
  /\ dead \subseteq F
  /\ PickFaults(F, D)
  /\ faulty' = F
  /\ dead' = D
  /\ pc' = [p \in Proc |-> "idle"]
  /\ l' = [p \in Proc |-> 0]
  /\ sent' = [p \in Proc |-> Cleared]
  /\ nsent' = [p \in Proc |-> 0]
  /\ proposed' = [p \in Proc |-> Zero]
  /\ result' = [p \in Proc |-> Cleared]
  /\ UNCHANGED levels

Next ==
  \/ \E p \in Proc :
       \/ \E v \in Value : BeginJob(p, v)
       \/ SendRound(p)
       \/ /\ pc[p] = "recv"
          /\ \E b \in [LiarSlots(l[p]) -> Value] : ReceiveRound(p, b)
       \/ ReduceLevel(p)
       \/ FinishJob(p)
  \/ \E F \in SUBSET Suspect, D \in SUBSET Suspect : NextJob(F, D)

Spec == Init /\ [][Next]_vars

-----------------------------------------------------------------------------
(* Properties.                                                             *)

\* All obeying processes end a job with the same vector of proposals and the
\* same root, whatever the others sent to each of them: the replicas fuse the
\* same data (EIGTree::reduce, interactive_consistency_vector, root).
Agreement ==
  \A p, q \in correct : pc[p] = "done" /\ pc[q] = "done" =>
    \A x \in Label : Len(x) <= 1 => result[p][x] = result[q][x]

\* The entry of an obeying process in the vector is what it proposed.
Validity ==
  \A p, q \in correct :
    pc[p] = "done" => result[p][<<q>>] = proposed[q]

\* A process that skips a job (should_die) leaves an empty entry: nothing of an
\* earlier job survives in the tree to be taken for its proposal.
SilentIsEmpty ==
  \A p \in correct, d \in dead : pc[p] = "done" => result[p][<<d>>] = Zero

-----------------------------------------------------------------------------
(* Refinement and liveness.                                                *)

stage ==
  [p \in Proc |-> CASE pc[p] = "idle" -> "idle"
                    [] pc[p] = "done" -> "done"
                    [] OTHER -> "busy"]

\* interactive_consistency_vector() and root() of the reduced tree.
outcome ==
  [p \in Proc |-> [vector |-> [q \in Proc |-> result[p][<<q>>]], root |-> result[p][<<>>]]]

IC == INSTANCE InteractiveConsistency

\* The rounds and the reduction of BFTKVS::job implement interactive
\* consistency: the only visible steps are a proposal, a decision that agrees
\* with all others, and the start of the next job.
Refinement == IC!Spec

\* A correct process runs: its thread is scheduled, its sockets deliver and its
\* round timer fires.
Fairness ==
  \A p \in Proc :
    /\ WF_vars(SendRound(p))
    /\ WF_vars(\E b \in [LiarSlots(l[p]) -> Value] : ReceiveRound(p, b))
    /\ WF_vars(ReduceLevel(p))
    /\ WF_vars(FinishJob(p))

BeginAll == \A p \in Proc : WF_vars(\E v \in Value : BeginJob(p, v))

FairSpec == Spec /\ Fairness /\ BeginAll

\* Every job an obeying process starts ends, although dead peers never answer:
\* the rounds of job() do not wait for them.
JobsEnd ==
  \A p \in Proc : (pc[p] = "send") ~> (pc[p] = "done")

-----------------------------------------------------------------------------
(* The inductive invariant behind these properties.                        *)

\* The tree of p in this job: the live one, then the one it ended with.
View(p) == IF pc[p] = "done" THEN result[p] ELSE levels[p]

\* The slots of level k that q fills have been filled at p.
Got(p, q, k) ==
  \/ pc[p] \in {"reduce", "done"}
  \/ k <= l[p]
  \/ pc[p] = "recv" /\ q = p /\ k = l[p] + 1

\* The reduction of p has reached level k.
Resolved(p, k) ==
  \/ pc[p] = "done"
  \/ pc[p] = "reduce" /\ l[p] <= k

\* Control: how far a process has sent, and that nobody is more than one round
\* ahead of an obeying process.
Control ==
  /\ \A p \in Proc :
       /\ p \in faulty => pc[p] = "idle"
       /\ pc[p] = "idle" => nsent[p] = 0 /\ l[p] = 0
       /\ pc[p] \in {"idle", "done"} => levels[p] = Cleared
       /\ pc[p] = "send" => l[p] < max_rounds /\ nsent[p] = l[p]
       /\ pc[p] = "recv" => l[p] < max_rounds /\ nsent[p] = l[p] + 1
       /\ pc[p] \in {"reduce", "done"} => nsent[p] = max_rounds
  /\ \A p, q \in correct :
       /\ pc[p] \in {"send", "recv"} => nsent[q] >= l[p]
       /\ pc[p] \in {"reduce", "done"} => nsent[q] = max_rounds

\* The root is the proposal until it is sent, and it is what was sent.
ProposalKept ==
  \A p \in correct :
    /\ pc[p] = "send" /\ l[p] = 0 => levels[p][<<>>] = proposed[p]
    /\ nsent[p] > 0 => sent[p][<<>>] = proposed[p]

\* A node last relayed by an obeying process q is what q sent, before the
\* reduction and after it.
Relayed ==
  \A p, q \in correct : \A k \in 0..(max_rounds - 1) : \A y \in Level(k) :
    q \in Kids(y) /\ Got(p, q, k + 1) => View(p)[Append(y, q)] = sent[q][y]

\* Obeying processes pass on what an obeying process sent them.
HonestRelay ==
  \A q, r \in correct : \A k \in 0..(max_rounds - 1) : \A y \in Level(k) :
    q \in Kids(y) /\ r \in Kids(Append(y, q)) /\ nsent[r] > k + 1 =>
      sent[r][Append(y, q)] = sent[q][y]

\* A reduced node is the majority of its children, which stay as they were.
ReducedNodes ==
  \A p \in correct : \A k \in 0..(max_rounds - 1) : \A x \in Level(k) :
    Resolved(p, k) => View(p)[x] = Majority(Votes(View(p), x), k)

\* Obeying processes agree even on the nodes that only liars relayed.
CommonNodes ==
  \A p, q \in correct : \A k \in 0..max_rounds : \A x \in Level(k) :
    Relayers(x) \subseteq faulty /\ Resolved(p, k) /\ Resolved(q, k) =>
      View(p)[x] = View(q)[x]

\* Nobody holds or passes on anything as the proposal of a dead process.
SilentSlots ==
  \A p \in correct : \A d \in dead : View(p)[<<d>>] = Zero /\ sent[p][<<d>>] = Zero

IInv ==
  /\ Control
  /\ ProposalKept
  /\ Relayed
  /\ HonestRelay
  /\ ReducedNodes
  /\ CommonNodes
  /\ SilentSlots

=============================================================================
