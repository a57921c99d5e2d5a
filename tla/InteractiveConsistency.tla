----------------------- MODULE InteractiveConsistency -----------------------
(***************************************************************************)
(* What a job of the replicated store promises, whatever the exchange in   *)
(* between does: every obeying process proposes once and ends with a       *)
(* vector of proposals and a fused root that all obeying processes share,  *)
(* in which the entries of obeying processes are their proposals and the   *)
(* entries of silent ones are empty.                                       *)
(***************************************************************************)
EXTENDS Integers, FiniteSets

CONSTANTS Proc, MaxFaulty, Value, Zero

VARIABLES
  faulty,    \* the processes that misbehave in this job
  dead,      \* those that are silent
  stage,     \* "idle", "busy" or "done"
  proposed,  \* the proposal of each process that is not idle
  outcome    \* the vector and the root of each process that is done

icvars == <<faulty, dead, stage, proposed, outcome>>

Outcome == [vector : [Proc -> Value], root : Value]

Nothing == [vector |-> [p \in Proc |-> Zero], root |-> Zero]

Obeying == Proc \ faulty

Faults(F, D) == F \subseteq Proc /\ D \subseteq F /\ Cardinality(F) <= MaxFaulty

Init ==
  /\ faulty \in SUBSET Proc
  /\ dead \in SUBSET faulty
  /\ Faults(faulty, dead)
  /\ stage = [p \in Proc |-> "idle"]
  /\ proposed = [p \in Proc |-> Zero]
  /\ outcome = [p \in Proc |-> Nothing]

Propose(p, v) ==
  /\ p \in Obeying
  /\ stage[p] = "idle"
  /\ stage' = [stage EXCEPT ![p] = "busy"]
  /\ proposed' = [proposed EXCEPT ![p] = v]
  /\ UNCHANGED <<faulty, dead, outcome>>

\* A process decides only when every obeying process has proposed.
Decide(p) ==
  LET o == outcome'[p] IN
  /\ p \in Obeying
  /\ stage[p] = "busy"
  /\ outcome' \in [Proc -> Outcome]
  /\ \A q \in Obeying : stage[q] # "idle" /\ o.vector[q] = proposed[q]
  /\ \A d \in dead : o.vector[d] = Zero
  /\ \A q \in Obeying : stage[q] = "done" => outcome[q] = o
  /\ stage' = [stage EXCEPT ![p] = "done"]
  /\ \A q \in Proc \ {p} : outcome'[q] = outcome[q]
  /\ UNCHANGED <<faulty, dead, proposed>>

NewInstance ==
  /\ \A p \in Obeying : stage[p] = "done"
  /\ Faults(faulty', dead')
  /\ stage' = [p \in Proc |-> "idle"]
  /\ proposed' = [p \in Proc |-> Zero]
  /\ outcome' = [p \in Proc |-> Nothing]

Next ==
  \/ \E p \in Proc : \/ \E v \in Value : Propose(p, v)
                     \/ Decide(p)
  \/ NewInstance

Spec == Init /\ [][Next]_icvars

=============================================================================
