--------------------------- MODULE MCEIGAgreement ---------------------------
(***************************************************************************)
(* Four processes, one of which may misbehave, two rounds: the             *)
(* configuration of exp/ivp1.cpp and of the tests of the store.            *)
(***************************************************************************)
EXTENDS EIGAgreement, TLC

CONSTANTS zero, a

MCValue == {zero, a}
MCchecksum == (zero :> 0) @@ (a :> 1)
MCchecksum1 == (zero :> 0)

Symmetry == Permutations(Proc \ Suspect)

\* A reduction reads and writes the tree of its own process alone, so that it
\* commutes with every step of the others: once begun it runs to its end.
ReductionFirst ==
  \A p \in Proc : pc[p] = "reduce" => l'[p] # l[p] \/ pc'[p] = "done"
=============================================================================
