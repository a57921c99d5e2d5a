------------------------- MODULE MCReplicatedStore --------------------------
(***************************************************************************)
(* Three obeying replicas and one faulty process.                          *)
(***************************************************************************)
EXTENDS ReplicatedStore

Symmetry == Permutations(Replica)

\* Steps that commute are taken in one order only: what is written while a
\* replica exchanges or fuses is not looked at before its next job, what is
\* written between its copy and its clearing is lost, and the replicas copy,
\* clear, insert and end each on its own data.
OneOrder ==
  /\ (\E r \in Replica : Len(unpublished'[r]) > Len(unpublished[r])) =>
       (\A r \in Replica : stage[r] = "idle") \/ (\A r \in Replica : stage[r] = "done")
  /\ \A r \in Replica : stage[r] = "copied" => stage'[r] # "copied"
  /\ \A r \in Replica : stage[r] = "fuse" /\ inserted[r] # {} =>
       inserted'[r] # inserted[r] \/ stage'[r] = "done"
=============================================================================
