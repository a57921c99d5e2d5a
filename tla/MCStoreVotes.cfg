CONSTANTS
  Replica = {r1, r2, r3}
  Faulty = {f}
  max_rounds = 2
  Key = {k}
  Value = {1}
  NT = 2
  keep_n_values = 1
  Fusions = {"default", "majority"}
  MaxTime = 1
SYMMETRY Symmetry
ACTION_CONSTRAINT OneOrder
SPECIFICATION Spec
INVARIANTS
  StoresAgree
  KeepsNewest
  NotForged
  UnanimousCommits
