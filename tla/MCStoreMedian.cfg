CONSTANTS
  Replica = {r1, r2, r3}
  Faulty = {f}
  max_rounds = 2
  Key = {k}
  Value = {1, 2}
  NT = 1
  keep_n_values = 2
  Fusions = {"median"}
  MaxTime = 2
SYMMETRY Symmetry
ACTION_CONSTRAINT OneOrder
SPECIFICATION Spec
INVARIANTS
  TypeOK
  NotForged
  Readable
  UnanimousCommits
