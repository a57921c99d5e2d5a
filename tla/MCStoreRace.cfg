CONSTANTS
  Replica = {r1, r2}
  Faulty = {}
  max_rounds = 2
  Key = {k}
  Value = {1, 2}
  NT = 2
  keep_n_values = 1
  Fusions = {"default"}
  MaxTime = 1
SPECIFICATION Spec
INVARIANT WritesSurvive
