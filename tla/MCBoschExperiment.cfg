CONSTANTS
  periods_ms <- MCPeriods
  period_shares <- MCShares
  RunnableCounts = {3, 4}
  Wcets = {5, 20}
  LabelIds = {0, 1}
  smallest_period_ms = 50
  ConfigFiles = {"kzh15_105pcu_3476l.cfg"}
  CpusUsed = {1, 2, 3}
  max_rounds = 2
  keep_n_values = 3
  NtStep = 2
  NtMax = 20
  Ignored = 200
  exp_duration = 400
  WordSize = 65536
SPECIFICATION Spec
INVARIANTS
  TypeOK
  TasksPartition
  LabelsPaired
  ReadsSucceed
  WritesFit
  AssertHolds
