CONSTANTS
  max_rounds = 2
  NodesIn <- FourProcesses
  WordSize = 65536
  Window = 7
  LastRound = 5
  MaxSlips = 12
  MaxSkips = 1
SPECIFICATION FairSpec
INVARIANTS
  TypeOK
  InStep
  JobsBehind
  Recovers
  NeverAhead
PROPERTY RoundEnds
