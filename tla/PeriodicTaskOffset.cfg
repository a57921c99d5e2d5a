CONSTANTS
  time_period = 5
  offset = 3
  max_jobs = 3
  Start = {0, 2, 4, 6}
  MaxExec = 8
  MaxLatency = 6
SPECIFICATION FairSpec
INVARIANT NextReleasePoint
