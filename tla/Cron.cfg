SPECIFICATION FairSpec
CONSTANTS
  Names = {n1}
  Minutes = {1, 2}
  Schedules = {{1, 2}}
  MaxJobs = 2
  MaxGen = 2
  Workers = {w1, w2}
  Callers = {c1}
  Reregister = FALSE
INVARIANTS Exclusive Drained
PROPERTIES StopReturns
