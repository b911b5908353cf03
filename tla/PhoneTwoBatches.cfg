SPECIFICATION FairSpec
CONSTANTS
  Batches = {b1, b2}
  N = 1
  NoBatch = NoBatch
  Outcomes = {"succeeded"}
  Malformed = {}
  ResumeBy = {"service"}
  MaxCalls = 1
  MaxRestarts = 1
 
PROPERTIES ExecutorEnds
