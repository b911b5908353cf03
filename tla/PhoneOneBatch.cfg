SPECIFICATION Spec
CONSTANTS
  Batches = {b1}
  N = 3
  NoBatch = NoBatch
  Outcomes = {"succeeded", "failed", "cancelled"}
  Malformed = {}
  ResumeBy = {"split", "route"}
  MaxCalls = 2
  MaxRestarts = 1
INVARIANTS HandedOutOnce VerdictIsEarned
PROPERTIES OutcomeKept
