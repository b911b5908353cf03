\* One sweep at a time, as the scheduler runs it; one retransmission; two attempts to send.
CONSTANTS
  p1 = p1
  p2 = p2
  s1 = s1
  Tasks <- MCTasks
  Tier <- MCTier
  Processes = {p1, p2}
  Sweepers = {s1}
  MaxRetries = 1
  Attempts = 2
  Patient = TRUE
SPECIFICATION FairSpec
CHECK_DEADLOCK FALSE
INVARIANTS ResultsEarned
PROPERTIES TaskSettles
