SPECIFICATION FairSpec
CONSTANTS
  q1 = q1
  q2 = q2
  sync = sync
  Calls = {q1, q2, sync}
  Key <- MCKey
  Query <- MCQuery
  Reuse <- MCReuse
  Settings <- MCSettings
  HardSteps = 3
  InitialSteps = 1
  LeaseSteps = 1
  Reserve = 1
  LowStreak = 2
  ReplanRounds = 1
  Threshold = 2
  Retries = 1
  Batch = 2
  MaxHistory = 3
  MaxTalk = 2
  RecentRounds = 1
  MaxTurns = 2
CHECK_DEADLOCK FALSE
INVARIANTS  NoOrphans ToolsOnce
PROPERTIES TurnEnds
