SPECIFICATION FairTodoSpec
CONSTANTS
  Consumers = {c1, c2}
  Ticks = {t1, t2}
  Kinds = {"code", "notice"}
  Dues = {1, 2}
  MaxRevision = 3
  MaxEdits = 1
INVARIANTS ItemFollows
PROPERTIES DueIsTold
