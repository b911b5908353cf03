CONSTANTS
  m1 = m1
  m2 = m2
  unknown = unknown
  none = none
  anyName = anyName
  MaxRound = 3
  Notifiers = {n1}
  MaxAttempts = 3
  Channels = 2
  Editors = {e1}
  Reviewers = {v1}
  Callers = {x1, x2}
  MaxEdits = 2
  MaxApprovals = 3
  Threads = {t1, t2, t3}
  Nobody = nobody
  MaxBlocks = 2
  CloseOnExit = TRUE
  Orders <- TextOrders
  MaxRenders = 2
  Facts = {f1, f2}
  Own = {f1}
  Calls = {c1}
  MaxEvents = 3
  MaxFailures = 1
  Manifests <- PluginSets
  MinCount = 1
  MaxPending = 1
SPECIFICATION PartsSpec
CHECK_DEADLOCK FALSE
INVARIANTS LateByOne  LockFollowsTransaction ReportKept PassedRunsAsAgreed LedgerTrue ReleasedInOrder 
PROPERTIES NoticeSettles
