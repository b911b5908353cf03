\* Two requests at a time over two contents and two revisions, of which one breaks a hard
\* rule, in one mode of schedule; one to three actors of every machine.
CONSTANTS
  Requests = {q1, q2}
  Contents = {1, 2}
  Sound = {1}
  Modes = {"once"}
  MaxRevision = 1
  Owners = {o1, o2, o3}
  Generations = {1, 2}
  Switchers = {k1}
  Worker = w
  Nobody = nobody
  Nodes = {1, 2}
  MaxEdits = 2
  MaxLost = 1
  Others = {"data"}
  MaxRuns = 2
  MaxVersion = 2
  MaxFailures = 1
  Scans = {s1, s2}
  Changes = {1, 2}
  Absolute = {2}
  Findings = {1}
  FindingOf <- OneFinding
  Period = 1
  MaxTime = 2
  Keys = {1, 2}
  MaxSaid = 2
  MaxGoals = 2
  MaxFailed = 2
  Refreshes = {r1, r2}
  MaxPairs = 3
  NoRequest = none
  Clippers = {c1, c2}
  MaxNotes = 2
  MaxTrouble = 1
  Docs = {1, 2}
  Syncs = {r1, r2}
  MaxRefused = 1
  Callers = {c1, c2}
  Articles = {1, 2}
  MaxDigests = 2
  Messages = {r1, r2}
  Orders = {r1}
  MaxConvs = 3
  MaxPosts = 1
SPECIFICATION ServicesSpec
CHECK_DEADLOCK FALSE
INVARIANTS ApprovedIsValidated RunsOneAtATime  SessionsKept ContentKept
