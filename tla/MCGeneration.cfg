\* Two requests that race for one job or resume each other's, at two calls each; beside
\* them a tab that asks for two jobs and moves between two projects.
SPECIFICATION BothSpec
CONSTANTS
  NULL = NULL
  Nil = Nil
  r1 = r1  r2 = r2  j1 = j1  j2 = j2  p1 = p1  p2 = p2  e1 = e1  c1 = c1  s1 = s1
  Processes <- TwoProcesses
  Requests <- TwoRequests
  Jobs <- TwoJobs
  Edits = {}
  Pollers = {}
  Ceilings = {2}
  Actions = {"generate", "resume"}
  Sourced = {TRUE, FALSE}
  MaxTasks = 1
  JobIds = {a1, a2}
  Owners = {o1}
  Tabs = {t1}
  Scopes = {s1, s2}
  Ttl = 1
  ShortTtl = 1
  TombstoneTtl = 2
  Capacity = 2
  MaxRecords = 2
  MaxOwned = 2
  MaxBody = 2
  MaxBytes = 3
  MaxAbsent = 1
  MaxUpsets = 2
CHECK_DEADLOCK FALSE
INVARIANTS OneRunnerPerJob BuiltOnReference NeverBothStored RoomForResults NothingPaidIsLost
PROPERTIES CallsOnlyGrow RunsOnceWhileRemembered ResultKept
SYMMETRY Either
