\* A reader of one job, a generation or a chat edit, and what becomes of the job; beside
\* it a tab that waits for one of two jobs, and the memory that they take.
SPECIFICATION EndsSpec
CONSTANTS
  NULL = NULL
  Nil = Nil
  r1 = r1  r2 = r2  j1 = j1  j2 = j2  p1 = p1  p2 = p2  e1 = e1  c1 = c1  s1 = s1
  Processes <- TwoProcesses
  Requests <- OneRequest
  Jobs <- OneJob
  Edits = {e1}
  Pollers = {c1}
  Ceilings = {2}
  Actions = {"generate", "chat_edit"}
  Sourced = {FALSE}
  MaxTasks = 1
  JobIds = {a1, a2}
  Owners = {o1}
  Tabs = {t1}
  Scopes = {s1, s2}
  Ttl = 1
  ShortTtl = 1
  TombstoneTtl = 2
  Capacity = 2
  MaxRecords = 2
  MaxOwned = 2
  MaxBody = 1
  MaxBytes = 1
  MaxAbsent = 1
  MaxUpsets = 1
CHECK_DEADLOCK FALSE
INVARIANTS SucceededIsStored LateReadRecovers
PROPERTIES JobsSettle WaitsEnd RecordsGo
