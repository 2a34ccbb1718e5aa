\* A reader of a job whose save reply is lost.
CONSTANTS
  NULL = NULL
  r1 = r1  r2 = r2  j1 = j1  j2 = j2  p1 = p1  p2 = p2
  e1 = e1  c1 = c1
  Processes <- TwoProcesses
  Requests <- OneRequest
  Jobs <- OneJob
  Edits = {e1}
  Pollers = {c1}
  Ceilings = {1}
  Actions = {"generate"}
  Sourced = {FALSE}
  MaxTasks = 2
SPECIFICATION Spec
CHECK_DEADLOCK FALSE
INVARIANT FailedStoredNothing
