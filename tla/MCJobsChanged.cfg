\* Three requests: a generation, one that resumes it on another reference, and one
\* that resumes the second, which was refused.
CONSTANTS
  NULL = NULL
  r1 = r1  r2 = r2  j1 = j1  j2 = j2  p1 = p1  p2 = p2
  e1 = e1  c1 = c1
  Processes = {p1}
  Requests = {q1, q2, q3}
  Jobs = {k1, k2, k3}
  Edits = {e1}
  Pollers = {}
  Ceilings = {2}
  Actions = {"generate", "resume"}
  Sourced = {FALSE}
  MaxTasks = 3
SPECIFICATION Spec
CHECK_DEADLOCK FALSE
INVARIANT ResumedKeepsProposal
SYMMETRY Symmetric
