------------------------------- MODULE MCJobs -------------------------------
EXTENDS JobSafety, TLC

CONSTANTS r1, r2, j1, j2, p1, p2, e1, c1

OneRequest    == {r1}
TwoRequests   == {r1, r2}
OneJob        == {j1}
TwoJobs       == {j1, j2}
TwoProcesses  == {p1, p2}

Symmetric ==
  Permutations(Requests) \cup Permutations(Jobs) \cup Permutations(Processes)

=============================================================================
