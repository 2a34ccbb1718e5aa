SPECIFICATION CpuFairSpec
CONSTANTS
  u1 = u1
  u2 = u2
  u3 = u3
  CpuCalls <- ThreeCalls
  CpuWorkers = 1
  CpuQueue = 1
  CpuExecutors = {1, 2}
PROPERTY CrashIsRepaired
CHECK_DEADLOCK FALSE
