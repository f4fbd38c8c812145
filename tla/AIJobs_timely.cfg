SPECIFICATION Spec
CONSTANTS
  j1 = j1
  j2 = j2
  w1 = w1
  w2 = w2
  s1 = s1
  NoJob = NoJob
  Jobs <- TwoJobs
  Workers <- TwoWorkers
  Batch <- OneJob
  Scope <- SameScope
  Session <- MCSession
  MaxDeliver = 2
  Reports = 1
  Faults <- TimelyFaults
SYMMETRY Symm
CHECK_DEADLOCK FALSE
INVARIANT TimelySafe
PROPERTY SucceededStays
