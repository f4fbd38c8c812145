SPECIFICATION FairSpec
CONSTANTS
  j1 = j1
  j2 = j2
  w1 = w1
  w2 = w2
  s1 = s1
  NoJob = NoJob
  Jobs <- OneJob
  Workers <- TwoWorkers
  Batch = {}
  Scope <- NoScope
  Session <- MCSession
  MaxDeliver = 3
  Reports = 1
  Faults <- AllFaults
CHECK_DEADLOCK FALSE
INVARIANTS JobCovered DeadLetteredOnce
PROPERTIES MessageSettles CancelBeforeBodySticks
