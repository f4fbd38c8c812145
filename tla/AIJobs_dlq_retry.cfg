SPECIFICATION Spec
CONSTANTS
  j1 = j1
  j2 = j2
  w1 = w1
  w2 = w2
  s1 = s1
  NoJob = NoJob
  Jobs <- OneJob
  Workers <- OneWorker
  Batch = {}
  Scope <- NoScope
  Session <- MCSession
  MaxDeliver = 3
  Reports = 1
  Faults <- DLQFault
INVARIANT DLQRetried
CHECK_DEADLOCK FALSE
