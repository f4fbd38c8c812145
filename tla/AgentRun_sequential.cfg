SPECIFICATION FairSpec
CONSTANTS
  e1 = e1
  e2 = e2
  e3 = e3
  JobExecutors <- OneE
  WebExecutors <- WebE
  MaxSteps = 2
  MaxRounds = 1
  MaxStarts = 4
  Overlap = FALSE
  Faults <- AllFaults
CHECK_DEADLOCK FALSE
INVARIANT SequentialSafe
PROPERTIES SettledStays ExecutionEnds
