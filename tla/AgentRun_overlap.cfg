SPECIFICATION Spec
CONSTANTS
  e1 = e1
  e2 = e2
  e3 = e3
  JobExecutors <- OneE
  WebExecutors <- WebE
  MaxSteps = 1
  MaxRounds = 1
  MaxStarts = 3
  Overlap = TRUE
  Faults <- AllFaults
CHECK_DEADLOCK FALSE
INVARIANT ExecutedIsMarked
