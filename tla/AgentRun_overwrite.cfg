SPECIFICATION Spec
CONSTANTS
  e1 = e1
  e2 = e2
  e3 = e3
  JobExecutors = {}
  WebExecutors <- TwoE
  MaxSteps = 1
  MaxRounds = 1
  MaxStarts = 3
  Overlap = TRUE
  Faults = {}
PROPERTY TerminalImmutable
CHECK_DEADLOCK FALSE
