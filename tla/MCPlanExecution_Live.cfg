CONSTANTS
  Execs = {p1}
  None = None
  Limit = 1
  p1 = p1
SPECIFICATION FairSpec
PROPERTY
  EveryExecutionEnds
CHECK_DEADLOCK FALSE
