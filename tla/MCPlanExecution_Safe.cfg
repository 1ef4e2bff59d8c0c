CONSTANTS
  Execs = {p1, p2}
  None = None
  Limit = 1
  p1 = p1
  p2 = p2
SPECIFICATION Spec
SYMMETRY Symmetry
INVARIANT
  TypeOK
  ExecutionIsExclusive
  ResultIsEarned
  JobTreeIsDead
  CaptureOfOneProcessIsBounded
PROPERTY
  ForeignRootStays
CHECK_DEADLOCK FALSE
