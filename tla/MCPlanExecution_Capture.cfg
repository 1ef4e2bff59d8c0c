CONSTANTS
  Execs = {p1}
  None = None
  Limit = 0
  p1 = p1
SPECIFICATION Spec
INVARIANT
  CaptureIsBounded
CHECK_DEADLOCK FALSE
