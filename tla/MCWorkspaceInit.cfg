CONSTANTS
  None = None
  AtomicMove = FALSE
  UnlinkFaults = FALSE
  MaxTries = 2
  Inits = {i1, i2}
  Openers = {o1}
  Earlier = e
  Dirs = {d1, d2}
  Marker = marker
  Procs = {i1, i2, o1, e}
  Names = {marker}
  i1 = i1
  i2 = i2
  o1 = o1
  e = e
  d1 = d1
  d2 = d2
  marker = marker
SPECIFICATION FairSpec
INVARIANT
  TypeOK
  SuccessMeansUsable
  MarkerIsLast
PROPERTY
  LosingIsNoFailure
  EveryInitEnds
CHECK_DEADLOCK FALSE
