CONSTANTS
  None = None
  NoBlob = NoBlob
  AtomicMove = FALSE
  UnlinkFaults = TRUE
  MaxTries = 2
  Importers = {i1, i2}
  Readers = {q1}
  Blobs = {b1}
  Procs = {i1, i2, q1}
  Names = {b1, i1, i2}
  i1 = i1
  i2 = i2
  b1 = b1
  q1 = q1
SPECIFICATION Spec
INVARIANT
  RecordBacked
CHECK_DEADLOCK FALSE
