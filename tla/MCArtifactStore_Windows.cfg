CONSTANTS
  None = None
  NoBlob = NoBlob
  AtomicMove = TRUE
  UnlinkFaults = TRUE
  MaxTries = 2
  Importers = {i1, i2, i3}
  Readers = {q1}
  Blobs = {b1, b2}
  Procs = {i1, i2, i3, q1}
  Names = {b1, b2, i1, i2, i3}
  i1 = i1
  i2 = i2
  i3 = i3
  b1 = b1
  b2 = b2
  q1 = q1
SPECIFICATION Spec
SYMMETRY Symmetry
INVARIANT
  TypeOK
PROPERTY
  ReadFailsOnlyAtAWindow
CHECK_DEADLOCK FALSE
