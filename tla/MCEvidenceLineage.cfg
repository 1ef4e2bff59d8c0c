CONSTANTS
  Executors = {e1}
  Producers = {p1}
  Consumers = {c1}
  Earlier = {a0}
  Inputs = {i1, i2}
  ValidInputs = {i1, i2}
  Reviewed = i1
  Blobs = {b1, b2}
  Extract <- MCExtract
  MaxRewrites = 2
  None = None
  b1 = b1
  b2 = b2
  v1 = v1
SPECIFICATION Spec
INVARIANT
  VerifiedHandoffIsTheRetainedOne
  AcceptedRunsAreReproducible
  UntouchedEvidenceIsAccepted
PROPERTY
  PublishedHandoffsBindTheRetainedRun
CHECK_DEADLOCK FALSE
