SPECIFICATION MCSpec
CONSTANTS
  p1 = p1
  p2 = p2
  a1 = a1
  a2 = a2
  lister = lister
  measure = measure
  good = good
  bad = bad
  None = None
  NoOutput = NoOutput
  Commands = {p1, p2}
  Readers = {lister}
  Blobs = {good, bad}
  Wrapper = measure
  MaxChanges = 1
  Descriptors <- MCDescriptors
  Topologies <- MCTopologies
  Byte = {0, 1, 2}
  Magic = 1
  Unsafe = 2
  MaxName = 2
  Trees <- MCTrees
  Archives <- MCArchives
  MaxSwaps = 1
  KeptAs <- MCKeptAs
  W = 5
  MaxStrangers = 1
  MaxPolls = 3
  Images <- MCImages
  Wheels <- MCWheels
  Paths <- MCPaths
  Contents = {good, bad}
  SizeOf <- MCSizeOf
  Sessions = {p1, p2}
  NoRecord = NoRecord
  Earlier = {a1, a2}
  Operations = {measure}
  Inputs = {good, bad}
  Proves <- MCProves
  MaxRewrites = 1
  MaxDepth = 8
SYMMETRY Symmetry
INVARIANT
  AnnouncedRecordsAreExact
  UntouchedRegistriesList
  DeniedEgressNeverGotThrough
  TheVerdictIsRight
  ArchivesAreCanonical
  TreesArriveAsPlanned
  WheelClosureIsExact
  AcceptedImportsAreLoaded
  AcceptedAdmissionsAreChained
  OnlyCyclesNeverEnd
CHECK_DEADLOCK FALSE
