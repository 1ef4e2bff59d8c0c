SPECIFICATION Spec
CONSTANTS
  p1 = p1
  p2 = p2
  good = good
  bad = bad
  git = git
  None = None
  Planners <- MCPlanners
  Tools <- MCTools
  Catalogs <- MCCatalogs
  Requests <- MCRequests
  Bins <- MCBins
  Qualified = good
  GitBin = git
  MaxFaults = 2
INVARIANT TypeOK
INVARIANT PlansRunAdmittedExecutables
INVARIANT PythonIsNeverPlanned
PROPERTY RefusedLaunchersAreBeingLinked
PROPERTY LinkWindowsClose
CHECK_DEADLOCK FALSE
