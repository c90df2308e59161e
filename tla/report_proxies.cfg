SPECIFICATION Spec
CONSTANTS
  Datacenters <- OneDatacenter
  RunConsul = TRUE
  Externals <- None
  Services <- FirstService
  Resources <- None
  MaxReports = 1
INVARIANTS
  ReplayHasProxies
\* the reports are bounded and the handlers of a run come to an end
CHECK_DEADLOCK FALSE
