SPECIFICATION Spec
CONSTANTS
  Datacenters <- OneDatacenter
  RunConsul = FALSE
  Externals <- FirstExternal
  Services <- FirstService
  Resources <- KnownAndUnknown
  MaxReports = 2
INVARIANTS
  ReportSucceeds
  ReplayConfigured
  StartsWhatIsListed
  FoldersExist
  CheckFindsProxy
PROPERTIES
  ReportsGrow
\* the reports are bounded and the handlers of a run come to an end
CHECK_DEADLOCK FALSE
