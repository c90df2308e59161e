SPECIFICATION Spec
CONSTANTS
  Datacenters <- TwoDatacenters
  RunConsul = TRUE
  Externals <- None
  Services <- SecondService
  Resources <- SameNames
  MaxReports = 1
INVARIANTS
  TypeOK
  ReplayConfigured
  
  FoldersExist
  ListAgreesWithGet
\* the reports are bounded and the handlers of a run come to an end
CHECK_DEADLOCK FALSE
