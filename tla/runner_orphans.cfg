SPECIFICATION Spec
CONSTANTS
  NumDC = 1
  Externals = {}
  Services = {s1}
  TCP = {}
  NumResources = 1
  Gateways = {}
  RunConsul = FALSE
  ResourceFolder = TRUE
INVARIANTS
  NoOrphans
\* the program ends: os.Exit, or a service blocked on its registration
CHECK_DEADLOCK FALSE
