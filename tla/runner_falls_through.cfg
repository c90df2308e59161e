SPECIFICATION FairSpec
CONSTANTS
  NumDC = 1
  Externals = {}
  Services = {s1}
  TCP = {}
  NumResources = 0
  Gateways = {}
  RunConsul = FALSE
  ResourceFolder = FALSE
PROPERTIES
  CancellationFallsThrough
\* the program ends: os.Exit, or a service blocked on its registration
CHECK_DEADLOCK FALSE
