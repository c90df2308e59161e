SPECIFICATION Spec
CONSTANTS
  NumDC = 2
  Externals = {}
  Services = {s1}
  TCP = {}
  NumResources = 0
  Gateways = {}
  RunConsul = TRUE
  ResourceFolder = FALSE
PROPERTIES
  Staged
\* the program ends: os.Exit, or a service blocked on its registration
CHECK_DEADLOCK FALSE
