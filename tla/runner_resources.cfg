SPECIFICATION Spec
CONSTANTS
  NumDC = 1
  Externals = {e1}
  Services = {s1}
  TCP = {}
  NumResources = 3
  Gateways = {2}
  RunConsul = FALSE
  ResourceFolder = TRUE
INVARIANTS
  ProxiesStartConfigured
  SuccessIsInterrupt
  IInv
PROPERTIES
  Staged
\* the program ends: os.Exit, or a service blocked on its registration
CHECK_DEADLOCK FALSE
