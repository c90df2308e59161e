SPECIFICATION FairSpec
CONSTANTS
  NumDC = 1
  Externals = {e1}
  Services = {s1}
  TCP = {s1}
  NumResources = 1
  Gateways = {}
  RunConsul = FALSE
  ResourceFolder = TRUE
INVARIANTS
  TypeOK
  TokensAccounted
  ListedIsDeployed
  GroupDrained
PROPERTIES
  UnwindsOrBlocks
  BringUpEnds
  FailuresEndTheRun
\* the program ends: os.Exit, or a service blocked on its registration
CHECK_DEADLOCK FALSE
