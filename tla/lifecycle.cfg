SPECIFICATION FairSpec
CONSTANTS
  Runs = {r1, r2}
  NoRun = NoRun
  Clients = {stop, query}
  Stops = {stop}
INVARIANTS
  TypeOK
  Stoppable
  StaleSockets
  StopMeansStopping
PROPERTIES
  OwnFileOnly
  ClientsReturn
  StopCancels
  CancelFreesPath
\* the runs and the clients come to their ends
CHECK_DEADLOCK FALSE
