SPECIFICATION FairSpec
CONSTANTS
  Names = {1, 2}
  Lines <- SmallLines
  Files <- SmallFiles
  Programs <- SomePrograms
  Folders <- SomeFolders
INVARIANTS
  TypeOK
  LineBeforeFile
  DaemonKeepsOptions
  VerdictFirst
  FailureLeavesNone
PROPERTIES
  LaunchEnds
\* the command ends
CHECK_DEADLOCK FALSE
