SPECIFICATION FairSpec
CONSTANTS
  Names = {1, 2}
  Lines <- SmallLines
  Files <- SmallFiles
  Programs <- SomePrograms
  Folders <- SomeFolders
INVARIANT DaemonKeepsExternals
\* the command ends
CHECK_DEADLOCK FALSE
