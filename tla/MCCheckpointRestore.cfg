CONSTANTS
  f = f
  g = g
  k = k
  None = None
  Absent = Absent
  Directory = Directory
  Paths <- MCPaths
  Files <- MCFiles
  Links <- MCLinks
  Ignored <- MCIgnored
  Commits <- MCCommits
  Excludable <- MCExcludable
  MaxEvents = 3
SPECIFICATION RestoreSpec
INVARIANTS SuccessIsCheckpoint FailuresExplained ReceiptIsTrue CrashIsRepeatable OracleIsCheckpoint
PROPERTIES NothingLost
CHECK_DEADLOCK FALSE
