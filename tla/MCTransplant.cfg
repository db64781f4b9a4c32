CONSTANTS
  f = f
  g = g
  k = k
  l = l
  Absent = Absent
  Directory = Directory
  Torn = Torn
  Special = Special
  Paths <- MCPaths
  Files <- MCFiles
  Links <- MCLinks
  Ignored <- MCIgnored
  SymlinkCheckout = TRUE
  Scenarios <- MCScenarios
SPECIFICATION Spec
INVARIANTS RefusalsExplained ReportIsTrue AlarmsExplained
PROPERTIES NothingElseDestroyed
CHECK_DEADLOCK FALSE
