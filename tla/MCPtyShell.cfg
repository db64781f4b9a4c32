CONSTANTS
    MaxRequests = 2
    Kinds = {"oversized", "foreign", "blank", "command"}
    MaxAsking = 1
SPECIFICATION FairSpec
INVARIANTS RanWasRecorded ReportedDidNotRun ExitIsClean
PROPERTIES ShellEnds
CHECK_DEADLOCK FALSE
