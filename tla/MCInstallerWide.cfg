SPECIFICATION FairSpec
INVARIANTS JournalKeepsUp
PROPERTIES UserTextKept MigrationKeepsHook InvocationsEnd
CONSTANTS
    Procs = {p1}
    Keys = {"direct-hook", "husky"}
    Paths <- WidePaths
    AdapterOf <- ShippedAdapters
    TargetsOf <- WideTargets
    Values = {"v1", "v2"}
    Texts = {"mine"}
    Nothing = Nothing
    Absent = Absent
    MaxTransactions = 4
    InitialFiles <- JustAbsent
    EditFiles <- Edited
    MaxEdits = 1
    EditsDuringRuns = FALSE
    Faults = TRUE
CHECK_DEADLOCK FALSE
