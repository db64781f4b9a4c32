SPECIFICATION Spec
INVARIANTS JournalCovers BackupsKept RecordsMatchFiles RoundTrip
CONSTANTS
    Procs = {p1, p2}
    Keys = {"direct-hook", "cursor"}
    Paths = {"direct-hook", "cursor"}
    AdapterOf <- ShippedAdapters
    TargetsOf <- ShippedTargets
    Values = {"v1"}
    Texts = {"mine"}
    Nothing = Nothing
    Absent = Absent
    MaxTransactions = 3
    InitialFiles <- FramedOrNot
    EditFiles <- AbsentOrMine
    MaxEdits = 0
    EditsDuringRuns = FALSE
    Faults = TRUE
CHECK_DEADLOCK FALSE
