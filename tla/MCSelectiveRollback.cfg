CONSTANTS
    Paths = {a, b}
    Ids = {r1, r2}
    NoId = NoId
    HEAD = HEAD
    Commands = TRUE
    MaxEdits = 1
SPECIFICATION FairSpec
INVARIANTS SucceededIsRestored ReportMatchesDisk
PROPERTIES ImplementsJournal SavedBeforeOverwritten RunsEnd
