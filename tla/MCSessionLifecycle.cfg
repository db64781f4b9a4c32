CONSTANTS
    Procs = {p1, p2}
    NoProc = NoProc
    Sessions = {s1, s2}
    NoSession = NoSession
    MaxCaptures = 2
SPECIFICATION Spec
INVARIANTS ReaderFindsContribution ListingSound
PROPERTIES ImplementsStore OperationsEnd
