CONSTANTS
    Procs = {rollback, p, q}
    NoProc = NoProc
    Rollback = rollback
    Ids = {i1, i2, i3}
    NoId = NoId
    NoName = NoName
    UserNames = {1}
    MaxDamages = 1
SYMMETRY Symmetry
SPECIFICATION NamingSpec
INVARIANTS NamesUnique
