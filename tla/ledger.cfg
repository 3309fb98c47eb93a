SPECIFICATION Spec
CONSTANTS
    t1 = t1
    t2 = t2
    t3 = t3
    Turns = {t1, t2, t3}
    Roots = {"root"}
    Children = {"child"}
    Compactions = {"k"}
    Rewinds = 1
    Stops = 1
    Troubles = 1
SYMMETRY Symmetry
CHECK_DEADLOCK FALSE
INVARIANTS
    LedgerInv
    LatestIsNewest
    TotalsAddUp
PROPERTIES
    KeepsHistory
