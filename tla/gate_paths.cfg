SPECIFICATION FairSpec
CONSTANTS
    c1 = c1
    c2 = c2
    t1 = t1
    t2 = t2
    r1 = r1
    r2 = r2
    Calls <- PathsCalls
    Requests = {r1}
    Targets = {t1, t2}
    Kind <- PathsKind
    Path <- PathsPath
    Target <- PathsTarget
    HighRisk = {}
    ReadOnlyRole = {"role"}
    RawVeto = {}
    ScrubVeto = {}
    BaseRule <- DenySecond
INVARIANTS
    DenyRulesHold
PROPERTIES
    EventuallyDecided
    EventuallyDismissed
