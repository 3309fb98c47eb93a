SPECIFICATION Spec
CONSTANTS
    c1 = c1
    c2 = c2
    t1 = t1
    t2 = t2
    r1 = r1
    r2 = r2
    Calls = {c1, c2}
    Requests = {r1, r2}
    Targets = {t1, t2}
    Kind <- MixedKind
    Path <- MixedPath
    Target <- MixedTarget
    HighRisk = {c1}
    ReadOnlyRole = {}
    RawVeto = {}
    ScrubVeto = {}
    BaseRule <- AskSecond
SYMMETRY Symmetry
INVARIANTS
    FlagVisibleOnWake
