SPECIFICATION Spec
CONSTANTS
    Changes = {"c1"}
    Loops = {"l1"}
    ChangeOf <- OneChange
    e1 = e1
    e2 = e2
    Engines = {e1, e2}
    Policies = {"h1", "h2", "h3"}
    Separated = {"h1", "h2"}
    Planned = {"h1"}
    Review <- Reviews
    Slices = {"a", "b"}
    Lists <- TickedLists
    MaxSlices = 2
    MaxAttempts = 2
    MaxParallel = 2
    MaxTroubles = 1
CHECK_DEADLOCK FALSE
INVARIANTS
    ReentersAtFirstUncompleted
