SPECIFICATION FairSpec
CONSTANTS
    t1 = t1
    t2 = t2
    Turns = {t1, t2}
    Via <- MixedTurns
    Cancels = {"k"}
    Watchers = {}
    QueueCap = 1
    RingSize <- TwoProviders
    MaxRotations = 1
    ToolCap = 1
    DbMayFail = FALSE
    MaxCrashes = 0
CHECK_DEADLOCK FALSE
PROPERTIES
    AcpPromptsRun
