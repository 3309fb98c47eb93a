SPECIFICATION FairSpec
CONSTANTS
    t1 = t1
    t2 = t2
    Turns = {t1, t2}
    Via <- RpcTurns
    Cancels = {"k"}
    Watchers = {}
    QueueCap = 1
    RingSize <- OneWithout
    MaxRotations = 1
    ToolCap = 1
    DbMayFail = TRUE
    MaxCrashes = 1
CHECK_DEADLOCK FALSE
PROPERTIES
    TurnsEnd
    CancelledRunsStop
