SPECIFICATION Spec
CONSTANTS
    t1 = t1
    t2 = t2
    Turns = {t1, t2}
    Via <- MixedTurns
    Cancels = {"k"}
    Watchers = {"w"}
    QueueCap = 1
    RingSize <- TwoProviders
    MaxRotations = 1
    ToolCap = 2
    DbMayFail = TRUE
    MaxCrashes = 1
CHECK_DEADLOCK FALSE
INVARIANTS
    NoTurnForgotten
    SingleOutcome
    NoLostWakeup
    AnswersAgree
    TurnInv
PROPERTIES
    KeepsPromise
