SPECIFICATION Spec
CONSTANTS
    Clients = {"c1", "c2"}
    MaxCalls = 2
    Kind <- TwoKinds
    MaxConnections = 1
    WorkCap = 1
CHECK_DEADLOCK FALSE
INVARIANTS
    DaemonInv
    OwnAnswerUnlessTimedOut
    NothingLeftBehind
PROPERTIES
    AnsweredDespiteSlow
    ExitsOnceClientsLeave
    KeepsPromise
