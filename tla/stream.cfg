SPECIFICATION Spec
CONSTANTS
    Turns = {"t1"}
    Named = {"t1"}
    Approvals = {"a1"}
    Session = "session"
    Streams = {"s1"}
    RingCap = 4
    MaxBuffer = 2
    Permits = 1
    MaxChunks = 1
CHECK_DEADLOCK FALSE
INVARIANTS
    StreamInv
    PendingReachesStream
    AnsweredNotReplayed
    BufferBounded
PROPERTIES
    StallsOnlyUnreported
    KeepsReplay
    StreamsClose
    BuffersReclaimed
