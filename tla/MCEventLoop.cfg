SPECIFICATION FairSpec
CONSTANTS
    RuntimeMode = "bridge"
    CmdCap = 2
    TelemCap = 1
    RespCap = 2
    CigiCap = 1
    TelemPeriod = 3
    FrameSpace = 4
    SgTimeout = 3
    SrStale = 2
    MaxCommands = 2
    SeqBound = 1
INVARIANTS
    TypeOK
    SilenceBounded
    NoCommandLost
PROPERTIES
    LastCommandApplied
    TicksForever
    FallbackTakesOver
