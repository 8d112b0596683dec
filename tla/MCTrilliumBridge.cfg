SPECIFICATION BridgeSpec
CONSTANTS
    RuntimeMode = "bridge"
    CmdCap = 1
    TelemCap = 1
    RespCap = 1
    CigiCap = 1
    TelemPeriod = 1
    FrameSpace = 1
    SgTimeout = 1
    SrStale = 1
    MaxCommands = 2
    SeqBound = 2
    UpCap = 2
    DownCap = 1
    MaxRxBuf = 2
    MaxNoise = 1
    MaxConnections = 1
INVARIANTS
    BridgeTypeOK
    CommandsInTransit
PROPERTIES
    KeepsPromise
