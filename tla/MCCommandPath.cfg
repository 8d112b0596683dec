SPECIFICATION FairPathSpec
CONSTANTS
    MaxSlewRate = 2
    MaxAccel = 1
    PanLimit = 2
    TiltMin = 0
    TiltMax = 1
    HalfTurn = 4
    ContinuousPan = FALSE
    GainSteps = 2
    SettleTolerance = 1
    TrackLossThreshold = 1
    ZoomSteps = 1
    FieldOfView <- Lenses
    TrackRateBound = 4
    GyroCoupling = 0
    CameraSwitchFrames = 1
    Geopoints = {"corner"}
    Platforms = {"p1"}
    InverseGeopoint <- Seen
    Commands = {}
    TurnBound = 0
    FaultKinds = {"encoder_fault", "gps_loss"}
    MaxConvertRate = 1
    OrionCommands <- PathCommands
    CornerPoint = "corner"
    HardwarePackets <- RealGimbals
    FrozenAngles <- Stuck
    NoCommand = NoCommand
    Origin = "p1"
INVARIANTS
    PathTypeOK
    LookFresh
PROPERTIES
    CommandReached
    TracksAsCommanded
    LossTold
    OpticsKept
    EncoderHeld
