SPECIFICATION FairSpec
CONSTANTS
    MaxSlewRate = 2
    MaxAccel = 1
    PanLimit = 6
    TiltMin <- TiltFloor
    TiltMax = 1
    HalfTurn = 3
    ContinuousPan = TRUE
    GainSteps = 1
    SettleTolerance = 1
    TrackLossThreshold = 1
    ZoomSteps = 1
    FieldOfView <- Lenses
    TrackRateBound = 1
    GyroCoupling = 0
    CameraSwitchFrames = 2
    Geopoints = {"g1"}
    Platforms = {"p1", "p2"}
    InverseGeopoint <- Seen
    Commands <- CameraCommands
    TurnBound = 3
    FaultKinds = {}
INVARIANTS
    FovCurrent
PROPERTIES
    BlackoutEnds
    EventuallySettles
