SPECIFICATION Spec
CONSTANTS
    MaxSlewRate = 4
    MaxAccel = 1
    PanLimit = 5
    TiltMin <- TiltFloor
    TiltMax = 1
    HalfTurn = 6
    ContinuousPan = FALSE
    GainSteps = 2
    SettleTolerance = 1
    TrackLossThreshold = 1
    ZoomSteps = 0
    FieldOfView <- OneCamera
    TrackRateBound = 4
    GyroCoupling = 0
    CameraSwitchFrames = 2
    Geopoints = {"g1"}
    Platforms = {"p1"}
    InverseGeopoint <- OnePoint
    Commands <- SlewCommands
    TurnBound = 0
    FaultKinds = {"thermal_warning", "motor_fault"}
INVARIANT
    WithinHardStops
