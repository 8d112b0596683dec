SPECIFICATION StartSpec
CONSTANTS
    DefaultSetting <- Ones
    DefaultTable <- Lenses
    One = 1
    PerDegree = 2
    LogPerDegree <- LogRadian
    ZoomEnd = 2
    Processes = {p1, p2}
    Files <- ConfigFiles
    CommandLines <- Invocations
    Nobody = Nobody
INVARIANT
    UnknownKeysIgnored
