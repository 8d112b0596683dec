SPECIFICATION Spec
CONSTANTS
    Sync1 = 3
    Sync2 = 2
    Modulus = 5
    ByteSpace = 7
    Ids = {1}
    Payloads <- MCPayloads
    CleanNoise <- MCCleanNoise
    FalseSyncs <- MCFalseSyncs
    MaxPieces = 3
INVARIANTS
    ChunkingIrrelevant
    FramesDelivered
    SwapsNoticed
CHECK_DEADLOCK FALSE
