CONSTANTS
    MaxBlocks = 4
    MaxRound = 0
    ConfigRoundShift = 1
    Governances <- NoChange
    FirstHeights = {1}
    MaxChunk = 2
    Confirmable = {2, 3, 4}
    EmptyHeights = {}
    ChanCap = 2
    PutMayFail = FALSE
SPECIFICATION Spec
INVARIANT HandOverHasAllBlocks
CHECK_DEADLOCK FALSE
