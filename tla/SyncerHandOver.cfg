\* Chains of 5 blocks of one round, put from the genesis block or from height 2.
CONSTANTS
    MaxBlocks = 5
    MaxRound = 0
    ConfigRoundShift = 1
    Governances <- NoChange
    FirstHeights = {1, 2}
    MaxChunk = 2
    Confirmable = {1, 4, 5}
    EmptyHeights = {}
    ChanCap = 2
    PutMayFail = FALSE
SPECIFICATION Spec
INVARIANT LatticeFedFromSyncBlock
INVARIANT GetPanicsAboveGenesisOnly
CHECK_DEADLOCK FALSE
