CONSTANTS
    MaxBlocks = 4
    MaxRound = 2
    ConfigRoundShift = 1
    Governances <- AnyChange
    FirstHeights = {1}
    MaxChunk = 2
    Confirmable = {1, 2, 3, 4}
    EmptyHeights = {3}
    ChanCap = 1
    PutMayFail = TRUE
SPECIFICATION Spec
INVARIANT TypeOK
INVARIANT LatticeFedFromSyncBlock
INVARIANT TipsInRoundCut
INVARIANT ConfigsCoverAgreementRounds
INVARIANT SyncedMeansOverlap
CHECK_DEADLOCK FALSE
