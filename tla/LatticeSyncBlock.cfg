\* Every chain of up to 4 blocks over rounds 0..2, every config history.
CONSTANTS
    MaxBlocks = 4
    MaxRound = 2
    Configs = {c1, c2}
    ConfigRoundShift = 1
SPECIFICATION Spec
INVARIANT TypeOK
INVARIANT FoundIsSyncBlock
INVARIANT DeliverSetTailInStableRound
PROPERTY WalksEnd
CHECK_DEADLOCK FALSE
