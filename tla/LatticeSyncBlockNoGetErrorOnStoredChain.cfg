CONSTANTS
    MaxBlocks = 3
    MaxRound = 1
    Configs = {c1, c2}
    ConfigRoundShift = 1
SPECIFICATION Spec
INVARIANT NoGetErrorOnStoredChain
CHECK_DEADLOCK FALSE
