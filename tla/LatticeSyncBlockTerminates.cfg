CONSTANTS
    MaxBlocks = 3
    MaxRound = 1
    Configs = {c1, c2}
    ConfigRoundShift = 1
SPECIFICATION Spec
PROPERTY Terminates
CHECK_DEADLOCK FALSE
