CONSTANTS
    NumChains = 2
    InputCap = 4
    ReceiveCap = 1
    PullCap = 1
    MaxMsgs = 3
    MaxCRS = 1
SPECIFICATION FairSpec
INVARIANT TypeOK
INVARIANT AgreementsEndBeforeOutputCloses
INVARIANT NoSendOnClosedChannel
PROPERTY ShutdownEnds
CHECK_DEADLOCK FALSE
