SPECIFICATION Spec
CONSTANTS
    BlockCount = 5
    Repeat = 2
    RandomValidatorCounts = {3, 4}
    RandomPhi = 2
    RandomKs = {0}
INVARIANT TypeOK
INVARIANT TestsPass
INVARIANT EveryOrderDeliversAsTested
INVARIANT UnitTestsPass
INVARIANT OrderingsAgree
