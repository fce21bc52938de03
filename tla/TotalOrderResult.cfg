CONSTANTS
    Validators = {v1, v2}
    Hashes = {h1, h2, h3}
SPECIFICATION FairSpec
INVARIANT TypeOK
INVARIANT StatusCountsArrivals
PROPERTY ImplementsLog
PROPERTY AllVerified
