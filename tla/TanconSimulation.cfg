\* Every choice of flags, with and without a config file, every failure.
SPECIFICATION Spec
INVARIANT TypeOK
CHECK_DEADLOCK FALSE
