\* Every choice of flags, with and without a config file, every failure.
SPECIFICATION Spec
PROPERTY RunsOnConfigSetUp
CHECK_DEADLOCK FALSE
