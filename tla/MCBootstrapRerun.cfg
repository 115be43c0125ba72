SPECIFICATION DeploySpec
CONSTANTS Commands = 4
INVARIANTS BootstrapIsWhole
CHECK_DEADLOCK FALSE
