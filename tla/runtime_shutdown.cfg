SPECIFICATION LiveSpec
CONSTANTS
    MaxPending = 2
    MaxConfigs = 2
PROPERTY ShutdownCompletes
CHECK_DEADLOCK FALSE
