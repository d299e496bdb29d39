SPECIFICATION LiveSpec
CONSTANTS
    MaxPending = 2
    MaxConfigs = 2
INVARIANTS TypeOK StatusNeverAhead OneLateWrite OneLateCycle
PROPERTIES ExchangeStops JoinReturns
CHECK_DEADLOCK FALSE
