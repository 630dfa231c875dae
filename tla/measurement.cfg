SPECIFICATION Spec
CONSTANTS
    Devices = {1, 2}
    Quantities <- MCQuantities
    RoundsLow <- MCRoundsLow
    PeriodOf <- MCPeriodOf
    MaxTimes = 2
    MaxReceived = 4
    MaxClock = 2
INVARIANTS TypeOK OutputIsMeasured OutputPaced
CHECK_DEADLOCK FALSE
