SPECIFICATION Spec
CONSTANTS
    Keys = {"HUMIDITY"}
    UlongKeys = {"HUMIDITY"}
    Periods = {0, 2}
    Samples = {1, 4, 7}
    MaxCopies = 2
    MaxTimes = 3
    MaxClock = 4
    MaxSlips = 1
    RoundsLow <- MCRoundsLow
INVARIANTS TypeOK WindowsConsistent ReportWithinWindow AverageLagsMean ReportsSpaced
PROPERTIES DeadlineFixed
CHECK_DEADLOCK FALSE
