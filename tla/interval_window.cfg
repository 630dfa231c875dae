SPECIFICATION FairSpec
CONSTANTS
    Keys = {"HUMIDITY", "VOC"}
    UlongKeys = {"HUMIDITY"}
    Periods = {2}
    Samples = {1, 7}
    MaxCopies = 1
    MaxTimes = 1
    MaxClock = 3
    MaxSlips = 0
    RoundsLow <- MCRoundsLow
PROPERTIES ImplementsWindows WindowCloses
CHECK_DEADLOCK FALSE
