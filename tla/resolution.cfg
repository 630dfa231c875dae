SPECIFICATION Spec
CONSTANTS
    Unset = Unset
    DbFilenames = {"x.db", "y.db"}
    Resolutions = {300}
    MaxLoads = 1
    FileTypes = {"file"}
    DbTypes = {"db"}
    Times = {1, 2}
    MaxSent = 2
    Files <- MCFiles
    EarlierRows <- MCEarlierRows
INVARIANTS PeriodIsResolution
CHECK_DEADLOCK FALSE
