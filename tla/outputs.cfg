SPECIFICATION Spec
CONSTANTS
    Unset = Unset
    DbFilenames = {"x.db", "y.db"}
    Resolutions = {300}
    MaxLoads = 3
    FileTypes = {"file"}
    DbTypes = {"db"}
    Times = {1, 2}
    MaxSent = 2
    Files <- MCFiles
    EarlierRows <- MCEarlierRows
INVARIANTS TypeOK OutputsMatch ConnectableSound OwnOutput LossExplained AllClosed FaultsExplained
PROPERTIES ImplementsLog
CONSTRAINT Representative
CHECK_DEADLOCK FALSE
