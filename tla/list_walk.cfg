SPECIFICATION Spec
CONSTANTS
    NumDevices = 2
    NumMeasured = 2
    Null = Null
INVARIANTS TypeOK RaceExplained
PROPERTY SampleTaken
CHECK_DEADLOCK FALSE
