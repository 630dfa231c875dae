SPECIFICATION FairSpec
CONSTANTS
    Devices = {1, 2}
    max_retries = 10
    MaxInterrupts = 1
PROPERTY InterruptStops
CHECK_DEADLOCK FALSE
