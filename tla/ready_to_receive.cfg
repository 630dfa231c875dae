SPECIFICATION Spec
CONSTANTS
    Devices = {1, 2}
    max_retries = 10
    MaxInterrupts = 2
INVARIANT ReadyToReceive
CHECK_DEADLOCK FALSE
