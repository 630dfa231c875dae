SPECIFICATION FairSpec
CONSTANTS
    Devices = {1, 2}
    max_retries = 10
    MaxInterrupts = 2
INVARIANTS TypeOK CallbacksReady NotifyingMeasures HandlesTracked FaultsExplained ExitsClean SuccessIsEarned
PROPERTIES SetupFinishes InterruptEnds ImplementsSessions
CHECK_DEADLOCK FALSE
