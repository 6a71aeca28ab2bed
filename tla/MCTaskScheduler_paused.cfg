\* One task, no failures: users only change it while it waits in the queue.
CONSTANTS
    NoCopy = NoCopy
    Limits = {0}
    MaxRestarts = 0
    MaxCount = 3
    DeliveryMayFail = FALSE
    SetupMayFail = FALSE
SPECIFICATION Spec
PROPERTIES PausedStaysPaused
CHECK_DEADLOCK FALSE
