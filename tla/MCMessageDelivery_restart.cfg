\* A restart of the host between any two steps, with fair scheduling.
CONSTANTS
    MaxMessages = 2
    MaxPerPrompt = 2
    MaxRetries = 1
    MaxTimers = 1
    MaxRestarts = 1
    SendsMayFail = FALSE
    StepsMayFail = TRUE
SPECIFICATION FairSpec
INVARIANTS Accounted
PROPERTIES Handled
CHECK_DEADLOCK FALSE
