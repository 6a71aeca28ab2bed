\* Two messages; no restart, and only agents fail.
CONSTANTS
    MaxMessages = 2
    MaxPerPrompt = 2
    MaxRetries = 1
    MaxTimers = 1
    MaxRestarts = 0
    SendsMayFail = FALSE
    StepsMayFail = FALSE
SPECIFICATION Spec
INVARIANTS CommandOnce
CHECK_DEADLOCK FALSE
