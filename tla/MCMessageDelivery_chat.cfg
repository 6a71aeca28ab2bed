\* Three messages, one more than a prompt takes, with failing runs and sends.
CONSTANTS
    MaxMessages = 3
    MaxPerPrompt = 2
    MaxRetries = 1
    MaxTimers = 1
    MaxRestarts = 0
    SendsMayFail = TRUE
    StepsMayFail = TRUE
SPECIFICATION Spec
INVARIANTS TypeOK Accounted  RepliedTwice
CHECK_DEADLOCK FALSE
