\* One group whose replies may fail to be sent.
CONSTANTS
    Groups = {g1}
    Tasks = {t1}
    Texts = {}
    Quiet = {}
    NoTask = NoTask
    MaxConcurrent = 1
    MaxRetries = 1
    MaxTimers = 1
    WritesMayFail = FALSE
    CallbacksMayFail = TRUE
    MaxOutputs = 1
SPECIFICATION PromptSpec
PROPERTIES ExitCompletesRun
CHECK_DEADLOCK FALSE
