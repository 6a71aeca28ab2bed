\* Two groups share a slot; follow-ups keep one of them busy.
CONSTANTS
    Groups = {g1, g2}
    Tasks = {t1}
    Texts = {m1}
    Quiet = {g2}
    NoTask = NoTask
    MaxConcurrent = 1
    MaxRetries = 0
    MaxTimers = 0
    WritesMayFail = FALSE
    CallbacksMayFail = FALSE
    MaxOutputs = 1
SPECIFICATION PromptSpec
PROPERTIES TaskPreempts WaitersRun
CHECK_DEADLOCK FALSE
ACTION_CONSTRAINT QuietStaysQuiet
