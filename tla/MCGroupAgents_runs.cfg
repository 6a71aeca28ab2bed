\* Safety: two groups share one slot.
CONSTANTS
    Groups = {g1, g2}
    Tasks = {t1}
    Texts = {m1}
    Quiet = {}
    NoTask = NoTask
    MaxConcurrent = 1
    MaxRetries = 0
    MaxTimers = 0
    WritesMayFail = TRUE
    CallbacksMayFail = TRUE
    MaxOutputs = 1
SYMMETRY GroupSymmetry
SPECIFICATION AgentsSpec
INVARIANTS AgentsTypeOK RegisteredIsAlive ContainersBounded
CHECK_DEADLOCK FALSE
