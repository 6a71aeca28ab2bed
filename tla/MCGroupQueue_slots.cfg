\* Safety: three groups compete for two slots, with failures and retries.
CONSTANTS
    Groups = {g1, g2, g3}
    Tasks = {t1}
    Texts = {m1}
    NoTask = NoTask
    MaxConcurrent = 2
    MaxRetries = 1
    MaxTimers = 1
    WritesMayFail = TRUE
SYMMETRY GroupSymmetry
VIEW HostView
SPECIFICATION Spec
INVARIANTS TypeOK SlotsExact WaitingSound WorkConserving NoStrandedWork NoLostMessages TaskOnce
PROPERTIES NoOvertaking ShutdownStartsNothing PoolImplemented ChecksImplemented
CHECK_DEADLOCK FALSE
