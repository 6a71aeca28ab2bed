\* One task under every edit, with crashes, hangs and failing set-ups.
CONSTANTS
    NoCopy = NoCopy
    Limits = {0, 1, 2}
    MaxRestarts = 2
    MaxCount = 3
    DeliveryMayFail = TRUE
    SetupMayFail = TRUE
SPECIFICATION FairSpec
INVARIANTS TypeOK CountExact
PROPERTIES LimitMeansLeak OncePerOccurrence DueHandled
CHECK_DEADLOCK FALSE
