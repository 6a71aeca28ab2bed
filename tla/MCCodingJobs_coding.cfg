\* One job.
CONSTANTS
    Calls = {c1, c2}
    Attempts = {a1, a2}
    NoAttempt = NoAttempt
    Requests <- SomeRequests
    Fallbacks = {"cursor", "devin"}
    MaxHistory = 6
    MaxUpsets = 0
    MaxRevertAsks = 1
CONSTRAINT FewUpsets
ACTION_CONSTRAINT RevertsLater
SPECIFICATION FairSpec
INVARIANTS TypeOK NothingUnapproved RecordAttended ProcessesLeased
PROPERTIES OutdatedLeavesNoTrace JobsSettle
CHECK_DEADLOCK FALSE
