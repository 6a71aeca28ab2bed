\* A job that is cancelled while its runner is probed.
CONSTANTS
    Calls = {c1, c2}
    Attempts = {a1}
    NoAttempt = NoAttempt
    Requests <- SomeRequests
    Fallbacks = {"cursor", "devin"}
    MaxHistory = 0
    MaxUpsets = 1
    MaxRevertAsks = 1
CONSTRAINT FewUpsets
SPECIFICATION Spec
PROPERTIES CancelledStays
CHECK_DEADLOCK FALSE
