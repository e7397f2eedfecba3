\* Two calls, each with two rounds of at most two attempts.
CONSTANTS
    NumCalls = 2
    RequestAttempts = 2
    QueueCap = 1
    MaxNonces = 4
    MaxNotifications = 2
SPECIFICATION Spec
INVARIANT
    CompletionIsOwn
CHECK_DEADLOCK FALSE
