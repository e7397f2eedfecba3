\* Two calls, each with two rounds of at most two attempts.
CONSTANTS
    NumCalls = 2
    RequestAttempts = 2
    QueueCap = 1
    MaxNonces = 6
    MaxNotifications = 2
SPECIFICATION FairSpec
INVARIANTS
    TypeOK
    SettingAppliedOnce
PROPERTIES
    PromiseKept
    CallReturns
CHECK_DEADLOCK FALSE
