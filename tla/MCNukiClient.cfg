\* Three callers, two links, all three attempts, unload at any time; no symmetry,
\* as liveness is checked.
CONSTANTS
    NoTask = NoTask
    NoLink = NoLink
    Tasks = {t1, t2, t3}
    Links = {l1, l2}
    RequestAttempts = 3
    MaxRequests = 2
    StopAllowed = TRUE
SPECIFICATION FairSpec
INVARIANTS
    TypeOK
    NoLeakedLink
    OneCommandInFlight
    TimerOnlyWhenIdle
    ClientPresent
PROPERTIES
    OperationEnds
    IdleLinkCloses
    EventuallyDisconnected
CHECK_DEADLOCK FALSE
