\* Two changes, so that one can come between an answer and its use, and two actions.
CONSTANTS
    MaxVersion = 2
    MaxActions = 2
SPECIFICATION FairSpec
INVARIANTS
    TypeOK
    FlaggedBeaconIsKept
    SignalIsCurrent
    ActionShown
PROPERTIES
    ChangeIsFetched
CHECK_DEADLOCK FALSE
