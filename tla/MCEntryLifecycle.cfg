\* Two clients, two pairings, a lost link before and after; two changes of the options, one
\* of the doorbell preference.
CONSTANTS
    Attempts = 2
    MaxPairs = 2
    MaxDrops = 1
    None = None
    Clients = {"first", "second"}
    Pins = {1, 2}
    Pin = 1
    MaxOptions = 2
    MaxChoices = 1
SPECIFICATION FairSpec
INVARIANTS
    CredentialsWork
    NoLinkLeft
    OptionsInEffect
    RingsSilenced
PROPERTIES
    EntryLoads
CHECK_DEADLOCK FALSE
