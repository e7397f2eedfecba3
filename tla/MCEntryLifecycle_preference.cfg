\* A reload while the Opener is out of sight.
CONSTANTS
    Attempts = 1
    MaxPairs = 1
    MaxDrops = 0
    None = None
    Clients = {"first", "second"}
    Pins = {1}
    Pin = 1
    MaxOptions = 0
    MaxChoices = 1
SPECIFICATION Spec
INVARIANTS
    PreferenceRestored
CHECK_DEADLOCK FALSE
