\* A change made in the Nuki app that a switch takes back.
CONSTANTS
    NoTask = NoTask
    NoSound = NoSound
    Tasks = {t1, t2}
    Bits = {1, 2}
    Sounds = {1}
    MaxCount = 2
SPECIFICATION Spec
PROPERTIES
    AppChangesAreKept
