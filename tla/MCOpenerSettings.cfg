\* Two overlapping tasks, two changes of the configuration.
CONSTANTS
    NoTask = NoTask
    NoSound = NoSound
    Tasks = {t1, t2}
    Bits = {1}
    Sounds = {1, 2}
    MaxCount = 2
SPECIFICATION FairSpec
INVARIANTS
    TypeOK
    ConfigFollowsCount
PROPERTIES
    UndisturbedChangeKeepsOthers
    UpdateEnds
