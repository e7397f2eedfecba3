\* Two reads of two entries, in indications of two or eight units; one indication and
\* one link are lost.
CONSTANTS
    Header = 2
    MaxBuffer = 12
    Noise = {1, 2, 20}
    Indications = {2, 8}
    Attempts = 2
    Count = 2
    MaxReads = 2
    MaxLosses = 1
    MaxDrops = 1
    MaxLog = 3
SPECIFICATION FairSpec
INVARIANTS
    TypeOK
    ReadReturnsOwnEntries
    NothingMissedSilently
    WholeStreamIsReadable
PROPERTIES
    ReadEnds
CHECK_DEADLOCK FALSE
