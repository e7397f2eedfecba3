\* Two overlapping updates or strikes; a read returns fewer entries than the
\* log may hold.
CONSTANTS
    NoTask = NoTask
    Tasks = {t1, t2}
    LogCount = 2
    MaxLog = 3
SPECIFICATION Spec
SYMMETRY Symmetry
INVARIANTS
    TypeOK
    LogRingsFireOnceInOrder
    TransitionRingsFireOnce
