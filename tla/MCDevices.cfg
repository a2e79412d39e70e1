CONSTANTS
    Tasks = {t1, t2}
    Byte = {1}
    Junk = 8
    Hole = 9
    Geometries <- Shapes
    MaxPos = 2
    PsTasks = {t1, t2}
    PsGeometries <- PagedShapes
    PsPages = 2
    PsMaxPos = 3
    GfTasks = {t1, t2, t3}
    GfBytes = {1, 2}
    GfSize = 2
    KfTasks = {t1, t2, t3}
    KfBytes = {1, 2}
    KfSize = 2
    CtTasks = {t1, t2, t3}
    CtBytes = {1, 2}
    CtSize = 3
CONSTRAINT Fresh
SYMMETRY Alike
SPECIFICATION DevicesSpec
INVARIANTS MemoryKept SleepersNotForgotten
PROPERTIES ScullIsFile FifosInOrder EmptyReadsExplained
CHECK_DEADLOCK FALSE
