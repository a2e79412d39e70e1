CONSTANTS
    Loads <- LightLoads
    Quota = 1
    ShReaders = {r1, r2}
    ShPage = 3
    ShRing = 3
    MaxTime = 3
    SpWriters = {w1, w2}
    SpPage = 3
    MaxBytes = 5
    SbUsers = {u1, u2}
    SbSectors = 4
    SbData = {0, 1}
SYMMETRY Alike
SPECIFICATION DriversSpec
INVARIANTS BuffersConserved LinesInOrder DriverSleepersNotForgotten DiskKept
CHECK_DEADLOCK FALSE
