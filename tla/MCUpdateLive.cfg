CONSTANTS
    Names = {a}
    Versions = {v1, v2}
    v1 = v1
    v2 = v2
    NoVersion = NoVersion
    Blocks <- MCBlocks
    MaxBlocks = 3
    MaxFaults = 3
    Garbage <- MCGarbage
    MaxReplace = 1
    AtomicCopy = TRUE
CONSTRAINT InStep
SPECIFICATION FairSpec
PROPERTY EventuallyInstalled
CHECK_DEADLOCK FALSE
