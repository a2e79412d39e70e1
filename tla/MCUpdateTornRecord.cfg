CONSTANTS
    Names = {a}
    Versions = {v1, v2}
    v1 = v1
    v2 = v2
    NoVersion = NoVersion
    Blocks <- MCBlocks
    MaxBlocks = 2
    MaxFaults = 2
    Garbage <- MCGarbage
    MaxReplace = 2
    AtomicCopy = FALSE
SPECIFICATION Spec
INVARIANT RecordTruthful
CHECK_DEADLOCK FALSE
