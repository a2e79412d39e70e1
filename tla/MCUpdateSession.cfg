CONSTANTS
    Names = {a, b}
    Versions = {v1, v2}
    v1 = v1
    v2 = v2
    NoVersion = NoVersion
    Blocks <- MCBlocks
    MaxBlocks = 3
    MaxFaults = 3
    Garbage <- MCGarbage
    MaxReplace = 2
    AtomicCopy = TRUE
CONSTRAINT FewFaultsAstray
SPECIFICATION Spec
INVARIANTS TypeOK WritesInPlace RecordTruthful NeverCorrupt
PROPERTY TransferSpec
CHECK_DEADLOCK FALSE
