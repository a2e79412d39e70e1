CONSTANTS
    Radix = 3
    Group = 2
    WholeDigits = 2
    PartDigits = 1
    MaxPower = 5
    Keys = {1, 2, 3, 4}
    Values = {1}
    SortKeys = {1, 2, 3}
    SortLength = 6
    Items = {1, 2, 4}
    HeapSize = 4
    TableSize = 3
    RightEnd = 5
    Points = 4
    MaxCalls = 4
    Size = 4
    DirectedSize = 3
    MaxWeight = 2
    MaxNumber = 30
    Letters = {"a", "b"}
    TextLength = 5
    PatternLength = 3
    Grid = {0, 1, 2}
    Cloud = 4
    Bytes = {0, 77, 255}
    DataLength = 7
    LineLength = 8
SPECIFICATION AlgorithmsSpec
INVARIANTS
    ArithmeticExact
    CollectionsExact
    AnswersExact
\* A computation ends with its result.
CHECK_DEADLOCK FALSE
