CONSTANTS
    Producers = {p1, p2}
    Consumers = {c1}
    Goods = {a, b}
    NoGood = NoGood
    N = 2
    MaxKills = 1
    PhNum = 3
    SEMAEM = 1
    MaxKilled = 1
SPECIFICATION ProcessesSpec
INVARIANTS ShelvesKept ForksKept
PROPERTY NobodyStarves
CHECK_DEADLOCK FALSE
