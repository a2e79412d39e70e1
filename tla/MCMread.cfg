CONSTANTS
    TableSize = 4
    MaxConnection = 2
    Fds = {1, 4, 5}
    Conns = {c1, c2, c3, c4}
    ReadQueue = 2
    Listen = 3
    MaxConnects = 3
    MaxFailures = 1
SYMMETRY Alike
SPECIFICATION MreadSpec
INVARIANTS ClientsKept WritesReachTheirClient
\* A server that has hung stops.
CHECK_DEADLOCK FALSE
