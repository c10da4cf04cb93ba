SPECIFICATION BookSpec
CONSTANTS
    w1 = w1
    w2 = w2
    p1 = p1
    Worker = {w1, w2}
    Process = {p1}
    ProcessOf <- OneProcess
    Books <- AllBooks
    Unreadable = {}
    MaxHeight = 3
    MaxFaults = 0
    Client = {c1}
    Depths = {1, 2}
    MaxQueries = 0
CHECK_DEADLOCK FALSE
INVARIANT
    RestsOnLatest
