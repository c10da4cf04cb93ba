SPECIFICATION BookFairSpec
CONSTANTS
    w1 = w1
    w2 = w2
    p1 = p1
    Worker = {w1, w2}
    Process = {p1}
    ProcessOf <- OneProcess
    Books <- AllBooks
    Unreadable = {4}
    MaxHeight = 3
    MaxFaults = 1
    Client = {c1}
    Depths = {1, 2}
    MaxQueries = 1
CHECK_DEADLOCK FALSE
INVARIANTS
    BookTypeOK
    AnswersAreWhole
PROPERTIES
    ImplementsOrderTable
    SettlesOnLatest
