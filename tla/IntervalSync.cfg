SPECIFICATION FairSpec
CONSTANTS
    w1 = w1
    w2 = w2
    p1 = p1
    p2 = p2
    Worker = {w1, w2}
    Process = {p1}
    ProcessOf <- OneProcess
    Trades = 3
    Lengths = {1, 2}
    RowLimits = {2, 4}
    SaveBatch = 2
    MarkBatch = 2
    MaxFaults = 1
INVARIANTS
    TypeOK
    OnlyFailedWritesMiss
PROPERTIES
    NeverShrinks
    CallAggregates
