SPECIFICATION HistorySpec
CONSTANTS
    w1 = w1
    w2 = w2
    p1 = p1
    Worker = {w1, w2}
    Process = {p1}
    ProcessOf <- OneProcess
    Batch = 4
    Gaps <- SameOrNextSecond
    Convertible = {TRUE, FALSE}
    MaxTrades = 4
    MaxFaults = 2
    Client = {c1}
    OtherRows = {2}
    Naming = {"market_id"}
    Asked = {0, 9}
    DefaultLimit = 2
    MaxLimit = 3
SYMMETRY Callers
INVARIANTS
    TypeOK
    SuccessIsComplete
    NoHoles
    NoDuplicateTrades
    PagingMissesNothing
PROPERTY
    NeverForgets
