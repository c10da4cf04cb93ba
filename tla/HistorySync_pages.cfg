SPECIFICATION HistoryFairSpec
CONSTANTS
    w1 = w1
    w2 = w2
    p1 = p1
    Worker = {w1, w2}
    Process = {p1}
    ProcessOf <- OneProcess
    Batch = 2
    Gaps <- EverySecond
    Convertible <- AllFine
    MaxTrades = 4
    MaxFaults = 0
    Client = {}
    OtherRows = {2}
    Naming = {"market_id"}
    Asked = {0, 9}
    DefaultLimit = 2
    MaxLimit = 3
INVARIANTS
    OneSyncPerProcess
PROPERTIES
    EveryCallReturns
    CallStores
    ImplementsArchive
