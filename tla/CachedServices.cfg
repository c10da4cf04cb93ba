SPECIFICATION HttpSpec
CONSTANTS
    CacheKey <- Keys
    MaxSets = 4
    Handler = {h1, h2}
    h1 = h1
    h2 = h2
    Minutes = {1, 2}
    PricesTtl = 1
    BackupTtl = 2
    CacheTtl = 1
    HealthTtl = 2
    RegistryTtl = 2
    MaxRequest = 1
    TradeTimes = {1, 3}
    MaxFaults = 1
    Horizon = 4
    Item = {i1, i2, i3}
    i1 = i1
    i2 = i2
    i3 = i3
    MaxLevel = 2
    Allowed = 1
    MinAmount = 1
SYMMETRY Symmetry
VIEW View
CHECK_DEADLOCK FALSE
INVARIANTS
    HttpTypeOK
    EntryHasTimer
    AnswersAreFresh
    HealthIsTrue
    NoPricesMeansNone
    AssetsAreFound
    TickersTellFailures
    GatheredIsTrue
