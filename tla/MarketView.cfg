SPECIFICATION Spec
CONSTANTS
    QuoteUnit = 1
    Deals <- MCDeals
    Lengths = {2, 4}
    Limits = {0, 1, 2}
    DefaultLimit = 3
    IntervalLength = 2
    Tickers = 5
    Births = {3}
    MaxOrders = 3
    Horizon = 7
CHECK_DEADLOCK FALSE
INVARIANTS
    TypeOK
    PricesAreRight
    VolumesAreSums
    LengthsAgree
    SeriesIsWhole
    TickerIsRecent
