SPECIFICATION Spec
CONSTANTS
    Main = main
    Goroutine = {main, h1, h2}
    None = None
    Key <- LockKeys
    m1 = m1
    m2 = m2
    Market = {m1, m2}
    Listed = {}
    Leaves <- AllLeaveSome
    MaxEvents = 3
    MaxFaults = 1
CHECK_DEADLOCK FALSE
INVARIANT
    DatedInTime
PROPERTY
    NoMarketIsForgotten
