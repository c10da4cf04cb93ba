SPECIFICATION FairSpec
CONSTANTS
    Main = main
    Goroutine = {main, h1, h2}
    None = None
    Key <- LockKeys
    m1 = m1
    m2 = m2
    Market = {m1, m2}
    Listed <- OneListed
    Leaves <- SavedLeave
    MaxEvents = 3
    MaxFaults = 1
CHECK_DEADLOCK FALSE
INVARIANTS
    TypeOK
    NoFatalUnlock
    
PROPERTIES
    ImplementsLocks
    
    EverythingReturns
