SPECIFICATION CaSpec
CONSTANTS
    Addrs <- MCAddrs
    Size <- MCSize
    MaxRequests = 3
INVARIANTS
    MemorySound
    OnlyResultsLeak
VIEW MCView
CHECK_DEADLOCK FALSE
