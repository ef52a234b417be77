SPECIFICATION PaSpec
CONSTANTS
    Addrs <- MCAddrs
    Size <- MCSize
    MaxRequests = 2
INVARIANTS
    MemorySound
    NothingLeaks
CHECK_DEADLOCK FALSE
VIEW MCView
