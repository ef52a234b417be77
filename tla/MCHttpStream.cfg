SPECIFICATION StreamSpec
CONSTANTS
    ULLONG_MAX = 255
    HTTP_MAX_HEADER_SIZE = 54
    Streams <- MCStreams
    MaxRead = 8
INVARIANTS
    FramedAsSent
    RefusedExactly
    SplitIndependent
CHECK_DEADLOCK FALSE
