SPECIFICATION Spec
CONSTANTS
    Streams = {"link", "dubbo"}
    Format <- MCFormat
    Size = 6
    HalfWord = 1
    Word = 1
    DoubleWord = 2
INVARIANTS
    BufferOwnedOnce
    NothingMixedUp
    NoFrameLeft
    StarvedNeedsLongField
PROPERTIES
    EveryFrameDelivered
CHECK_DEADLOCK FALSE
