SPECIFICATION Spec
CONSTANTS
    ULLONG_MAX = 255
    HTTP_MAX_HEADER_SIZE = 40
    Forms <- MCForms
    Framing <- MCFraming
    MaxPartial = 1
    MaxEmpty = 2
INVARIANTS
    FieldsRight
    OneCallEach
    ParserKeepsPlace
    NegativeLengthUnused
    CrashNeedsSplit
PROPERTY
    RequestAnswered
CHECK_DEADLOCK FALSE
