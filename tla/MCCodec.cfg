SPECIFICATION CodecSpec
CONSTANTS
    Base = 8
    Ids <- MCIds
    Texts <- MCTexts
    NL = NL
    Quote = Quote
    NoValue = NoValue
    Failed = Failed
    Other = Other
    Magic = Magic
    c1 = c1
    c2 = c2
INVARIANTS
    IdSurvives
    ProviderSeesCall
    BufferFilled
    ValueAnswered
