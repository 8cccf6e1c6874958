SPECIFICATION CodecSpec
CONSTANTS
    Ids = {1}
    Traders = {1}
    MinPrice = 1
    MaxPrice = 1
    MaxQty = 1
    Capacity = 1
    NoPrice = NoPrice
    ByteBase = 4
    Messages <- MCMessages
    MaxMessages = 2
    Reports <- MCReports
    MaxReports = 2
    Now = 7
INVARIANTS
    PushesWholeMessages
    OutcomeIsFirstError
    RoundTrip
    EncodingIsPure
CHECK_DEADLOCK FALSE
