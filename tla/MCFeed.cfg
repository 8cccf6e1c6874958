SPECIFICATION FeedSpec
CONSTANTS
    NumMod = 5
    MaxReports = 7
    MaxInFlight = 3
INVARIANTS
    FeedTypeOK
    GapsAreLosses
    NoSilentLoss
CHECK_DEADLOCK FALSE
