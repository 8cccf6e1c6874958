SPECIFICATION GwLiveSpec
CONSTANTS
    RingCapacity = 2
    MaxRequests = 6
INVARIANTS
    GwTypeOK
    EachCommandOnce
    NothingLeftBehind
    MatcherOutlivesPushes
PROPERTIES
    EveryCommandProcessed
    ClientGoneEndsRun
