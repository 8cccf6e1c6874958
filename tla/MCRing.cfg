SPECIFICATION RingLiveSpec
CONSTANTS
    Capacity = 4
    CursorMod = 8
    MaxItems = 20
INVARIANTS
    RingTypeOK
    NoDataRace
    DropFreesTheRest
PROPERTIES
    ImplementsQueue
    EveryItemGetsThrough
CHECK_DEADLOCK FALSE
