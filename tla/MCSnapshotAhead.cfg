SPECIFICATION PowerSpec
CONSTANTS
    Ids = {1, 2, 3}
    Traders = {1, 2}
    MinPrice = 1
    MaxPrice = 1
    MaxQty = 2
    Capacity = 2
    NoPrice = NoPrice
    InitialSize = 16
    MaxCells = 12
    PageCells = 12
    Requests <- MCRequests
    Now = 7
    NameBase = 2
    NameWidth = 1
    SnapshotInterval = 2
    MaxCommands = 3
    MaxFaults = 2
INVARIANT RecoveryRestoresBook
CHECK_DEADLOCK FALSE
