SPECIFICATION ArenaSpec
CONSTANTS
    Ids = {i1, i2, i3, i4}
    Traders = {t1}
    MinPrice = 1
    MaxPrice = 2
    MaxQty = 3
    Capacity = 3
    NoPrice = NoPrice
    ARENA_NULL = ARENA_NULL
VIEW WithoutStaleSlots
SYMMETRY IdSymmetry
INVARIANT LevelQtyIsTotal
CHECK_DEADLOCK FALSE
