SPECIFICATION MatchSpec
CONSTANTS
    Ids = {i1, i2, i3, i4}
    Traders = {t1, t2}
    MinPrice = 1
    MaxPrice = 2
    MaxQty = 2
    Capacity = 3
    NoPrice = NoPrice
INVARIANT RefusedMeansNoTrade
SYMMETRY IdAndTraderSymmetry
