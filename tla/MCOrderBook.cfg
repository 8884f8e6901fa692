SPECIFICATION Spec
CONSTANTS
    kWordBits = 1
    kL1Count = 3
    base_price_ = 0
    capacity = 3
    Levels <- MCLevels
    NULL = NULL
    id1 = id1
    id2 = id2
    id3 = id3
    id4 = id4
    OrderId = {id1, id2, id3, id4}
    Quantity = {1, 2}
SYMMETRY IdSymmetry
VIEW BookView
CHECK_DEADLOCK FALSE
INVARIANTS
    TypeOK
    NotCrossed
    NoMissedTrade
    ModifyNeverExhausts
    LinksExact
    PoolPartitioned
    OrdersAtTheirLevel
    TradesAccountedFor
