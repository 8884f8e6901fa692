SPECIFICATION Spec
CONSTANTS
    kWordBits = 2
    kL1Count = 2
    base_price_ = 0
    capacity = 2
    Levels <- MCLevels
    NULL = NULL
    id1 = id1
    id2 = id2
    id3 = id3
    id4 = id4
    OrderId = {id1, id2, id3}
    Quantity = {0, 1, 2}
SYMMETRY IdSymmetry
VIEW BookView
CHECK_DEADLOCK FALSE
PROPERTIES
    RejectedCallChangesNothing
