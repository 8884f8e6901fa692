SPECIFICATION FairSpec
CONSTANTS
    RingSize = 4
    IsAsk = FALSE
    kNoPrice = kNoPrice
    NULL = NULL
    Prices = {0, 1, 2, 3, 4, 5, 6, 7}
    pool_capacity = 8
VIEW LevelView
INVARIANTS
    TiersOrdered
    SlotsInFrame
    LevelsAccountedFor
    NothingHidden
PROPERTIES
    KeepsPromise
    EraseReturns
