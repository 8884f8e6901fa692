SPECIFICATION BothSpec
CONSTANTS
    kWordBits = 2
    kL1Count = 3
    base_price_ = 0
    IsAsk = TRUE
INVARIANTS
    TypeOK
    SummaryExact
    BestIsExtreme
    NothingHidden
    EraseAssertionsHold
    SidesAgree
PROPERTIES
    EraseExposesBest
    KeepsPromise
