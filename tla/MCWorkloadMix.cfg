SPECIFICATION WorkloadSpec
CONSTANTS
    kWordBits = 2
    kL1Count = 2
    base_price_ = 1
    capacity = 6
    Levels <- MCLevels
    NULL = NULL
    OrderId <- MCOrderId
    Quantity = {1, 2}
    SeedEvents = 2
    WarmupEvents = 2
    batch_size = 2
    Rolls = {"limit", "cancel", "modify", "market"}
    Offsets = {1}
    AddQuantity = {1}
    Deltas = {1}
    ModifyQuantity = {2}
    ClusterSizes = {2}
    ClusterReach = 1
    DefaultAsk = 2
CHECK_DEADLOCK FALSE
INVARIANTS
    WorkloadTypeOK
    TrackingExact
    ShadowCovers
PROPERTIES
    ReplayRepeats
    TagsTrue
