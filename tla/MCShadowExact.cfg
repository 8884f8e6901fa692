SPECIFICATION WorkloadSpec
CONSTANTS
    kWordBits = 3
    kL1Count = 2
    base_price_ = 1
    capacity = 5
    Levels <- MCLevels
    NULL = NULL
    OrderId <- MCOrderId
    Quantity = {1, 2}
    SeedEvents = 2
    WarmupEvents = 1
    batch_size = 2
    Rolls = {"limit", "cancel", "modify", "market"}
    Offsets = {1}
    AddQuantity = {1, 2}
    Deltas = {1}
    ModifyQuantity = {2}
    ClusterSizes = {2}
    ClusterReach = 1
    DefaultAsk = 4
CHECK_DEADLOCK FALSE
INVARIANTS
    ShadowExact
