SPECIFICATION FairWorkloadSpec
CONSTANTS
    kWordBits = 2
    kL1Count = 2
    base_price_ = 1
    capacity = 7
    Levels <- MCLevels
    NULL = NULL
    OrderId <- MCOrderId
    Quantity = {1, 2}
    SeedEvents = 3
    WarmupEvents = 0
    batch_size = 4
    Rolls = {"limit", "cancel"}
    Offsets = {1}
    AddQuantity = {1}
    Deltas = {1}
    ModifyQuantity = {1}
    ClusterSizes = {2}
    ClusterReach = 2
    DefaultAsk = 3
CHECK_DEADLOCK FALSE
PROPERTIES
    ReplayRepeats
    WorkloadEnds
