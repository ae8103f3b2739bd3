SPECIFICATION Spec
CONSTANTS
    NoRow = NoRow
    TicksPerSecond = 2
    TaxRate = 35
    CaBal = 50
    BasePrice = 12
    Impls = {"client", "c"}
    Compared = {"client", "c"}
    OrderKinds <- MCOrderKinds
    MaxTrades = 3
    MaxQty = 2
    LoadedLots <- MCLoadedLots
CHECK_DEADLOCK FALSE
INVARIANTS SameFrameOutput
