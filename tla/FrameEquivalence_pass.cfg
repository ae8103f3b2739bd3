SPECIFICATION Spec
CONSTANTS
    NoRow = NoRow
    TicksPerSecond = 2
    TaxRate = 35
    CaBal = 50
    BasePrice = 12
    Impls = {"client", "plpgsql", "c"}
    Compared = {"client", "plpgsql"}
    OrderKinds <- MCOrderKinds
    MaxTrades = 4
    MaxQty = 2
    LoadedLots <- MCLoadedLots
CHECK_DEADLOCK FALSE
INVARIANTS SameFrameOutput EstimateComesTrue
