SPECIFICATION Spec
CONSTANTS
    a1 = a1
    s1 = s1
    t1 = t1
    t2 = t2
    t3 = t3
    none = none
    k1 = k1
    k2 = k2
    NoKey = none
    MaxAdded = 2
    Securities = {1, 2, 3, 4, 5, 6, 7}
    Unset = Unset
    Null = Null
    Hole = Hole
    MaxRows = 3
    Accounts = {a1}
    Symbols = {s1}
    Loaded = {t1}
    MaxUpdates = {0, 2}
    MaxTrades = {2, 3}
    Trade <- MCTrade
    FirstDts <- MCFirstDts
    IdLists <- MCIdLists
    Windows <- MCWindows
    HoldingHistory <- MCHoldingHistory
    TaxRates <- MCTaxRates
    CommissionRate <- MCCommissionRate
    LoadedRows <- MCLoadedRows
INVARIANTS TypeOK SameFrameOutput SameTables RowsDescribeTrades CountsAreHonest MoneyAddsUp
