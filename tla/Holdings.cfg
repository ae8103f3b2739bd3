SPECIFICATION Spec
CONSTANTS
    NoRow = NoRow
    TicksPerSecond = 2
    Impl = "plpgsql"
    MaxTrades = 2
    MaxQty = 3
    iMaxRetries = 1
    Loaded <- MCLoaded
CHECK_DEADLOCK FALSE
INVARIANTS TypeOK SummaryIsSum OneSided HistoryIsLedger
PROPERTIES ValuesAreSerial TradesEnd
