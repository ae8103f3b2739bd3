SPECIFICATION Spec
CONSTANTS
    iMaxRetries = 2
    Entries = 2
    MaxMessages = 2
    Types = {"TRADE_UPDATE", "BROKER_VOLUME", "DATA_MAINTENANCE", "CUSTOMER_POSITION", "TRADE_ORDER", "TRADE_RESULT", "MARKET_FEED", "TRADE_CLEANUP", "UNKNOWN"}
CHECK_DEADLOCK FALSE
INVARIANTS TypeOK SessionClean SuccessMeansApplied FailureMeansNothingApplied
PROPERTIES RequestsAnswered
