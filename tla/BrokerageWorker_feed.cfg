SPECIFICATION Spec
CONSTANTS
    iMaxRetries = 1
    Entries = 2
    MaxMessages = 1
    Types = {"MARKET_FEED"}
CHECK_DEADLOCK FALSE
INVARIANTS FeedEntryAppliedOnce
