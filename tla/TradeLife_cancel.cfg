SPECIFICATION Spec
CONSTANTS
    MaxTrades = 1
    Types = {"market", "TLB"}
    Prices = {1}
    Feeds = {f1}
    Drivers = {d1, d2}
    MaxEntries = 1
    MaxRuns = 1
    iMaxRetries = 1
INVARIANT TestTradesNotCanceled
CHECK_DEADLOCK FALSE
