SPECIFICATION Spec
CONSTANTS
    MaxTrades = 2
    Types = {"market", "TLB"}
    Prices = {1, 2}
    Feeds = {f1}
    Drivers = {d1}
    MaxEntries = 1
    MaxRuns = 2
    iMaxRetries = 1
INVARIANTS TypeOK PendingHaveRequests CleanStart TestTradesNotCanceled
PROPERTIES ImplementsContract ResultsEnd
CHECK_DEADLOCK FALSE
