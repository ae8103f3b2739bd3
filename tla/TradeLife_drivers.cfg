SPECIFICATION Spec
CONSTANTS
    MaxTrades = 2
    Types = {"market", "TLB"}
    Prices = {1}
    Feeds = {f1, f2}
    Drivers = {d1, d2}
    MaxEntries = 2
    MaxRuns = 1
    iMaxRetries = 1
SYMMETRY Symmetry
INVARIANTS SentOnce SettledOnce RequestsArePending HistoryTellsStatus
PROPERTY NotSubmittedAgain
CHECK_DEADLOCK FALSE
