SPECIFICATION Spec
CONSTANTS
    Threads = {t1, t2}
    iConnections = 2
    NoSocket = NoSocket
CHECK_DEADLOCK FALSE
INVARIANTS TypeOK PoolSound DestroyedQuiescent ReplyMatchesRequest
PROPERTIES RequestsFinish DestructorReturns
