SPECIFICATION KeyedSpec

CONSTANTS
    k1 = k1
    k2 = k2
    Keys = {k1, k2}
    EmptyKey = EmptyKey
    KeyLists <- FewLists
    MaxRetries = 3
    BaseBackoffs = {0, 2, 5}
    StatusCodes = {200, 404, 429, 503}
    NoResponse = NoResponse

INVARIANTS
    TypeOK
    BodiesClosed
    AttemptsAccounted
    RetriedForCause
    BackoffGrows
    MarkedInTurn
    CancelledSoon
CHECK_DEADLOCK FALSE
