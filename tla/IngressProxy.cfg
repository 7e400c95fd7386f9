SPECIFICATION FairSpec
CONSTANTS
    r1 = r1
    r2 = r2
    u1 = u1
    Request = {r1, r2}
    User = {u1}
    RequestUser <- OneUser
    ExemptUser = {}
    Upgrade = {r1}
    RequestSize = 1
    HeaderSize = 1
    ChunkSize = 1
    MaxChunks = 1
    DailyLimit = 2
    LastDay = 1
    Failing <- PlainResponse
INVARIANT NothingUnpaid
INVARIANT TrafficWithinQuota
PROPERTY DirectionsEndTogether
CHECK_DEADLOCK FALSE
