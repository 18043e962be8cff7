SPECIFICATION FairSpec
CONSTANTS
    u1 = u1
    u2 = u2
    u3 = u3
    e1 = e1
    None = None
    Users = {u1, u2}
    Evictors = {e1}
    Requests = {"snapshot", "keepalive"}
    MaxRequests = 1
    MaxTime = 1
    Timeouts = {0}
    MaxInstanceLength = 2
    StaleCutoff = 0
    AutoPauses = {TRUE}
    Crashable = {}
    Cancellable = {}
    NodeFails = TRUE
    RedisFails = FALSE
    TTLCovers = FALSE
PROPERTIES ExpiredRemoved StateChangesAllowed
