SPECIFICATION Spec
CONSTANTS
    u1 = u1
    u2 = u2
    u3 = u3
    e1 = e1
    None = None
    Users = {u1, u2}
    Evictors = {e1}
    Requests = {"resume"}
    MaxRequests = 1
    MaxTime = 2
    Timeouts = {1}
    MaxInstanceLength = 2
    StaleCutoff = 0
    AutoPauses = {TRUE, FALSE}
    Crashable = {}
    Cancellable = {}
    NodeFails = FALSE
    RedisFails = FALSE
    TTLCovers = TRUE
INVARIANTS OneCreator
