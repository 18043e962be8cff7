SPECIFICATION FairSpec
CONSTANTS
    u1 = u1
    u2 = u2
    u3 = u3
    e1 = e1
    None = None
    Users = {u1, u2}
    Evictors = {}
    Requests = {"kill", "pause", "snapshot", "keepalive", "resume"}
    MaxRequests = 1
    MaxTime = 0
    Timeouts = {1}
    MaxInstanceLength = 2
    StaleCutoff = 0
    AutoPauses = {FALSE}
    Crashable = {u1}
    Cancellable = {u1, u2}
    NodeFails = TRUE
    RedisFails = TRUE
    TTLCovers = TRUE
INVARIANTS OwnerKeepsKey TransitionInv
PROPERTIES  Implements PauseAnswerIsTrue
