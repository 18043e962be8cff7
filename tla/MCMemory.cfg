SPECIFICATION FairSpec
CONSTANTS
    u1 = u1
    u2 = u2
    e1 = e1
    sync = sync
    Users = {u1,u2}
    Evictors = {e1}
    Syncers = {}
    MaxItems = 3
    None = None
    Requests = {"pause", "kill", "snapshot", "keepalive", "resume"}
    MaxRequests = 1
    MaxExec = 2
    NodeFails = TRUE
INVARIANTS TypeOK OneOwner WaitersHaveOwners
PROPERTIES Implements RequestsReturn
CHECK_DEADLOCK FALSE
