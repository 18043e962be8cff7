SPECIFICATION FairSpec
CONSTANTS
    u1 = u1
    u2 = u2
    e1 = e1
    sync = sync
    Users = {u1}
    Evictors = {e1}
    Syncers = {sync}
    MaxItems = 3
    None = None
    Requests = {"kill", "resume"}
    MaxRequests = 1
    MaxExec = 2
    NodeFails = TRUE

PROPERTIES ListedIsStored DeadIsRemoved SyncSparesNew
