SPECIFICATION FairSpec
CONSTANTS
    h1 = h1
    h2 = h2
    h3 = h3
    s1 = s1
    s2 = s2
    None = None
    Handlers = {h1, h2}
    Sids = {s1, s2}
    Ops = {"create", "resume", "delete", "pause", "checkpoint"}
    MaxCalls = 2
    MaxInstances = 2
    MaxRunning = 1
    MaxStarting = 1
    AcquireTimesOut = FALSE
    ExportTimesOut = FALSE
    LaunchFails = FALSE
    Crashes = TRUE
    SerialAPI = TRUE
INVARIANTS TypeOK NoLeak
PROPERTIES DeadIsCleaned CallsReturn
