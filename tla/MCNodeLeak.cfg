SPECIFICATION Spec
CONSTANTS
    h1 = h1
    h2 = h2
    h3 = h3
    s1 = s1
    s2 = s2
    None = None
    Handlers = {h1, h2}
    Sids = {s1, s2}
    Ops = {"create", "resume", "delete", "pause", "checkpoint"}
    MaxCalls = 2
    MaxInstances = 3
    MaxRunning = 2
    MaxStarting = 1
    AcquireTimesOut = TRUE
    ExportTimesOut = TRUE
    LaunchFails = FALSE
    Crashes = FALSE
    SerialAPI = TRUE
SYMMETRY Symmetry
INVARIANTS NoLeak
