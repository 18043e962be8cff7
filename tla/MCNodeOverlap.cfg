SPECIFICATION Spec
CONSTANTS
    h1 = h1
    h2 = h2
    h3 = h3
    s1 = s1
    s2 = s2
    None = None
    Handlers = {h1, h2}
    Sids = {s1}
    Ops = {"create", "resume", "delete", "pause", "checkpoint"}
    MaxCalls = 3
    MaxInstances = 3
    MaxRunning = 2
    MaxStarting = 1
    AcquireTimesOut = TRUE
    ExportTimesOut = TRUE
    LaunchFails = TRUE
    Crashes = TRUE
    SerialAPI = FALSE
CHECK_DEADLOCK FALSE
SYMMETRY Symmetry
INVARIANTS CleanIsDead PermitsConserved
