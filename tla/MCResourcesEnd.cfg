SPECIFICATION FairSpec
CONSTANTS
    x1 = x1
    x2 = x2
    s1 = s1
    s2 = s2
    None = None
    Sandboxes = {x1, x2}
    Slots = {s1}
    NewCap = 1
    ReusedCap = 1
    Custom = {x1}
    NetFails = TRUE
    Devs = {0}
    DevCap = 1
    DevFails = TRUE
    Shutdown = FALSE
INVARIANTS DevicesExclusive
PROPERTIES EverythingReturned
CHECK_DEADLOCK FALSE
