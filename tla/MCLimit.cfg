SPECIFICATION FairSpec
CONSTANTS
    u1 = u1
    u2 = u2
    u3 = u3
    s1 = s1
    s2 = s2
    None = None
    Users = {u1, u2, u3}
    Crashable = {u1}
    Sids = {s1, s2}
    Limit = 1
    TTLCovers = TRUE
INVARIANTS TypeOK WithinLimit CreatorHoldsSlot WaitersToldTruth
PROPERTIES CrashedSlotFreed
