CONSTANTS
    Addresses = {a1}
    Webhooks = {k1, k2}
    Handlers = {h1, h2}
    Names = {"hard_bounce", "soft_bounce"}
    SoftLimit = 2
    MaxFaults = 1
    MaxLifts = 0
    NoHook = NoHook
    NoAddress = NoAddress
SPECIFICATION EventsSpec
CHECK_DEADLOCK FALSE
INVARIANT StoredIsApplied
