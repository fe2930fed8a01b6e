CONSTANTS
    h1 = h1
    k1 = k1
    Addresses = {a1}
    Webhooks = {k1, k2}
    Handlers = {h1, h2}
    Names = {"hard_bounce", "complaint", "soft_bounce", "open"}
    SoftLimit = 2
    MaxFaults = 1
    MaxLifts = 1
    NoHook = NoHook
    NoAddress = NoAddress
    Sweepers = {s1, s2}
    Kinds <- MCKinds
    NightOf <- MCNightOf
    RetryLimit = 1
    MaxNight = 2
SPECIFICATION MCSpec
CHECK_DEADLOCK FALSE
INVARIANTS CauseIsEarned SoftRunIsNoticed MailedOnce ClaimsAreKept
PROPERTIES OnlyWillingReaders NothingAfterABounce VerdictsSuppress DueReadersAreMailed
