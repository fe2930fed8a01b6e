CHECK_DEADLOCK FALSE
CONSTANTS
    w1 = w1
    w2 = w2
    g1 = g1
    g2 = g2
    Workers = {w1, w2}
    LinkWorkers = {w1}
    Grants = {g1}
    MaxRenewals = 1
    MaxFaults = 1
    Ops = {"lookup", "refresh", "complete", "unlink", "reencrypt"}
    SpentRevokes = TRUE
    c1 = c1
    c2 = c2
    Calls = {c1, c2}
    Chunks <- MCChunks
    PARSE_CONCURRENCY = 3
    RETRY_ATTEMPTS = 2
    RecoverAfter = 2
    Times = {2, 5, 6}
    Infinity = 7
    MaxRefusals = 1
    NoRow = NoRow
    NoPair = NoPair
    NoWorker = NoWorker
SPECIFICATION MCSpec
INVARIANTS MarkedLinkIsOver SlotsAreKept LimitFollowsTheTimings
PROPERTIES EveryHandlerFinishes DeadLinkIsNoticed LimitIsKept EveryCallSettles
