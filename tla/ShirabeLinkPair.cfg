CONSTANTS
    w1 = w1
    w2 = w2
    g1 = g1
    g2 = g2
    Workers = {w1, w2}
    LinkWorkers = {w1, w2}
    Grants = {g1, g2}
    MaxRenewals = 1
    MaxFaults = 1
    Ops = {"lookup", "refresh", "complete", "unlink", "reencrypt"}
    SpentRevokes = TRUE
    NoRow = NoRow
    NoPair = NoPair
    NoWorker = NoWorker
SPECIFICATION MCSpec
INVARIANTS AloneLeavesNoOrphan ReplayOnlyAfterLoss StoredPairIsNewest
PROPERTIES ImplementsLedger ReleaseSparesTheLink
SYMMETRY Symmetry
