CONSTANTS
    p1 = p1
    p2 = p2
    q1 = q1
    q2 = q2
    r1 = r1
    Runners = {p1, p2}
    Segments = {1, 2}
    PageSize = 1
    MaxIndex = 3
    MaxEdits = 2
    MaxFailures = 1
    Ids = {k1, k2, k3}
    k1 = k1
    k2 = k2
    k3 = k3
    ttlMs = 2
    inflightTimeoutMs = 2
    maxEntries = 1
    MaxFetches = 4
    Forks = {p1, p2}
    Browsers = {q1, q2}
    Fetches = {r1}
    TTL_MS = 1
    MaxWrites = 1
    Procs = {p1, p2}
    Requests = {q1, q2}
    Limits = {1}
    NoLimit = NoLimit
    AUTH_TTL = 1
    MaxVersion = 1
    MaxAnswers = 3
    Routes = {"cat", "title", "sorted", "drama", "dog", "page"}
    Param <- MCParam
    Word <- MCWord
    RawCategory <- MCRawCategory
    Titles = {"title"}
    DefaultCategory = "anime"
    PageCount = 2
    clip1 = clip1
    clip2 = clip2
    tube = tube
    Clips = {clip1, clip2, tube}
    YouTube = {tube}
    Lists <- MCLists
    MaxBlobs = 2
SPECIFICATION MCSpec
SYMMETRY Alike
CHECK_DEADLOCK FALSE
INVARIANTS
    AliasIsServed CallsKeepApart WritesShow StaleForAMinute
    ChangesShow QuotaHolds ListIsOneSearch PageIsOfTheAddress NothingLeftSpinning
    OneVoice ButtonTellsTheTruth BlobsAreReleased
PROPERTIES RollbackServesWhatWasServed ExpansionIsHeard
