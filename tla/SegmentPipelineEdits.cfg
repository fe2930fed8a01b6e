CONSTANTS
    Segments = {s1, s2}
    Texts = {ja1, ja2}
    Statuses = {"ACTIVE"}
    Editors = {e1, e2}
    Parsers = {p1, p2}
    Indexers = {i1}
    Ops = {"create", "upload", "reupload", "update", "restore", "moderate"}
    MaxAt = 1
    MaxEdits = 3
    MaxFaults = 1
    NoTokens = NoTokens
    NoRow = NoRow
    NoEditor = NoEditor
    NoText = NoText
SPECIFICATION MCSpec
CHECK_DEADLOCK FALSE
INVARIANTS TokensDescribeTheSentence SearchServesWhatWasSaved
PROPERTY ImplementsRevisionLog
SYMMETRY Symmetry
