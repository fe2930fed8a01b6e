CONSTANTS
    Segments = {s1}
    Texts = {ja1}
    Statuses = {"ACTIVE"}
    Editors = {}
    Parsers = {p1}
    Indexers = {i1, i2}
    Ops = {"upload"}
    MaxAt = 0
    MaxEdits = 1
    MaxFaults = 0
    NoTokens = NoTokens
    NoRow = NoRow
    NoEditor = NoEditor
    NoText = NoText
SPECIFICATION FairSpec
CHECK_DEADLOCK FALSE
PROPERTY IndexCatchesUp
