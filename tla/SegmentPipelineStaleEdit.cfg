CONSTANTS
    Segments = {s1}
    Texts = {ja1, ja2}
    Statuses = {"ACTIVE"}
    Editors = {e1}
    Parsers = {}
    Indexers = {i1}
    Ops = {"upload", "moderate"}
    MaxAt = 1
    MaxEdits = 2
    MaxFaults = 0
    NoTokens = NoTokens
    NoRow = NoRow
    NoEditor = NoEditor
    NoText = NoText
SPECIFICATION FairSpec
CHECK_DEADLOCK FALSE
PROPERTY IndexCatchesUp
