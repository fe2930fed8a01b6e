CONSTANTS
    Segments = {s1}
    Texts = {ja1, ja2}
    Statuses = {"ACTIVE"}
    Editors = {}
    Parsers = {p1}
    Indexers = {}
    Ops = {"upload", "reupload"}
    MaxAt = 0
    MaxEdits = 2
    MaxFaults = 0
    NoTokens = NoTokens
    NoRow = NoRow
    NoEditor = NoEditor
    NoText = NoText
SPECIFICATION Spec
CHECK_DEADLOCK FALSE
INVARIANT TokensDescribeTheSentence
