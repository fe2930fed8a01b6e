CONSTANTS
    Segments = {s1}
    Texts = {ja1, ja2}
    Statuses = {"ACTIVE", "HIDDEN", "DELETED"}
    Editors = {e1}
    Parsers = {p1}
    Indexers = {i1, i2}
    Ops = {"upload", "reupload", "update", "restore", "moderate"}
    MaxAt = 0
    MaxEdits = 3
    MaxFaults = 1
    NoTokens = NoTokens
    NoRow = NoRow
    NoEditor = NoEditor
    NoText = NoText
SPECIFICATION MCSpec
CHECK_DEADLOCK FALSE
PROPERTY UnparsedIsParsed WrongTokensAreReplaced UploadsReachTheIndex
