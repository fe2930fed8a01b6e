CONSTANTS
    Routes = {"cat", "title", "page"}
    Param <- MCParam
    Word <- MCWord
    RawCategory <- MCRawCategory
    Titles = {"title"}
    DefaultCategory = "anime"
    PageCount = 2
SPECIFICATION SearchSpec
CHECK_DEADLOCK FALSE
INVARIANT BreakdownIsOfTheSearch
