SPECIFICATION FillSpec
CONSTANTS
    Item = {"bank"}
    Urls <- SavedUrls
    Origin <- Origins
    PublicSuffix <- Suffixes1
    Query = {"", "q"}
    MaxDocs = 2
    MaxSearches = 2
    MaxFills = 2
    None = None
CHECK_DEADLOCK FALSE
INVARIANTS
    FillsBelong
PROPERTIES
    ListFollowsLatest
