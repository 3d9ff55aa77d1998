SPECIFICATION Spec
CONSTANTS
    None = None
    KeyIds <- OneKeyId
    PublicKeys = {"p1"}
    Dates = {1}
    Reasons = {"lost"}
    Forms = {"plain", "wide"}
    Trees <- MCLongTrees
    FirstTree <- MCFirstTree
    Versions <- MCLateVersions
    MaxCommits = 4
    TidyTags = TRUE
INVARIANT PublishedKeysMoveForward ReleasesInHistory
CHECK_DEADLOCK FALSE
