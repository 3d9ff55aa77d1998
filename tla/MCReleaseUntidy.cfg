SPECIFICATION Spec
CONSTANTS
    None = None
    KeyIds <- OneKeyId
    PublicKeys = {"p1"}
    Dates = {1}
    Reasons = {"lost"}
    Forms = {"plain", "wide"}
    Trees <- MCDroppingTrees
    FirstTree <- MCFirstTree
    Versions <- MCSeriesVersions
    MaxCommits = 3
    TidyTags = FALSE
INVARIANT PublishedKeysMoveForward
CHECK_DEADLOCK FALSE
