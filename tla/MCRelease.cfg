SPECIFICATION Spec
CONSTANTS
    None = None
    KeyIds <- OneKeyId
    PublicKeys = {"p1"}
    Dates = {1}
    Reasons = {"lost"}
    Forms = {"plain", "wide"}
    Trees <- MCTrees
    FirstTree <- MCFirstTree
    Versions <- MCVersions
    MaxCommits = 3
    TidyTags = TRUE
PROPERTY FreshMergeKeepsHistory ImplementsTrustChain
CHECK_DEADLOCK FALSE
