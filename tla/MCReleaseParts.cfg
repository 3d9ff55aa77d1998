SPECIFICATION MCSpec
CONSTANTS
    None = None
    Resources = {r1}
    UnitsPerSecond = 4
    UnitsPerMilli = 2
    MinimumInterval = 1
    MaxTime = 10
    ChangeTypes = {"iac_change", "image_release"}
    Units = {"api", "web"}
    Environments = {"production", "staging"}
    Contents = {"first", "second"}
    RunIds = {"this run", "another run"}
    MaxApprovals = 2
    MaxSteps = 4
    Modules = {"models", "stages"}
    Bytecode = {"cache"}
    FileContents = {"first", "second", "edited"}
    Shipped <- MCShipped
    OtherRecords <- MCOtherRecords
    Unread = Unread
    Kind = {"deployment", "stateful_set", "daemon_set"}
    PodTemplates <- MCPodTemplates
    Image = "image"
    AcceptedBuilds <- MCAcceptedBuilds
    Replicas = {0, 1}
    MaxGeneration = 2
    MaxPods = 2
INVARIANTS
    CarefulIsAccepted LatestReadingIsAfter
    PassIsOfTheKeptAttestation FilesDescribeTheImage HonestBuildAccepted
    PassMeansApproved
    ShippedAssertionAgrees RefusedOnlyWhenItMoved PassIsOfTheTemplateRead
PROPERTY SteadyDriftListed DigestMeansUntouched
\* A check that was made, a record that was written is not made again.
CHECK_DEADLOCK FALSE
