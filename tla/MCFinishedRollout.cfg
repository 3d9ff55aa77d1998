\* A stateful set that is set back to the revision it was leaving.
SPECIFICATION ReadingSpec
CONSTANTS
    Unread = Unread
    Kind = {"stateful_set"}
    PodTemplates <- MCPodTemplates
    Image = "image"
    AcceptedBuilds <- MCAcceptedBuilds
    Replicas = {1, 2}
    MaxGeneration = 3
    MaxPods = 2
INVARIANT FinishedCountsNoOtherPod
CHECK_DEADLOCK FALSE
