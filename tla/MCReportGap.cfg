SPECIFICATION ReportSpec
CONSTANTS
    None = None
    MaxReplaced = 2
    Assertions = {}
    Tallies <- MCTallies
INVARIANT EveryPropertyHasAResult
CHECK_DEADLOCK FALSE
