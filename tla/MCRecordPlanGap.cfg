SPECIFICATION Spec
CONSTANTS
    None = None
    MaxReplaced = 2
    Assertions = {}
    Tallies <- MCTallies
INVARIANT PlanGapOnlyInPlan
CHECK_DEADLOCK FALSE
