SPECIFICATION Spec
CONSTANTS
    None = None
    MaxReplaced = 2
    Assertions <- OneAssertion
    Tallies <- MCTallies
INVARIANT
    PassMeansCarriedOut PassLeavesNothingOut UnreadStateStaysOpen CausesStayListed
    NeverBetterThanRecount
PROPERTY NeverCured ImplementsLadder
CHECK_DEADLOCK FALSE
