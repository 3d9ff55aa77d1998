SPECIFICATION MCSpec
CONSTANTS
    None = None
    Addresses = {"x", "y"}
    Keys = {"k1", "k2"}
    Documents <- MCDocuments
    Plans <- MCPlans
    MaxLost = 2
    Clouds = {"c1", "c2"}
    Supported = {"c1"}
INVARIANTS
    LeavingIsKnown NothingLostNothingUnknown CountedMeansMade
    UnreadClaimsNothingOfTheState TruthAccepted
    RemovedIsTrue TrueIdentityFits
CHECK_DEADLOCK FALSE
