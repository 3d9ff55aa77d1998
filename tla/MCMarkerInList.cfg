CONSTANTS
    Assertions <- MCAssertions
    Expressions <- MCExpressions
    Depth <- MCDepth
    MaxDepth = 8
    Places <- MCPlaces
    Json <- MCJson
    Plain <- MCPlain
    Reveals <- MCReveals
    Subjects <- MCSubjects
    Holes <- MCHoles
SPECIFICATION Spec
INVARIANT PredicateThatReachesAMarkerIsUnknown
CHECK_DEADLOCK FALSE
