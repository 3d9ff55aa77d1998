\* Every input of a pre-deploy change with any of its facts hidden.  Two
\* arguments and two elements: enough for one operand to outweigh another.
SPECIFICATION MCSpec
CONSTANTS
    Assertions <- MCAssertions
    Expressions <- MCExpressions
    Depth <- MCDepth
    MaxDepth = 9
    Places <- MCPlaces
    Json <- MCJson
    Plain <- MCPlain
    Reveals <- MCReveals
    Subjects <- MCSubjects
    Holes <- MCHoles
    Operators <- MCOperators
    Values <- MCOperandValues
    Paths <- MCPaths
    Reasons <- MCReasons
    MaxArgs = 2
    MaxElements = 2
INVARIANTS
    UnknownIsExplained
    ScopeIsRespected
    DecidedStands
PROPERTY AnswersStand
\* A run that knows everything has nothing left to learn.
CHECK_DEADLOCK FALSE
