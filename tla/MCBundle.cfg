SPECIFICATION MCSpec
CONSTANTS
    None = None
    KeyIds = {"k1", "k2"}
    PublicKeys = {"p1", "p2"}
    Dates = {1, 2}
    Reasons = {"lost"}
    Forms = {"plain", "wide"}
    Versions <- MCVersions
    Ids = {"A", "B"}
    Bodies = {1, 2}
    Texts = {"plain", "commented"}
    Minimums = {"1.0.0", "2.0.0"}
    Compilers = {1, 2}
    Allowlists = {"a1"}
    MaxSigned = 2
INVARIANTS
    ChainMovesForward
    CheckedIsWhatWasSigned
    OneSigningOneBundle
    SignedIsAccepted
    LocalRunNamesNothingOfTheServer
    VerdictsAreComputed
    HonestRecordAccepted
CHECK_DEADLOCK FALSE
