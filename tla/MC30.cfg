\* 30.js against a correct, a failing and an arbitrary target.
CONSTANTS
    Pos <- Pos30
    Neg <- Neg30
    H <- H30
    H_JSON <- H_JSON30
    Sid = "30"
    NeedAux = FALSE
    StubForms <- MC_Stub
    ArbitraryTarget = TRUE
SPECIFICATION Spec
INVARIANT TypeOK
INVARIANT CorrectTargetAllPass
PROPERTY Termination
CHECK_DEADLOCK FALSE
