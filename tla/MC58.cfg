\* 58.js (session cookie required) against a correct, a failing and an arbitrary target.
CONSTANTS
    Pos <- Pos58
    Neg <- Neg58
    H <- H58
    H_JSON <- H_JSON58
    Sid = "58"
    NeedAux = TRUE
    StubForms <- MC_Stub
    ArbitraryTarget = TRUE
SPECIFICATION Spec
INVARIANT CorrectTargetAllPass
CHECK_DEADLOCK FALSE
