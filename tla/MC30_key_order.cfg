\* 30.js against a correct target that may emit the stub with its keys in another order.
CONSTANTS
    Pos <- Pos30
    Neg <- Neg30
    H <- H30
    H_JSON <- H_JSON30
    Sid = "30"
    NeedAux = FALSE
    StubForms <- MC_StubBoth
    ArbitraryTarget = FALSE
SPECIFICATION Spec
INVARIANT CorrectTargetAllPass
CHECK_DEADLOCK FALSE
