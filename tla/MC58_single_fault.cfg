\* 58.js: does every negative case break exactly one acceptance condition?
CONSTANTS
    Pos <- Pos58
    Neg <- Neg58
    H <- H58
    H_JSON <- H_JSON58
    Sid = "58"
    NeedAux = TRUE
    StubForms <- MC_Stub
    ArbitraryTarget = FALSE
SPECIFICATION Spec
INVARIANT SingleFault
CHECK_DEADLOCK FALSE
