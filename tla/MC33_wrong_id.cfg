\* 33.js against a correct target: does every check of the suite pass?
CONSTANTS
    Pos <- Pos33
    Neg <- Neg33
    H <- H33
    H_JSON <- H_JSON33
    Sid = "33"
    NeedAux = FALSE
    StubForms <- MC_Stub
    ArbitraryTarget = FALSE
SPECIFICATION Spec
INVARIANT CorrectTargetAllPass
CHECK_DEADLOCK FALSE
