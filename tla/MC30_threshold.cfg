\* 30.js: does the http_req_failed threshold hold against a correct target?
CONSTANTS
    Pos <- Pos30
    Neg <- Neg30
    H <- H30
    H_JSON <- H_JSON30
    Sid = "30"
    NeedAux = FALSE
    StubForms <- MC_Stub
    ArbitraryTarget = FALSE
SPECIFICATION Spec
INVARIANT ThresholdMet
CHECK_DEADLOCK FALSE
