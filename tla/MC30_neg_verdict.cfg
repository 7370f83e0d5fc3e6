\* 30.js: negative verdicts against the rule of spec 4.4 (non-200 OR body differs).
CONSTANTS
    Pos <- Pos30
    Neg <- Neg30
    H <- H30
    H_JSON <- H_JSON30
    Sid = "30"
    NeedAux = FALSE
    StubForms <- MC_Stub
    ArbitraryTarget = TRUE
SPECIFICATION Spec
INVARIANT NegVerdictPerSpec
CHECK_DEADLOCK FALSE
