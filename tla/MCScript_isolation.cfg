\* script.js: does one failed request leave the later groups unrun?
CONSTANTS
    Reqs <- Script
    ArbitraryTarget = FALSE
SPECIFICATION Spec
INVARIANT FailureIsolation
CHECK_DEADLOCK FALSE
