\* script.js against a correct, a failing and an arbitrary target.
CONSTANTS
    Reqs <- Script
    ArbitraryTarget = TRUE
SPECIFICATION Spec
INVARIANT TypeOK
INVARIANT ThresholdSound
INVARIANT ChecksThresholdMet
CHECK_DEADLOCK FALSE
