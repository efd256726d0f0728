CONSTANTS
    Members = 5
    MaxIntervals = 2
SPECIFICATION Spec
INVARIANT
    EligibleFailureIsOffered
CHECK_DEADLOCK FALSE
