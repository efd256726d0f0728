CONSTANTS
    Clients = {"c"}
    Counts = {1, 4}
    Listed = 2
    MaxTime = 8
    Overlap = 1
    Replays = FALSE
    Early = FALSE
    Cleanups = FALSE
SPECIFICATION Spec
INVARIANT
    ServedWithoutGap
CHECK_DEADLOCK FALSE
