CONSTANT MaxRuns = 2
SPECIFICATION Spec
INVARIANT
    CanceledIsNotSaved
CHECK_DEADLOCK FALSE
