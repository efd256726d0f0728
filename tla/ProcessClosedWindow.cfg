CONSTANT MaxRuns = 2
SPECIFICATION Spec
INVARIANT
    ClosedWindowHasNoWorker
CHECK_DEADLOCK FALSE
